CONSTANTS
  Cap = 2
  Epochs = {0, 7}
  MaxGen = 2
  MaxFrames = 4
  MaxBatch = 2
  MaxAck = 0
SPECIFICATION PumpSpec
INVARIANT DecoderFedWhole
PROPERTY ImplementsHandshake
CHECK_DEADLOCK FALSE
