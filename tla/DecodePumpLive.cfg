CONSTANTS
  Cap = 2
  Epochs = {0}
  MaxGen = 3
  MaxFrames = 4
  MaxBatch = 1
  MaxAck = 0
SPECIFICATION FairPumpSpec
PROPERTY RecoveryCloses
CHECK_DEADLOCK FALSE
