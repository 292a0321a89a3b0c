CONSTANTS
  MaxId = 5
  KeyIds = {4}
  WideIds = {3, 4}
  CorruptIds = {2}
  MAX_PENDING_FRAMES = 4
  REORDER_MAX_COMPLETED_FRAMES = 2
  REORDER_MAX_WAIT = 1
  MAX_BYTES = 5
  MaxRecovered = 2
  MaxEpoch = 1
SPECIFICATION ReceiverSpec
INVARIANT UnbrokenStream
CHECK_DEADLOCK FALSE
