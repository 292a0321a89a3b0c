\* Core: a queue of two, three frames, batches of two, two epochs.  Keys: two
\* edges and one fault of the capture; three records over four keys through a
\* ring of two, two epochs of the filter.  C interface: a queue of one, two
\* resets, one latched value.  Present thread: two pictures, one fresh device
\* in a row, three failures or stalls.
CONSTANTS
    Cap = 2
    Epochs = {0, 7}
    MaxGen = 3
    MaxFrames = 3
    MaxBatch = 2
    MaxAck = 1
    MaxEdges = 2
    MaxFaults = 1
    MaxClicks = 1
    FilterKeys = {"alt", "tab", "win", "x"}
    RingCapacity = 2
    MaxRecords = 3
    MaxEpochs = 2
    MaxRefusals = 1
    RouteKeys = {"ctrl", "alt", "ralt", "tab", "del", "x"}
    MaxHeld = 3
    ApiCap = 1
    ApiEpochs = {7}
    ApiMaxGen = 2
    MaxLatched = 1
    MaxRecreates = 1
    MaxPictures = 2
    MaxMishaps = 3
SPECIFICATION PathsSpec
INVARIANTS ApiSound PresentSound NoGapWithoutReset GenerationsOrdered IngressInOrder CaptureOwned FilterFaithful 
PROPERTIES KeyOrderKept
CHECK_DEADLOCK FALSE
