\* Store: two interchangeable requests at a time, two operations.  Clipboards: two
\* texts, two copies.  Cursor: three shapes, caches of two.  Overlay: three frames,
\* three tile sizes against a budget of two, queues of one, six events.
CONSTANTS
    Tasks = {t1, t2}
    UserNames = {1, 2}
    MaxId = 4
    MaxOps = 2
    Peers = {p1, p2}
    Logins = {l1, l2}
    MaxFailures = 2
    Window = 2
    MapLimit = 1
    Texts = {1, 2}
    MaxSendFailures = 2
    MaxCopies = 2
    MaxMishaps = 2
    Cursors = {1, 2, 3}
    HugeCursors = {3}
    MaxTrackerFailures = 2
    CacheMax = 2
    RingDepth = 2
    Hysteresis = 2
    MaxChanges = 2
    MaxUnlucky = 1
    GenMod = 6
    MaxClaims = 7
    CursorShapes = {1, 2}
    DeskOutputs = {1, 2}
    MaxModes = 4
    Chunks = 3
    Quota = 2
    Positions = {1}
    Epochs = {1, 2}
    ChannelRoom = 1
    TileSizes = {1, 2, 3}
    MaxBytes = 2
    QueueRoom = 1
    MaxEvents = 6
    MaxFrames = 3
SPECIFICATION ServicesSpec
SYMMETRY RequestSymmetry
INVARIANTS ServerConsistent ClipboardsSettle CursorFollows DesktopAgrees OverlayHonest
 
CHECK_DEADLOCK FALSE
