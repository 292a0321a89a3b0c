\* FEC: windows of three in a serial space of 14, five sources, two packets in flight.  Session: short
\* ladders, one kind of trouble, two sessions.  Tab: three sockets, one rung per
\* ladder.  Pipe: four frames, two mishaps, two configurations.
CONSTANTS
    SerialMod = 14
    WindowMax = 3
    RxMax = 3
    Denominator = 2
    MaxSent = 5
    Bases = {0, 12}
    MaxFlight = 2
    MaxDupes = 1
    MaxLag = 5
    StallIndicator = 1
    IdrFirst = 1
    IdrRetry = 1
    IdrMax = 1
    IceRestart = 2
    ReconnectAfter = 3
    StageStall = 1
    StageRetry = 2
    StageMax = 1
    Backoff1 = 1
    Backoff2 = 2
    Backoff3 = 2
    MaxGap = 1
    EventCap = 1
    MaxCands = 2
    Troubles = {{"signaling"}, {"control"}, {"media"}}
    MaxSessions = 2
    MaxSockets = 3
    RestartMax = 1
    TabIdrMax = 1
    MaxFrames = 4
    WideFrames = {3}
    MaxPending = 3
    MaxCompleted = 1
    MaxFragments = 4
    MaxConfigs = 2
    MaxMishaps = 2
    Backlog = 2
SPECIFICATION TransportSpec
INVARIANTS AckSafe NumbersAccounted SessionEarned TabRecovers PictureWhole
CHECK_DEADLOCK FALSE
