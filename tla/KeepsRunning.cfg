\* Receiver: five frames, two keys, one corrupt.  Role: three hosts, one
\* respawn.  Migration: crashes anywhere, I/O errors once the journal is on
\* disk.  Swap: runs stopped at any call, the journal cut short or not.
CONSTANTS
    MaxId = 5
    KeyIds = {1, 4}
    WideIds = {3, 4}
    CorruptIds = {1}
    MAX_PENDING_FRAMES = 4
    REORDER_MAX_COMPLETED_FRAMES = 2
    REORDER_MAX_WAIT = 1
    MAX_BYTES = 5
    MaxRecovered = 2
    MaxEpoch = 1
    MaxRestarts = 1
    MaxHosts = 3
    MaxPids = 3
    SourceSets = {{}, {"identity", "config"}}
    Fallible = {"clear_staging", "stage_identity", "stage_config", "mark_staged",
                "verify", "mark_verified", "remove_identity", "remove_config",
                "switch_identity", "switch_config", "drop_staging", "drop_journal",
                "rb_staging", "rb_identity", "rb_config", "rb_restore_identity",
                "rb_restore_config", "rb_journal"}
    MaxFaults = 4
    Versions = {"v1", "v2"}
    TornWrites = TRUE
    MaxStops = 3
    MaxSets = 4
    Watchdog = 9
    Attach = 4
    Settle = 10
    MaxFails = 3
    Slots = {0, 1, 2}
    MaxTrouble = 4
    Remotes = {r1, r2}
    LeaseMs = 3
    GenRing = 4
    Monitors = 3
    Models = 2
    MaxStreams = 1
    QueueCap = 2
    SourceRate = 8
    PacketFrames = 2
    DeviceRates = {8, 10}
    DeviceChannels = {1, 2}
    MaxDeviceEvents = 2
SPECIFICATION RunningSpec
INVARIANTS ReceiverSound FoundationOwned InstallSurvives DisplayKept PlayoutHonest AuthorityFailsOpen
PROPERTIES AuthorityUndisturbed KeepsGoing
CHECK_DEADLOCK FALSE
