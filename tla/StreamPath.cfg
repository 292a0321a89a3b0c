\* Streamer: WebRTC, two transports one after the other.  Rate: three changes
\* of the target.  Wire: fragments of two bytes, frames of five, sequence numbers
\* with every byte in use.
CONSTANTS
    Kinds = {"webrtc"}
    EventCap = 4
    MaxPackets = 1
    PipeCap = 1
    MaxTransports = 2
    Timeout = 1
    Modes = {{"switch", "peer"}, {"packet", "quit", "crash"}, {"host", "fec", "peer"}, {"fec", "failure"}}
    Ceiling = 10
    Floor = 2
    Step = 2
    MinApplyInterval = 2
    AckTimeout = 3
    AckQueue = 2
    MaxChanges = 3
    FragmentMaxV1 = 2
    FragmentMaxV2 = 2
    RepairMax = 24
    FrameMax = 5
    ChunkCountMax = 3
    WireNumbers = {0, 1, 128, 257, 65536, 16777217}
    Int16s <- SignedEdges
    TypedTexts <- SomeTexts
SPECIFICATION PathSpec
INVARIANTS StreamerOrdered RateGoverned WiresFaithful
PROPERTIES  StreamerSettles
CHECK_DEADLOCK FALSE
