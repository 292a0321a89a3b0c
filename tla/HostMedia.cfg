\* Video: two frames of FEC queue, one of RTP queue, frames of two chunks, two
\* setups.  Control: two setups, two units of rate between floor and ceiling.
CONSTANTS
    QueueCapacity = 2
    ChannelQueueSize = 1
    AckCapacity = 1
    MaxChunks = 2
    MaxGenerations = 2
    Modes = {{"feedback", "errors", "encoder", "late"}, {"fec_only", "feedback", "errors", "encoder"}, {"fec_only", "resetup"}}
    CcMax = 4
    CcMin = 2
    WindowFrames = 2
    InflateFrames = 2
    DeflateFrames = 2
    CooldownFrames = 2
    MaxSetups = 2
SPECIFICATION MediaSpec
INVARIANTS HostVideoSound RateSteady
PROPERTY RateMovesEarned
CHECK_DEADLOCK FALSE
