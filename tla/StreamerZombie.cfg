\* The WebSocket transport with an event channel that fills.
CONSTANTS
    Kinds = {"websocket"}
    EventCap = 1
    MaxPackets = 1
    PipeCap = 1
    MaxTransports = 1
    Timeout = 1
    Modes = {{"quit"}}
SPECIFICATION FifoSpec
PROPERTY Reaped
CHECK_DEADLOCK FALSE
