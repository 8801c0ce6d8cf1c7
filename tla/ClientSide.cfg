SPECIFICATION ClientSpec
CONSTANTS
    Client = {a}
    Conn = {k1, k2}
    MaxRefs = 2
    MaxSend = 2
    MaxReq = 3
    Cpu = {c1, c2}
    MaxId = 5
    H2MaxReq = 2
    MaxClosed = 0
    MaxStreams = 2
INVARIANTS
    NoTimerAfterFree
    
    StreamsSound
PROPERTIES
    
    IdleIsClosed
    ResponsesGoOut
    ReleasedAfterDrop
    RequestsReleased
CHECK_DEADLOCK FALSE
