CONSTANTS
    MaxConns = 3
    MaxFds = 2
    BufferSize = 1
    ExtraSize = 2
    Input <- Lines
    MsgSize = 2
    MaxMsgs = 2
    SendRoom = 1
    MaxPeerSteps = 3
    MaxTimers = 2
    Delays = {0, 1}
    MaxNow = 1
    UInt64 = 32
    Int32 = 16
SPECIFICATION Spec
INVARIANTS
    OutputWatched
    SentInOrder
    InputInOrder
    TimersInOrder
CHECK_DEADLOCK FALSE
