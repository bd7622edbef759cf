CONSTANTS
    MaxConns = 1
    MaxFds = 1
    BufferSize = 2
    ExtraSize = 2
    Input <- Lines
    MsgSize = 1
    MaxMsgs = 0
    SendRoom = 1
    MaxPeerSteps = 1
    MaxTimers = 1
    Delays = {1}
    MaxNow = 2
    UInt64 = 32
    Int32 = 16
SPECIFICATION FairSpec
PROPERTIES
    TimersRun
CHECK_DEADLOCK FALSE
