CONSTANTS
    Producers = {p1, p2}
    Consumers = {c1, c2}
    Controllers = {k1}
    MsgMax = 1
    SizeMod = 16
    MaxMsgs = 3
SPECIFICATION FairSpec
INVARIANTS
    ListsConsistent
    NoStrandedSleeper
PROPERTIES
    ImplementsFifo
    PutsReturn
    NonblockReleases
CHECK_DEADLOCK FALSE
