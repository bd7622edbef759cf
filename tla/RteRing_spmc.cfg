CONSTANTS
    Producers = {p1}
    Consumers = {c1, c2}
    Size = 4
    IndexMod = 8
    Burst = {1, 2}
    SpEnqueue = TRUE
    ScDequeue = FALSE
    Watermarks = {}
    MaxObjs = 5
SPECIFICATION FairSpec
PROPERTIES
    ImplementsFifo
    TailWaitEnds
CHECK_DEADLOCK FALSE
