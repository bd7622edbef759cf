CONSTANTS
    Producers = {p1, p2}
    Consumers = {c1}
    Size = 4
    IndexMod = 8
    Burst = {1, 2}
    SpEnqueue = FALSE
    ScDequeue = TRUE
    Watermarks = {0, 2}
    MaxObjs = 9
SPECIFICATION Spec
SYMMETRY Symmetry
INVARIANTS
    IndexOrder
    SlotsExclusive
    QuotaReported
PROPERTIES
    ImplementsFifo
CHECK_DEADLOCK FALSE
