CONSTANTS
    Sizes <- ClockSizes
    TimeMod = 24
    Timers = {n1, n2}
    Delays = {0, 1, 2, 3, 4, 5, 6, 7, 11, 13}
    FreshCancel = {FALSE}
SPECIFICATION FairSpec
INVARIANTS
    SkippedOnlyIfDeleted
PROPERTIES
    OthersLeaveTheWheel
