CONSTANTS
    Sizes <- WheelSizes
    TimeMod = 32
    Timers = {n1}
    Delays = {1, 2, 3}
    FreshCancel = {FALSE}
SPECIFICATION Spec
INVARIANTS
    NoTimerOverdue
