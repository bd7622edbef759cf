CONSTANTS
    Sizes <- WheelSizes
    TimeMod = 32
    Timers = {n1, n2}
    Delays = {0, 2, 9, 17}
    FreshCancel = {TRUE, FALSE}
SPECIFICATION MCSpec
SYMMETRY Symmetry
INVARIANTS
    FiresOnItsTick
    OverdueOnlyInSlotZero
    
    QueryCallbacksSound
    PreparedStatementsSound
    FormatSound
CHECK_DEADLOCK FALSE
