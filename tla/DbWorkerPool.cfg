CONSTANTS
    AsyncThreads = 3
    MaxOps = 4
SPECIFICATION FairSpec
INVARIANTS
    OneOwner
    ThreadsHaveConnections
PROPERTIES
    OperationsLeaveQueue
    DestructionEnds
