CONSTANTS
    ThreadNum = 3
    MaxTasks = 4
    MpscProducers = {q1, q2}
    Nodes = {1, 2, 3}
    MaxEnqueued = 3
    Capacity = 4
    MaxPushed = 5
    ProConsumers = {d1, d2}
    MaxAdded = 5
    Databases <- ThreeDatabases
    AsyncCount = 2
    SynchCount = 2
    MaxLoads = 3
    Callers = {"t1", "t2"}
    SynchCounts = {0, 1, 2}
    SyncIndexMod = 4
    LoopBreaker = 5
    MaxHandles = 2
    PoolSize = 2
    MaxQueries = 2
    Holders = {t1, t2}
    PtrSlots = {1, 2}
    MaxObjects = 2
    Spinners = {s1, s2, s3}
    MaxAdds = 4
    MaxKey = 3
    kMaxHeight_ = 2
    Iterations = 3
    MemPoolSize = 8
    MemSizes = {3, 8}
    MaxAllocFromPool = 8
    FailedLimit = 0
    MaxBlocks = 3
    MaxLargeAllocs = 2
    Clock = 16
    Interval = 3
    Period = 4
    StartTime = 2
    Expiry = 5
    Diffs = {0, 1, 2, 3, 5}
    MaxTime = 24
    BufConns = 2
    BufSize = 2
    BufExtra = 2
    BufStream = 6
    BufLineEnds = {3, 5}
    BufMessage = 2
    BufRoom = 3
    BufSteps = 3
SPECIFICATION MCSpec
INVARIANTS
    WakeupsCoverBacklog
    DrainedWhenGone
    SmallQueuesSound
    ConnectionsSound
    AtomicsSound
    ArithmeticSound
    BuffersSound
PROPERTIES
    PostedTasksRun
    DestructorReturns
