CONSTANTS
    AsyncConns = {a1, a2}
    SyncConns = {s1}
    Transactions = {"t1", "t2"}
    Size <- Queries
    Attempts = 2
    LoopBreaker = 2
    Errors = {"deadlock", "skip", "lost", "schema", "refused"}
    MaxErrors = 3
SPECIFICATION FairSpec
INVARIANTS
    AtomicUnlessBroken
    TruthfulUnlessBroken
    NothingLeftOpen
PROPERTIES
    TransactionsEnd
