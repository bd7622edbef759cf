CONSTANTS
    AsyncConns = {a1}
    SyncConns = {}
    Transactions = {"t0", "t2"}
    Size <- Queries
    Attempts = 5
    LoopBreaker = 5
    Errors = {"lost"}
    MaxErrors = 1
SPECIFICATION Spec
INVARIANTS
    AllOrNothing
