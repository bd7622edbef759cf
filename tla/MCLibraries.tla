------------------------------ MODULE MCLibraries ------------------------------
(***************************************************************************)
(* The model-checking instance of the wheels of timewheel.c and of the     *)
(* libraries that TLC alone checks, because recursion computes their state *)
(* (timer containers, fmt) or because they are chains of callbacks and of  *)
(* results (DbCallbacks, DbStatement).  A behaviour uses one of them,      *)
(* chosen at the beginning, so the states are the sum of theirs; the       *)
(* variables of the library in use are v1, v2, ... in the order it         *)
(* declares them.                                                          *)
(***************************************************************************)
EXTENDS TimeWheel, TLC

Symmetry == Permutations(Timers)

\* Format strings: the characters, the beginnings that are extended, and two
\* argument lists.
FormatChars == {"{", "}", ":", "0", "1", "d", ".", "<", "+", "#", "lead"}
FormatSeeds == {<<>>, <<"{">>, <<"{", ":">>, <<"{", "1", ":">>, <<"{", ":", "<", "0">>}
FormatArgs ==
    {<<[type |-> "int", value |-> 1], [type |-> "string", value |-> 0]>>,
     <<[type |-> "double", value |-> 0], [type |-> "uint", value |-> 10],
       [type |-> "int", value |-> -1]>>}

VARIABLES
    lib,   \* the library that is used
    v1, v2, v3, v4, v5, v6, v7, v8, v9, v10, v11, v12, v13, v14, v15   \* its variables

Heap == INSTANCE TimerHeap WITH
    Timers <- 1..4, Delays <- {1, 2, 3}, ClockMod <- 16, ClockStarts <- {7, 14},
    ClockMoves <- {7, 14}, heap <- v1, idx <- v2, time <- v3, now <- v4, cur <- v5,
    running <- v6, pending <- v7, wrapped <- v8, dangling <- v9
BigHeap == INSTANCE TimerHeap WITH
    Timers <- 1..6, Delays <- {0, 1, 2}, ClockMod <- 8, ClockStarts <- {0},
    ClockMoves <- {}, heap <- v1, idx <- v2, time <- v3, now <- v4, cur <- v5,
    running <- v6, pending <- v7, wrapped <- v8, dangling <- v9
Skip == INSTANCE TimerSkipList WITH
    SkipNodes <- 1..3, SkipMaxLevel <- 2, SkipDelays <- {0, 1, 2}, ClockMod <- 8,
    ClockStarts <- {5}, ClockMoves <- {5}, forward <- v1, score <- v2, level <- v3,
    length <- v4, now <- v5, cur <- v6, handling <- v7, pending <- v8, freed <- v9,
    shared <- v10, wrapped <- v11, mistaken <- v12
BigSkip == INSTANCE TimerSkipList WITH
    SkipNodes <- 1..4, SkipMaxLevel <- 2, SkipDelays <- {0, 1}, ClockMod <- 8,
    ClockStarts <- {0}, ClockMoves <- {}, forward <- v1, score <- v2, level <- v3,
    length <- v4, now <- v5, cur <- v6, handling <- v7, pending <- v8, freed <- v9,
    shared <- v10, wrapped <- v11, mistaken <- v12
Rb == INSTANCE TimerRbTree WITH
    RbNodes <- 1..6, RbDelays <- {1, 2}, KeyMod <- 16, RbStart <- 14, RbTicks <- 2,
    MaxTimers <- 3, circular <- v1, tree <- v2, now <- v3, cur <- v4, handling <- v5,
    ticks <- v6, inTree <- v7
Set == INSTANCE TimerSet WITH
    Msecs <- {0, 1, 2}, MaxTick <- 3, MaxId <- 4, byFd <- v1, timeouts <- v2,
    gid <- v3, tick <- v4, loop <- v5, wake <- v6, nowArg <- v7, iter <- v8,
    ran <- v9, removed <- v10
Callbacks == INSTANCE DbCallbacks WITH
    MaxOps <- 3, MaxChain <- 2, HolderSize <- 1, of <- v1, op <- v2, prepared <- v3,
    holder <- v4, callbacks <- v5, update <- v6, at <- v7, kept <- v8,
    inCallback <- v9, aborted <- v10, misused <- v11, steps <- v12, ran <- v13,
    done <- v14, lost <- v15
Holding == INSTANCE DbCallbacks WITH
    MaxOps <- 2, MaxChain <- 2, HolderSize <- 2, of <- v1, op <- v2, prepared <- v3,
    holder <- v4, callbacks <- v5, update <- v6, at <- v7, kept <- v8,
    inCallback <- v9, aborted <- v10, misused <- v11, steps <- v12, ran <- v13,
    done <- v14, lost <- v15
Statements == INSTANCE DbStatement WITH
    Columns <- <<"BIT", "VAR_STRING">>, ParamCount <- 1, MaxRows <- 2,
    MaxLength <- 1, MaxCalls <- 3, MaxResults <- 1, m_Mysql <- v1, mStmt <- v2,
    statement_data <- v3, call <- v4, bound <- v5, results <- v6, text <- v7,
    heap <- v8, stamp <- v9, aborted <- v10, misused <- v11, cannotBind <- v12
Executions == INSTANCE DbStatement WITH
    Columns <- <<"SHORT">>, ParamCount <- 1, MaxRows <- 2, MaxLength <- 1,
    MaxCalls <- 3, MaxResults <- 2, m_Mysql <- v1, mStmt <- v2, statement_data <- v3,
    call <- v4, bound <- v5, results <- v6, text <- v7, heap <- v8, stamp <- v9,
    aborted <- v10, misused <- v11, cannotBind <- v12
Float == INSTANCE FmtFloat WITH
    Bits <- 4, FpSize <- 14, GrisuMinExp <- -10, CachedExps <- -2..5, SigBits <- 3,
    FloatExps <- -7..4, MaxDigits <- 3, MaxPrecision <- 4, value <- v1,
    spec <- v2, gen <- v3, precision <- v4, big <- v5, buf <- v6, exp <- v7,
    pc <- v8, unit <- v9
Parse == INSTANCE FmtParse WITH
    Alphabet <- FormatChars, ArgLists <- FormatArgs, MaxInt <- 10,
    Seeds <- FormatSeeds, MaxMore <- 4, str <- v1, args <- v2, more <- v3

libVars == <<v1, v2, v3, v4, v5, v6, v7, v8, v9, v10, v11, v12, v13, v14, v15>>

\* The variables from the n-th on, which the library in use does not have.
Unused(n) ==
    /\ (n <= 1 => v1 = 0) /\ (n <= 2 => v2 = 0) /\ (n <= 3 => v3 = 0)
    /\ (n <= 4 => v4 = 0) /\ (n <= 5 => v5 = 0) /\ (n <= 6 => v6 = 0)
    /\ (n <= 7 => v7 = 0) /\ (n <= 8 => v8 = 0) /\ (n <= 9 => v9 = 0)
    /\ (n <= 10 => v10 = 0) /\ (n <= 11 => v11 = 0) /\ (n <= 12 => v12 = 0)
    /\ (n <= 13 => v13 = 0) /\ (n <= 14 => v14 = 0) /\ (n <= 15 => v15 = 0)

MCInit ==
    /\ Init
    /\ \/ lib = "wheel" /\ Unused(1)
       \/ lib = "heap" /\ Heap!Init /\ Unused(10)
       \/ lib = "bigheap" /\ BigHeap!Init /\ Unused(10)
       \/ lib = "skiplist" /\ Skip!Init /\ Unused(13)
       \/ lib = "bigskip" /\ BigSkip!Init /\ Unused(13)
       \/ lib = "rbtree" /\ Rb!Init /\ Unused(8)
       \/ lib = "set" /\ Set!Init /\ Unused(11)
       \/ lib = "callbacks" /\ Callbacks!Init /\ Unused(16)
       \/ lib = "holders" /\ Holding!Init /\ Unused(16)
       \/ lib = "statements" /\ Statements!Init /\ Unused(13)
       \/ lib = "executions" /\ Executions!Init /\ Unused(13)
       \/ lib = "float" /\ Float!Init /\ Unused(10)
       \/ lib = "parse" /\ Parse!Init /\ Unused(4)

MCNext ==
    \/ lib = "wheel" /\ Next /\ UNCHANGED <<lib, libVars>>
    \/ lib = "heap" /\ Heap!Next /\ UNCHANGED <<lib, vars, v10, v11, v12, v13, v14, v15>>
    \/ lib = "bigheap" /\ BigHeap!Next /\ UNCHANGED <<lib, vars, v10, v11, v12, v13, v14, v15>>
    \/ lib = "skiplist" /\ Skip!Next /\ UNCHANGED <<lib, vars, v13, v14, v15>>
    \/ lib = "bigskip" /\ BigSkip!Next /\ UNCHANGED <<lib, vars, v13, v14, v15>>
    \/ lib = "rbtree" /\ Rb!Next /\ UNCHANGED <<lib, vars, v8, v9, v10, v11, v12, v13, v14, v15>>
    \/ lib = "set" /\ Set!Next /\ UNCHANGED <<lib, vars, v11, v12, v13, v14, v15>>
    \/ lib = "callbacks" /\ Callbacks!Next /\ UNCHANGED <<lib, vars>>
    \/ lib = "holders" /\ Holding!Next /\ UNCHANGED <<lib, vars>>
    \/ lib = "statements" /\ Statements!Next /\ UNCHANGED <<lib, vars, v13, v14, v15>>
    \/ lib = "executions" /\ Executions!Next /\ UNCHANGED <<lib, vars, v13, v14, v15>>
    \/ lib = "float" /\ Float!Next /\ UNCHANGED <<lib, vars, v10, v11, v12, v13, v14, v15>>
    \/ lib = "parse" /\ Parse!Next /\ UNCHANGED <<lib, vars, v4, v5, v6, v7, v8, v9, v10, v11, v12, v13, v14, v15>>

MCSpec == MCInit /\ [][MCNext]_<<lib, vars, libVars>>

------------------------------------------------------------------------------


\* QueryCallback and AsyncCallbackProcessor: see CallbacksSound of DbCallbacks.
\* Once with three operations, once with holders of two queries.
QueryCallbacksSound ==
    /\ lib = "callbacks" => Callbacks!CallbacksSound
    /\ lib = "holders" => Holding!CallbacksSound

\* Prepared statements and their results: see StatementsSound of DbStatement.
\* Once with two columns, once with two results of one statement held at a time.
PreparedStatementsSound ==
    /\ lib = "statements" => Statements!StatementsSound
    /\ lib = "executions" => Executions!StatementsSound

\* fmt prints the decimal nearest to the number, but for the tie with precision 0 in the
\* general format and the limit of the precision (see NearestDecimal of FmtFloat), and
\* reads a format string as its grammar does, with the same verdict at compile time and
\* at run time.
FormatSound ==
    /\ lib = "float" => Float!FmtFloatSound
    /\ lib = "parse" => Parse!FmtParseSound
==============================================================================
