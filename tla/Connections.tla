----------------------------- MODULE Connections -----------------------------
(***************************************************************************)
(* The parts that keep database connections and share no state: the        *)
(* loader, the synchronous connections and mysqlconnpool.  A behaviour     *)
(* uses one of them, connectionKind; the variables of the others keep      *)
(* their values.                                                           *)
(***************************************************************************)
EXTENDS Integers, Sequences, FiniteSets

CONSTANTS
    Databases, AsyncCount, SynchCount, MaxLoads,                     \* of DbLoader
    Callers, SynchCounts, SyncIndexMod, LoopBreaker, MaxHandles,     \* of DbSyncPool
    PoolSize, MaxQueries                                             \* of ConnPool

\* The pools of a loader are different.
ASSUME ConnectionsAssumption ==
    /\ AsyncCount \in Nat /\ SynchCount \in Nat /\ Databases \in Seq(STRING)
    /\ \A a, b \in 1..Len(Databases) : Databases[a] = Databases[b] => a = b
    /\ SynchCounts \subseteq Nat /\ SyncIndexMod \in Nat \ {0} /\ LoopBreaker \in Nat
    /\ "nobody" \notin Callers /\ PoolSize \in Nat \ {0}

VARIABLES
    connectionKind,   \* the part that is used
    \* DbLoader, DbSyncPool, ConnPool
    _open, _prepare, _close, pool, loading, answers,
    num_cons, owner, handle, syncPc, what, syncI, con, using, again, syncCrashed, syncAborted, overlap, gaveUp,
    conn_, connWorker, connOp, connQueue, connNonblock, promise, connPending, connAt, connPhase,
    making, invoked, connCrashed, openFailed

loaderVars == <<_open, _prepare, _close, pool, loading, answers>>
syncVars == <<num_cons, owner, handle, syncPc, what, syncI, con, using, again, syncCrashed, syncAborted,
              overlap, gaveUp>>
connVars == <<conn_, connWorker, connOp, connQueue, connNonblock, promise, connPending, connAt, connPhase,
              making, invoked, connCrashed, openFailed>>
connectionsVars == <<connectionKind, loaderVars, syncVars, connVars>>

Loader == INSTANCE DbLoader WITH AsyncThreads <- AsyncCount, SynchThreads <- SynchCount
Sync == INSTANCE DbSyncPool
          WITH IndexMod <- SyncIndexMod, pc <- syncPc, i <- syncI, crashed <- syncCrashed, aborted <- syncAborted
Conn == INSTANCE ConnPool
          WITH worker <- connWorker, op <- connOp, queue_ <- connQueue, nonblock_ <- connNonblock,
               pending <- connPending, at <- connAt, phase <- connPhase, crashed <- connCrashed

ConnectionKinds == {"loader", "sync", "connpool"}

ConnectionsInit == Loader!Init /\ Sync!Init /\ Conn!Init

ConnectionsNext ==
    /\ UNCHANGED connectionKind
    /\ \/ connectionKind = "loader" /\ Loader!Next /\ UNCHANGED <<syncVars, connVars>>
       \/ connectionKind = "sync" /\ Sync!Next /\ UNCHANGED <<loaderVars, connVars>>
       \/ connectionKind = "connpool" /\ Conn!Next /\ UNCHANGED <<loaderVars, syncVars>>

ConnectionsSpec == connectionKind \in ConnectionKinds /\ ConnectionsInit /\ [][ConnectionsNext]_connectionsVars

------------------------------------------------------------------------------
(* Properties                                                              *)

\* Connections: a failed load closes what it had opened, in reverse order (see
\* LoaderSound of DbLoader), synchronous connections have one user at a time and
\* are given back, and the workers of mysqlconnpool answer every query that was
\* taken from the queue.
ConnectionsSound ==
    /\ connectionKind = "loader" => Loader!LoaderSound
    /\ connectionKind = "sync" => Sync!SyncConnections
    /\ connectionKind = "connpool" => Conn!ConnPoolSound
==============================================================================
