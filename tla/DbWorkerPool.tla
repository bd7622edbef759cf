---------------------------- MODULE DbWorkerPool ----------------------------
(***************************************************************************)
(* The asynchronous half of DatabaseWorkerPool: Open creates connections,  *)
(* each with a DatabaseWorker whose thread takes operations from the       *)
(* shared queue; Close and the destructors stop them again.                *)
(*                                                                         *)
(* Connections are numbered in the order they are created.  Operations     *)
(* are numbered in the order they are enqueued; executing one is a single  *)
(* step, since what it does is the matter of DbTransaction.  The thread    *)
(* that owns the pool calls Open, Close and the destructor; other threads  *)
(* enqueue while the pool is open (Close "should only be called after any  *)
(* other thread tasks in the core have exited", DatabaseWorkerPool.cpp).   *)
(***************************************************************************)
EXTENDS ProducerConsumerQueue, FiniteSets

CONSTANTS
    AsyncThreads,   \* _async_threads
    MaxOps          \* bound: operations enqueued in one behaviour

ASSUME DbWorkerPoolAssumption ==
    AsyncThreads \in Nat \ {0} /\ MaxOps \in Nat

Conns == 1..AsyncThreads

VARIABLES
    worker,    \* "none", "pop", "check", "run", "exited": the thread of a connection
    op,        \* the operation the thread holds, 0: none
    _cancelationToken,
    pooled,    \* _connections[IDX_ASYNC]: the connections the pool holds
    phase,     \* "opening", "open", "failing", "failed", "closing", "closed",
               \* "destroying", "gone"
    creating,  \* the connection OpenConnections is working on, 0: none
    doomed,    \* the connections being destroyed, in order
    stage,     \* where the destructor of the first of them is
    pushed,    \* operations enqueued so far
    done, dropped, leaked   \* operations executed; deleted by Cancel; forgotten

workerVars == <<worker, op, _cancelationToken>>
ownerVars  == <<pooled, phase, creating, doomed, stage>>
opVars     == <<pushed, done, dropped, leaked>>
vars == <<queueVars, workerVars, ownerVars, opVars>>

Queued == {_queue[i] : i \in 1..Len(_queue)}

Init ==
    /\ QueueInit
    /\ worker = [w \in Conns |-> "none"]
    /\ op = [w \in Conns |-> 0]
    /\ _cancelationToken = [w \in Conns |-> FALSE]
    /\ pooled = <<>>
    /\ phase = "opening"
    /\ creating = 0
    /\ doomed = <<>>
    /\ stage = "token"
    /\ pushed = 0
    /\ done = {} /\ dropped = {} /\ leaked = {}

------------------------------------------------------------------------------
(* DatabaseWorker::WorkerThread.                                           *)

WorkerPop(w) ==
    /\ worker[w] = "pop"
    /\ \E v \in Queued :
         /\ PopValue(w, v)
         /\ op' = [op EXCEPT ![w] = v]
    /\ worker' = [worker EXCEPT ![w] = "check"]
    /\ UNCHANGED <<_cancelationToken, ownerVars, opVars>>

WorkerWait(w) ==
    /\ worker[w] = "pop"
    /\ Wait(w)
    /\ UNCHANGED <<workerVars, ownerVars, opVars>>

WorkerWake(w) ==
    /\ worker[w] = "pop"
    /\ SpuriousWake(w)
    /\ UNCHANGED <<workerVars, ownerVars, opVars>>

\* WaitAndPop returned no operation: the thread ends, whatever its token.
WorkerExit(w) ==
    /\ worker[w] = "pop"
    /\ PopNothing(w)
    /\ worker' = [worker EXCEPT ![w] = "exited"]
    /\ UNCHANGED <<op, _cancelationToken, ownerVars, opVars>>

\* A check that deletes the operation and keeps the pointer.
CheckDropping(w) ==
    /\ worker[w] = "check"
    /\ worker' = [worker EXCEPT ![w] = IF _cancelationToken[w] THEN "exited" ELSE "run"]
    /\ IF _cancelationToken[w] THEN dropped' = dropped \cup {op[w]} ELSE UNCHANGED dropped
    /\ UNCHANGED <<queueVars, op, _cancelationToken, ownerVars, pushed, done, leaked>>

\* With an operation in hand the token is looked at: if it is set the thread
\* returns, and neither executes nor deletes the operation.
WorkerCheck(w) ==
    /\ worker[w] = "check"
    /\ IF _cancelationToken[w]
       THEN /\ worker' = [worker EXCEPT ![w] = "exited"]
            /\ leaked' = leaked \cup {op[w]}
            /\ op' = [op EXCEPT ![w] = 0]
       ELSE /\ worker' = [worker EXCEPT ![w] = "run"]
            /\ UNCHANGED <<leaked, op>>
    /\ UNCHANGED <<queueVars, _cancelationToken, ownerVars, pushed, done, dropped>>

\* SetConnection, call, delete.
WorkerRun(w) ==
    /\ worker[w] = "run"
    /\ worker' = [worker EXCEPT ![w] = "pop"]
    /\ done' = done \cup {op[w]}
    /\ op' = [op EXCEPT ![w] = 0]
    /\ UNCHANGED <<queueVars, _cancelationToken, ownerVars, pushed, dropped, leaked>>

------------------------------------------------------------------------------
(* Users of the pool: Execute, AsyncQuery, DelayQueryHolder,               *)
(* CommitTransaction, AsyncCommitTransaction, KeepAlive.                   *)

Enqueue ==
    /\ phase = "open"
    /\ pushed < MaxOps
    /\ pushed' = pushed + 1
    /\ Push(pushed + 1)
    /\ UNCHANGED <<workerVars, ownerVars, done, dropped, leaked>>

------------------------------------------------------------------------------
(* The owner: OpenConnections.                                             *)

\* The constructor of the connection starts its worker.
CreateConnection ==
    /\ phase = "opening" /\ creating = 0 /\ Len(pooled) < AsyncThreads
    /\ creating' = Len(pooled) + 1
    /\ worker' = [worker EXCEPT ![Len(pooled) + 1] = "pop"]
    /\ UNCHANGED <<queueVars, op, _cancelationToken, pooled, phase, doomed, stage, opVars>>

OpenSucceeds ==
    /\ phase = "opening" /\ creating # 0
    /\ pooled' = Append(pooled, creating)
    /\ creating' = 0
    /\ UNCHANGED <<queueVars, workerVars, phase, doomed, stage, opVars>>

\* The owner goes on to destroy connections.
Destroy(conns, during) ==
    /\ doomed' = conns
    /\ stage' = "token"
    /\ phase' = during

\* Open fails: the pool's connections are cleared, then the new one goes out
\* of scope.
OpenFails ==
    /\ phase = "opening" /\ creating # 0
    /\ Destroy(Append(pooled, creating), "failing")
    /\ pooled' = <<>> /\ creating' = 0
    /\ UNCHANGED <<queueVars, workerVars, opVars>>

\* The server is too old: only the new connection goes out of scope.
OpenTooOld ==
    /\ phase = "opening" /\ creating # 0
    /\ Destroy(<<creating>>, "failing")
    /\ creating' = 0
    /\ UNCHANGED <<queueVars, workerVars, pooled, opVars>>

\* The synchronous connections are opened as well, or are not.
OpenReturns ==
    /\ phase = "opening" /\ creating = 0 /\ Len(pooled) = AsyncThreads
    /\ phase' \in {"open", "failed"}
    /\ UNCHANGED <<queueVars, workerVars, pooled, creating, doomed, stage, opVars>>

Close ==
    /\ phase = "open"
    /\ Destroy(pooled, "closing")
    /\ pooled' = <<>>
    /\ UNCHANGED <<queueVars, workerVars, creating, opVars>>

\* ~DatabaseWorkerPool cancels the queue and destroys what the pool holds.
DestroyPool ==
    /\ phase \in {"open", "failed", "closed"}
    /\ Cancel
    /\ dropped' = dropped \cup Queued
    /\ Destroy(pooled, "destroying")
    /\ pooled' = <<>>
    /\ UNCHANGED <<workerVars, creating, pushed, done, leaked>>

------------------------------------------------------------------------------
(* The owner: MySQLConnection::Close, which is ~DatabaseWorker.            *)

SetToken ==
    /\ doomed # <<>> /\ stage = "token"
    /\ _cancelationToken' = [_cancelationToken EXCEPT ![Head(doomed)] = TRUE]
    /\ stage' = "cancel"
    /\ UNCHANGED <<queueVars, worker, op, pooled, phase, creating, doomed, opVars>>

CancelQueue ==
    /\ doomed # <<>> /\ stage = "cancel"
    /\ Cancel
    /\ dropped' = dropped \cup Queued
    /\ stage' = "join"
    /\ UNCHANGED <<workerVars, pooled, phase, creating, doomed, pushed, done, leaked>>

\* A connection destroyed while its thread may still use it.
JoinSkipped ==
    /\ doomed # <<>> /\ stage = "join"
    /\ doomed' = Tail(doomed)
    /\ stage' = "token"
    /\ UNCHANGED <<queueVars, workerVars, pooled, phase, creating, opVars>>

Join ==
    /\ doomed # <<>> /\ stage = "join"
    /\ worker[Head(doomed)] = "exited"
    /\ doomed' = Tail(doomed)
    /\ stage' = "token"
    /\ UNCHANGED <<queueVars, workerVars, pooled, phase, creating, opVars>>

\* The call that destroyed connections returns.
Destroyed ==
    /\ doomed = <<>>
    /\ phase' = CASE phase = "failing" -> "failed"
                  [] phase = "closing" -> "closed"
                  [] phase = "destroying" -> "gone"
                  [] OTHER -> phase
    /\ phase' # phase
    /\ UNCHANGED <<queueVars, workerVars, pooled, creating, doomed, stage, opVars>>

Gone == phase = "gone" /\ UNCHANGED vars

------------------------------------------------------------------------------
WorkerStep(w) ==
    WorkerPop(w) \/ WorkerWait(w) \/ WorkerExit(w) \/ WorkerCheck(w) \/ WorkerRun(w)

OpenStep == CreateConnection \/ OpenSucceeds \/ OpenFails \/ OpenTooOld \/ OpenReturns

DestroyStep == SetToken \/ CancelQueue \/ Join \/ Destroyed

Next ==
    \/ \E w \in Conns : WorkerStep(w) \/ WorkerWake(w)
    \/ Enqueue
    \/ OpenStep \/ Close \/ DestroyPool \/ DestroyStep
    \/ Gone

Spec == Init /\ [][Next]_vars

\* Threads run: a worker that can take a step takes it, an operation returns,
\* and a destructor under way goes on.  Nobody has to close the pool.
FairSpec ==
    /\ Spec
    /\ \A w \in Conns : WF_vars(WorkerStep(w))
    /\ WF_vars(DestroyStep)

------------------------------------------------------------------------------
(* Properties                                                              *)

\* The threads, the owner and the queue are where the code can be.
TypeOK ==
    /\ _queue \in Seq(1..MaxOps) /\ _shutdown \in BOOLEAN /\ _condition \in SUBSET Conns
    /\ worker \in [Conns -> {"none", "pop", "check", "run", "exited"}]
    /\ op \in [Conns -> 0..MaxOps]
    /\ _cancelationToken \in [Conns -> BOOLEAN]
    /\ pooled \in Seq(Conns) /\ doomed \in Seq(Conns)
    /\ phase \in {"opening", "open", "failing", "failed", "closing", "closed",
                  "destroying", "gone"}
    /\ creating \in 0..AsyncThreads
    /\ stage \in {"token", "cancel", "join"}
    /\ pushed \in 0..MaxOps
    /\ done \in SUBSET (1..MaxOps) /\ dropped \in SUBSET (1..MaxOps)
    /\ leaked \in SUBSET (1..MaxOps)

Held == {op[w] : w \in Conns} \ {0}

\* Besides the types: an operation has one owner.  It is queued, held by one
\* thread, or has been executed, deleted or forgotten, and never two of these,
\* so nothing is executed twice, executed after it was deleted, or deleted twice.
OneOwner ==
    /\ TypeOK
    /\ Queued \cup Held \cup done \cup dropped \cup leaked = 1..pushed
    /\ \A v, w \in Conns : op[v] = op[w] /\ op[v] # 0 => v = w
    /\ Cardinality(Queued) = Len(_queue)
    /\ Cardinality(Queued) + Cardinality(Held) + Cardinality(done)
         + Cardinality(dropped) + Cardinality(leaked) = pushed

\* A connection that exists: held by the pool, being opened or not yet gone.
Alive == {pooled[i] : i \in 1..Len(pooled)} \cup {doomed[i] : i \in 1..Len(doomed)}
           \cup ({creating} \ {0})

\* "Stop the worker thread before the statements are cleared"
\* (MySQLConnection.cpp:96): a thread that has not ended belongs to a
\* connection that exists, so it never touches a handle that was closed, nor
\* the queue after the pool is gone.
ThreadsHaveConnections ==
    \A w \in Conns : worker[w] \in {"pop", "check", "run"} => w \in Alive

\* The threads that will look at the queue without being notified again.
Awake == {w \in Conns : worker[w] \in {"pop", "check", "run"}} \ _condition

\* An operation does not stay in the queue for ever.
OperationsLeaveQueue == \A i \in 1..MaxOps : i \in Queued ~> i \notin Queued

\* Close, a failed Open and the destructor come to an end: every thread they
\* join does exit, also when another connection's destructor has shut the
\* queue down.
DestructionEnds == doomed # <<>> ~> doomed = <<>>

=============================================================================
