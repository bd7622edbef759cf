------------------------------ MODULE ConnPool ------------------------------
(***************************************************************************)
(* mysqlconnpool: MySQLConnPool with its connections (MySQLConn), each     *)
(* with a worker thread (MySQLWorker) that executes the operations of a    *)
(* shared BlockingQueue, and AsyncProcessor, which polls the futures and   *)
(* calls the callbacks.  One client thread makes all the calls.  The queue *)
(* is a sequence here; its condition variable is the matter of             *)
(* BlockingQueue.                                                          *)
(***************************************************************************)
EXTENDS Integers, Sequences, SequencesExt

CONSTANTS
    PoolSize,    \* pool_size of InitPool
    MaxQueries   \* bound: queries issued

VARIABLES
    conn_,       \* connection -> "uninitialised", "null" or "open"; what a pointer that
                 \* was never set holds may happen to be null
    worker,      \* connection -> "none", "pop", "execute" or "exited"
    op,          \* connection -> the operation its worker executes, 0: none
    queue_, nonblock_,
    promise,     \* operation -> "pending", "rows" or "null"
    pending,     \* pending_queries_ of the AsyncProcessor
    at,          \* the element InvokeIfReady is at, 0 outside
    phase,       \* "init", "open", "cancelled", "gone"
    making,      \* the connection InitPool or the destructor is at
    invoked,     \* history: the callbacks that ran, with the result they were given
    crashed, openFailed   \* history
vars == <<conn_, worker, op, queue_, nonblock_, promise, pending, at, phase, making, invoked,
          crashed, openFailed>>

Conns == 1..PoolSize

Init ==
    /\ conn_ \in [Conns -> {"uninitialised", "null"}] /\ worker = [c \in Conns |-> "none"]
    /\ op = [c \in Conns |-> 0] /\ queue_ = <<>> /\ nonblock_ = FALSE
    /\ promise = <<>> /\ pending = <<>> /\ at = 0 /\ phase = "init" /\ making = 1
    /\ invoked = <<>> /\ crashed = FALSE /\ openFailed = FALSE

\* What conn_ is after an Open that began with it as before.  connect throws: conn_
\* is left alone, unless the error is a lost connection, for which the handler
\* closes conn_ and opens again; setSchema throws: conn_ is there.
AfterOpen(before, outcome) ==
    CASE outcome = "ok" -> "open"
      [] outcome = "setSchema" -> "open"
      [] outcome = "connect" -> before
      [] outcome = "lost" -> "null"

\* InitPool: a connection is made, its worker started, then it is opened.  The
\* handler of a lost connection closes the pointer nobody has set.
InitPool(outcome) ==
    /\ ~crashed /\ phase = "init"
    /\ worker' = [worker EXCEPT ![making] = "pop"]
    /\ conn_' = [conn_ EXCEPT ![making] = AfterOpen(@, outcome)]
    /\ crashed' = (outcome = "lost" /\ conn_[making] = "uninitialised")
    /\ openFailed' = (openFailed \/ outcome # "ok")
    /\ making' = IF making = PoolSize THEN 1 ELSE making + 1
    /\ phase' = IF making = PoolSize THEN "open" ELSE "init"
    /\ UNCHANGED <<op, queue_, nonblock_, promise, pending, at, invoked>>

\* BlockingQueue::Push; the condition Pop waits for.
Push(q) == queue_' = Append(queue_, q)
NotEmptyOrNonblock == queue_ # <<>> \/ nonblock_

\* MySQLConnPool::Query and AddQueryCallback.
Query ==
    /\ ~crashed /\ phase = "open" /\ at = 0 /\ Len(promise) < MaxQueries
    /\ promise' = Append(promise, "pending")
    /\ Push(Len(promise'))
    /\ pending' = Append(pending, Len(promise'))
    /\ UNCHANGED <<conn_, worker, op, nonblock_, at, phase, making, invoked, crashed, openFailed>>

------------------------------------------------------------------------------
(* MySQLWorker::Worker.                                                    *)

\* BlockingQueue::Pop, and the end of the thread.
Pop(c) ==
    /\ ~crashed /\ worker[c] = "pop" /\ NotEmptyOrNonblock
    /\ IF queue_ = <<>>
       THEN worker' = [worker EXCEPT ![c] = "exited"] /\ UNCHANGED <<op, queue_>>
       ELSE /\ worker' = [worker EXCEPT ![c] = "execute"]
            /\ op' = [op EXCEPT ![c] = Head(queue_)] /\ queue_' = Tail(queue_)
    /\ UNCHANGED <<conn_, nonblock_, promise, pending, at, phase, making, invoked, crashed, openFailed>>

\* SQLOperation::Execute and MySQLConn::Query.  An exception gives a null result;
\* if the connection was lost it is closed and opened again, once, and the query
\* is not repeated.
Execute(c, result, outcome) ==
    /\ ~crashed /\ worker[c] = "execute"
    /\ outcome # "none" => result = "null"
    /\ IF conn_[c] # "open" THEN crashed' = TRUE /\ UNCHANGED <<conn_, worker, op, promise, openFailed>>
       ELSE /\ promise' = [promise EXCEPT ![op[c]] = result]
            /\ op' = [op EXCEPT ![c] = 0] /\ worker' = [worker EXCEPT ![c] = "pop"]
            /\ conn_' = IF outcome = "none" THEN conn_
                        ELSE [conn_ EXCEPT ![c] = AfterOpen("null", outcome)]
            /\ openFailed' = (openFailed \/ outcome \notin {"none", "ok"})
            /\ UNCHANGED crashed
    /\ UNCHANGED <<queue_, nonblock_, pending, at, phase, making, invoked>>

------------------------------------------------------------------------------
(* AsyncProcessor::InvokeIfReady.                                          *)

Poll ==
    /\ ~crashed /\ at = 0 /\ pending # <<>>
    /\ at' = 1
    /\ UNCHANGED <<conn_, worker, op, queue_, nonblock_, promise, pending, phase, making, invoked,
                   crashed, openFailed>>

InvokeIfReady ==
    /\ ~crashed /\ at # 0
    /\ LET q == pending[at]
       IN  IF promise[q] # "pending"
           THEN /\ invoked' = Append(invoked, <<q, promise[q]>>)
                /\ pending' = RemoveAt(pending, at)
                /\ at' = IF at > Len(pending') THEN 0 ELSE at
           ELSE /\ at' = IF at = Len(pending) THEN 0 ELSE at + 1
                /\ UNCHANGED <<pending, invoked>>
    /\ UNCHANGED <<conn_, worker, op, queue_, nonblock_, promise, phase, making, crashed, openFailed>>

------------------------------------------------------------------------------
(* ~MySQLConnPool.                                                         *)

Cancel ==
    /\ ~crashed /\ phase = "open" /\ at = 0
    /\ nonblock_' = TRUE /\ phase' = "cancelled"
    /\ UNCHANGED <<conn_, worker, op, queue_, promise, pending, at, making, invoked, crashed, openFailed>>

\* ~MySQLConn of the next connection: its worker is joined, then conn_ is deleted.
DestroyConn ==
    /\ ~crashed /\ phase = "cancelled" /\ worker[making] = "exited"
    /\ crashed' = (conn_[making] = "uninitialised")
    /\ conn_' = [conn_ EXCEPT ![making] = "null"]
    /\ making' = IF making = PoolSize THEN 1 ELSE making + 1
    /\ phase' = IF making = PoolSize THEN "gone" ELSE phase
    /\ UNCHANGED <<worker, op, queue_, nonblock_, promise, pending, at, invoked, openFailed>>

Next ==
    \/ \E outcome \in {"ok", "connect", "setSchema", "lost"} : InitPool(outcome)
    \/ Query \/ Poll \/ InvokeIfReady \/ Cancel \/ DestroyConn
    \/ \E c \in Conns :
          \/ Pop(c)
          \/ \E result \in {"rows", "null"}, outcome \in {"none", "ok", "connect", "setSchema"} :
                Execute(c, result, outcome)

Spec == Init /\ [][Next]_vars

------------------------------------------------------------------------------
(* Properties.                                                             *)

\* Every query's callback is pending or ran once, with the result of that query;
\* no operation is lost between the queue and its promise; when the pool is gone
\* every operation was executed and every worker has ended.  The pool goes wrong
\* only after a connection could not be opened.
ConnPoolSound ==
    /\ \A q \in DOMAIN promise :
         /\ Cardinality({k \in DOMAIN pending : pending[k] = q})
              + Cardinality({k \in DOMAIN invoked : invoked[k][1] = q}) = 1
         /\ promise[q] = "pending" <=> (\E k \in DOMAIN queue_ : queue_[k] = q)
                                       \/ \E c \in Conns : op[c] = q
    /\ \A k \in DOMAIN invoked : invoked[k][2] = promise[invoked[k][1]]
    /\ phase = "gone" =>
         (\A q \in DOMAIN promise : promise[q] # "pending") /\ \A c \in Conns : worker[c] = "exited"
    /\ crashed => openFailed

==============================================================================
