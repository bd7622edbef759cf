---------------------------- MODULE DbTransaction ----------------------------
(***************************************************************************)
(* Transactions of the connection pool of mysql-conn-pool/dbimpl: each     *)
(* connection runs ExecuteTransaction for the transactions it is given,    *)
(* by a worker thread that executes a TransactionTask (the asynchronous    *)
(* connections) or by the caller of DirectCommitTransaction, who holds the *)
(* connection's mutex (the synchronous ones).                              *)
(*                                                                         *)
(* A statement is its number in its transaction.  The server is external:  *)
(* it keeps a session per connection and the statements that have become   *)
(* durable.  A statement may fail with the errors that _HandleMySQLErrno   *)
(* tells apart: "deadlock" (the server has rolled the transaction back),   *)
(* "skip" (wrong value count, duplicate entry), "lost" (the connection is  *)
(* gone, and with it the session and its open transaction) and "schema"    *)
(* (bad field, no such table, parse error: the program aborts).  The       *)
(* statements around the queries (START TRANSACTION, COMMIT, ROLLBACK) may *)
(* also be "refused" with an error that falls to the default case: Execute *)
(* returns false, which their callers do not look at.                      *)
(***************************************************************************)
EXTENDS Integers, Sequences, FiniteSets

CONSTANTS
    AsyncConns, SyncConns,   \* the connections of the pool
    Transactions,
    Size,                    \* transaction -> number of its queries
    Attempts,                \* reconnect attempts, 5 in the code
    LoopBreaker,             \* retries of DirectCommitTransaction, 5 in the code
    Errors,                  \* the errors that may happen
    MaxErrors                \* bound: errors in one behaviour

Conns == AsyncConns \cup SyncConns
None == "none"

ASSUME DbTransactionAssumption ==
    /\ AsyncConns \cap SyncConns = {}
    /\ None \notin Transactions
    /\ Size \in [Transactions -> Nat]
    /\ Attempts \in Nat \ {0} /\ LoopBreaker \in Nat \ {0}
    /\ Errors \subseteq {"deadlock", "skip", "lost", "schema", "refused"}
    /\ MaxErrors \in Nat

\* For model checking: t0 has no query, t1 one and the others two.
Queries == [t \in Transactions |-> CASE t = "t0" -> 0 [] t = "t1" -> 1 [] OTHER -> 2]

VARIABLES
    pc,         \* "idle", "begin", "query", "commit", "rollback", "returned", "lock"
    trans,      \* m_trans of the connection's task, or None
    query,      \* the query of the transaction that is executed next
    errorCode,  \* "ok", "deadlock", "error": what ExecuteTransaction returns
    retrying,   \* the call is in its retry loop
    loop,       \* i of DirectCommitTransaction's loop
    mysql,      \* m_Mysql # nullptr
    attempts,   \* > 0: in _HandleMySQLErrno, with so many attempts left
    deadlockLock,  \* the connections (one or none) whose thread holds _deadlockLock
    aborted,    \* std::abort has been called
    cut,        \* history: the transactions whose call lost its connection, or began
                \* without one
    refused,    \* history: the transactions one of whose START TRANSACTION, COMMIT and
                \* ROLLBACK statements was refused
    result,     \* transaction -> "true", "false": the task's result (DirectCommit-
                \* Transaction comes to one too, but does not return it)
    \* the server
    inTx,       \* the transaction that opened the session's transaction, None: none open
    work,       \* the statements done in it, by transaction
    applied,    \* transaction -> its statements that are durable, in order
    errors      \* errors so far

taskVars   == <<trans, retrying, loop, deadlockLock, result>>
callVars   == <<pc, query, errorCode>>
connVars   == <<mysql, attempts, aborted, cut, refused>>
serverVars == <<inTx, work, applied, errors>>
vars == <<taskVars, callVars, connVars, serverVars>>

NoWork == [t \in Transactions |-> <<>>]

\* The pool has opened its connections (autocommit is on).
Init ==
    /\ pc = [c \in Conns |-> "idle"]
    /\ trans = [c \in Conns |-> None]
    /\ query = [c \in Conns |-> 1]
    /\ errorCode = [c \in Conns |-> "ok"]
    /\ retrying = [c \in Conns |-> FALSE]
    /\ loop = [c \in Conns |-> 0]
    /\ mysql = [c \in Conns |-> TRUE]
    /\ attempts = [c \in Conns |-> 0]
    /\ deadlockLock = {}
    /\ aborted = FALSE
    /\ cut = {}
    /\ refused = {}
    /\ result = [t \in Transactions |-> None]
    /\ inTx = [c \in Conns |-> None]
    /\ work = [c \in Conns |-> NoWork]
    /\ applied = [t \in Transactions |-> <<>>]
    /\ errors = 0

Goto(c, where) == pc' = [pc EXCEPT ![c] = where]

------------------------------------------------------------------------------
(* The server.                                                             *)

\* A session with nothing open, in autocommit mode.
FreshSession(c) ==
    /\ inTx' = [inTx EXCEPT ![c] = None]
    /\ work' = [work EXCEPT ![c] = NoWork]

\* The statement of transaction t is done: as part of the session's open
\* transaction, whoever opened it, or durably at once.
Store(c, t, q) ==
    IF inTx[c] # None
    THEN /\ work' = [work EXCEPT ![c][t] = Append(@, q)]
         /\ UNCHANGED <<inTx, applied>>
    ELSE /\ applied' = [applied EXCEPT ![t] = Append(@, q)]
         /\ UNCHANGED <<inTx, work>>

\* What has been done in the session's open transaction becomes durable.
MakeDurable(c) == applied' = [t \in Transactions |-> applied[t] \o work[c][t]]

Commit(c) == MakeDurable(c) /\ FreshSession(c)

\* START TRANSACTION commits the transaction that is open on the session, if
\* there is one, and opens a new one.
OpenTransaction(c) ==
    /\ MakeDurable(c)
    /\ inTx' = [inTx EXCEPT ![c] = trans[c]]
    /\ work' = [work EXCEPT ![c] = NoWork]

MayFail(e) == e \in Errors /\ errors < MaxErrors /\ errors' = errors + 1

------------------------------------------------------------------------------
(* MySQLConnection.                                                        *)

\* The thread of c executes a statement: the process runs and the connection
\* is not being reopened.
Executing(c, where) == ~aborted /\ pc[c] = where /\ attempts[c] = 0

\* START TRANSACTION, COMMIT or ROLLBACK is refused: _HandleMySQLErrno takes its
\* default case and nobody looks at what Execute returns.
Refuse(c) ==
    /\ MayFail("refused")
    /\ refused' = refused \cup {trans[c]}

\* A statement came back with 2006, 2013 or 2055: close the handle and start
\* to reconnect.  The statement stays where it is, to be executed again.
LoseConnection(c) ==
    /\ MayFail("lost")
    /\ mysql' = [mysql EXCEPT ![c] = FALSE]
    /\ attempts' = [attempts EXCEPT ![c] = Attempts]
    /\ cut' = cut \cup {trans[c]}
    /\ FreshSession(c)
    /\ UNCHANGED <<taskVars, callVars, aborted, refused>>

\* BeginTransaction, whose result is not looked at: a refused one leaves the
\* session as it is, and the queries run in it all the same.
BeginTransaction(c) ==
    /\ Executing(c, "begin")
    /\ \/ /\ query' = [query EXCEPT ![c] = 1]
          /\ Goto(c, "query")
          /\ \/ mysql[c] /\ OpenTransaction(c) /\ UNCHANGED <<refused, errors>>
             \/ mysql[c] /\ Refuse(c) /\ UNCHANGED <<inTx, work, applied>>
             \/ ~mysql[c] /\ UNCHANGED <<refused, serverVars>>
          /\ UNCHANGED <<taskVars, errorCode, mysql, attempts, aborted, cut>>
       \/ /\ mysql[c] /\ LoseConnection(c)
          /\ UNCHANGED applied \/ MakeDurable(c)

\* Execute returned false: take GetLastError and roll back.
QueryFailed(c, e) ==
    /\ errorCode' = [errorCode EXCEPT ![c] = e]
    /\ query' = [query EXCEPT ![c] = 1]
    /\ Goto(c, "rollback")
    /\ UNCHANGED <<taskVars, connVars>>

\* A failed query is passed over and the transaction goes on.
ExecuteIgnoringErrors(c) ==
    /\ Executing(c, "query")
    /\ query' = [query EXCEPT ![c] = @ + 1]
    /\ Goto(c, IF query[c] = Size[trans[c]] THEN "commit" ELSE "query")
    /\ \/ mysql[c] /\ Store(c, trans[c], query[c]) /\ UNCHANGED errors
       \/ mysql[c] /\ MayFail("skip") /\ UNCHANGED <<inTx, work, applied>>
       \/ mysql[c] /\ MayFail("deadlock") /\ FreshSession(c) /\ UNCHANGED applied
    /\ UNCHANGED <<errorCode, taskVars, connVars>>

\* Execute, of a raw or a prepared statement.  GetLastError of a connection
\* without a handle is mysql_errno(nullptr), which need not be an error.
Execute(c) ==
    /\ Executing(c, "query")
    /\ \/ /\ mysql[c]
          /\ Store(c, trans[c], query[c])
          /\ query' = [query EXCEPT ![c] = @ + 1]
          /\ Goto(c, IF query[c] = Size[trans[c]] THEN "commit" ELSE "query")
          /\ UNCHANGED <<errorCode, taskVars, connVars, errors>>
       \/ /\ mysql[c] /\ MayFail("skip")
          /\ QueryFailed(c, "error")
          /\ UNCHANGED <<inTx, work, applied>>
       \/ /\ mysql[c] /\ MayFail("deadlock")
          /\ QueryFailed(c, "deadlock")
          /\ FreshSession(c) /\ UNCHANGED applied
       \/ /\ mysql[c] /\ MayFail("schema")
          /\ aborted' = TRUE
          /\ UNCHANGED <<taskVars, callVars, mysql, attempts, cut, refused, inTx, work, applied>>
       \/ /\ mysql[c] /\ LoseConnection(c)
          /\ \/ UNCHANGED applied
             \/ /\ inTx[c] = None        \* it had been done before the answer was lost
                /\ applied' = [applied EXCEPT ![trans[c]] = Append(@, query[c])]
       \/ /\ ~mysql[c]
          /\ \E e \in {"ok", "error"} : QueryFailed(c, e)
          /\ UNCHANGED serverVars

\* CommitTransaction, whose result is not looked at: ExecuteTransaction returns
\* 0 after a refused one too.  The server has rolled the transaction back, or
\* left it open.
CommitTransaction(c) ==
    /\ Executing(c, "commit")
    /\ \/ /\ errorCode' = [errorCode EXCEPT ![c] = "ok"]
          /\ Goto(c, "returned")
          /\ \/ mysql[c] /\ Commit(c) /\ UNCHANGED <<refused, errors>>
             \/ /\ mysql[c] /\ Refuse(c) /\ UNCHANGED applied
                /\ FreshSession(c) \/ UNCHANGED <<inTx, work>>
             \/ ~mysql[c] /\ UNCHANGED <<refused, serverVars>>
          /\ UNCHANGED <<query, taskVars, mysql, attempts, aborted, cut>>
       \/ /\ mysql[c] /\ LoseConnection(c)
          /\ UNCHANGED applied \/ MakeDurable(c)

\* A failed transaction that is left open on the session.
RollbackForgotten(c) ==
    /\ Executing(c, "rollback")
    /\ Goto(c, "returned")
    /\ UNCHANGED <<query, errorCode, taskVars, connVars, serverVars>>

\* RollbackTransaction, whose result is not looked at either: after a refused
\* one the transaction is still open.
RollbackTransaction(c) ==
    /\ Executing(c, "rollback")
    /\ \/ /\ Goto(c, "returned")
          /\ \/ mysql[c] /\ FreshSession(c) /\ UNCHANGED <<refused, errors>>
             \/ mysql[c] /\ Refuse(c) /\ UNCHANGED <<inTx, work>>
             \/ ~mysql[c] /\ UNCHANGED <<refused, inTx, work, errors>>
          /\ UNCHANGED <<query, errorCode, taskVars, mysql, attempts, aborted, cut, applied>>
       \/ mysql[c] /\ LoseConnection(c) /\ UNCHANGED applied

\* _HandleMySQLErrno after the handle was closed.  Open succeeds and the
\* statements are prepared again: the statement is executed once more.
Reconnect(c) ==
    /\ ~aborted /\ attempts[c] > 0
    /\ mysql' = [mysql EXCEPT ![c] = TRUE]
    /\ attempts' = [attempts EXCEPT ![c] = 0]
    /\ UNCHANGED <<taskVars, callVars, aborted, cut, refused, serverVars>>

\* Open succeeds but the statements cannot be prepared.
ReconnectNoStatements(c) ==
    /\ ~aborted /\ attempts[c] > 0
    /\ aborted' = TRUE
    /\ UNCHANGED <<taskVars, callVars, mysql, attempts, cut, refused, serverVars>>

\* Open fails with one of the errors of the case: try again, or abort.
ReconnectFails(c) ==
    /\ ~aborted /\ attempts[c] > 0
    /\ IF attempts[c] = 1
       THEN aborted' = TRUE /\ UNCHANGED attempts
       ELSE attempts' = [attempts EXCEPT ![c] = @ - 1] /\ UNCHANGED aborted
    /\ UNCHANGED <<taskVars, callVars, mysql, cut, refused, serverVars>>

\* Open fails with any other error (the recursive call takes the default
\* case): the error is not handled and the connection stays without a handle.
ReconnectGivesUp(c) ==
    /\ ~aborted /\ attempts[c] > 1
    /\ attempts' = [attempts EXCEPT ![c] = 0]
    /\ UNCHANGED <<taskVars, callVars, mysql, aborted, cut, refused, serverVars>>

------------------------------------------------------------------------------
(* TransactionTask, TransactionWithResultTask, DirectCommitTransaction.    *)

\* A connection is given a transaction nobody has been given before.  An
\* empty one is not executed: ExecuteTransaction returns -1.
Begin(c, t) ==
    /\ ~aborted /\ pc[c] = "idle"
    /\ result[t] = None /\ \A d \in Conns : trans[d] # t
    /\ trans' = [trans EXCEPT ![c] = t]
    /\ Goto(c, IF Size[t] = 0 THEN "returned" ELSE "begin")
    /\ errorCode' = [errorCode EXCEPT ![c] = "error"]
    /\ cut' = IF mysql[c] THEN cut ELSE cut \cup {t}
    /\ UNCHANGED <<retrying, loop, deadlockLock, result, query, mysql, attempts, aborted,
                   refused, serverVars>>

\* The task ends, and with it the locals of the call; if it was retrying, its
\* lock_guard releases _deadlockLock.
Finish(c, r) ==
    /\ result' = [result EXCEPT ![trans[c]] = r]
    /\ trans' = [trans EXCEPT ![c] = None]
    /\ retrying' = [retrying EXCEPT ![c] = FALSE]
    /\ loop' = [loop EXCEPT ![c] = 0]
    /\ deadlockLock' = deadlockLock \ {c}
    /\ query' = [query EXCEPT ![c] = 1]
    /\ errorCode' = [errorCode EXCEPT ![c] = "ok"]
    /\ Goto(c, "idle")
    /\ UNCHANGED <<connVars, serverVars>>

Returned(c) == ~aborted /\ pc[c] = "returned"

Succeed(c) ==
    /\ Returned(c) /\ errorCode[c] = "ok"
    /\ Finish(c, "true")

\* A first try that deadlocked ends in a wait for _deadlockLock, on an
\* asynchronous connection, or in the loop of DirectCommitTransaction.
Deadlocked(c) ==
    /\ Returned(c) /\ errorCode[c] = "deadlock" /\ ~retrying[c]
    /\ IF c \in AsyncConns
       THEN Goto(c, "lock") /\ UNCHANGED retrying
       ELSE Goto(c, "begin") /\ retrying' = [retrying EXCEPT ![c] = TRUE]
    /\ UNCHANGED <<trans, loop, deadlockLock, result, query, errorCode, connVars, serverVars>>

LockForRetry(c) ==
    /\ ~aborted /\ pc[c] = "lock"
    /\ deadlockLock = {}
    /\ deadlockLock' = {c}
    /\ retrying' = [retrying EXCEPT ![c] = TRUE]
    /\ Goto(c, "begin")
    /\ UNCHANGED <<trans, loop, result, query, errorCode, connVars, serverVars>>

\* A retry that failed, with whatever error, is followed by another one: for
\* a minute, or LoopBreaker times.
Retry(c) ==
    /\ Returned(c) /\ errorCode[c] # "ok" /\ retrying[c]
    /\ c \in SyncConns => loop[c] + 1 < LoopBreaker
    /\ loop' = [loop EXCEPT ![c] = IF c \in SyncConns THEN @ + 1 ELSE 0]
    /\ Goto(c, "begin")
    /\ UNCHANGED <<trans, retrying, deadlockLock, result, query, errorCode, connVars, serverVars>>

\* A retry loop without a time limit on asynchronous connections.
FailUnlessRetrying(c) ==
    /\ Returned(c) /\ errorCode[c] # "ok"
    /\ IF retrying[c]
       THEN c \in SyncConns /\ loop[c] + 1 >= LoopBreaker
       ELSE errorCode[c] = "error"
    /\ Finish(c, "false")

\* The transaction is cleaned up: the error is none to retry after, or the
\* minute or the LoopBreaker retries are over.
Fail(c) ==
    /\ Returned(c) /\ errorCode[c] # "ok"
    /\ IF retrying[c]
       THEN c \in SyncConns => loop[c] + 1 >= LoopBreaker
       ELSE errorCode[c] = "error"
    /\ Finish(c, "false")

Stopped ==
    /\ \/ aborted
       \/ \A c \in Conns : pc[c] = "idle" /\ \A t \in Transactions : result[t] # None
    /\ UNCHANGED vars

------------------------------------------------------------------------------
Step(c) ==
    \/ BeginTransaction(c) \/ Execute(c) \/ CommitTransaction(c) \/ RollbackTransaction(c)
    \/ Reconnect(c) \/ ReconnectNoStatements(c) \/ ReconnectFails(c) \/ ReconnectGivesUp(c)
    \/ Succeed(c) \/ Deadlocked(c) \/ LockForRetry(c) \/ Retry(c) \/ Fail(c)

Next ==
    \/ \E c \in Conns, t \in Transactions : Begin(c, t)
    \/ \E c \in Conns : Step(c)
    \/ Stopped

Spec == Init /\ [][Next]_vars

\* A thread inside a call runs; the server answers; and the minute of the
\* retry loop comes to an end, so a retry that keeps failing is given up.
FairSpec ==
    /\ Spec
    /\ \A c \in Conns : WF_vars(Step(c)) /\ SF_vars(Fail(c))

------------------------------------------------------------------------------
(* Properties                                                              *)

Where == {"idle", "begin", "query", "commit", "rollback", "returned", "lock"}

\* Every connection is at a place of its call, the queries it runs exist, and
\* the reconnect attempts and retries stay within their limits.
TypeOK ==
    /\ pc \in [Conns -> Where]
    /\ trans \in [Conns -> Transactions \cup {None}]
    /\ query \in [Conns -> Nat]
    /\ \A c \in Conns :
          /\ pc[c] # "idle" => trans[c] \in Transactions
          /\ pc[c] = "query" => query[c] \in 1..Size[trans[c]]
    /\ errorCode \in [Conns -> {"ok", "deadlock", "error"}]
    /\ retrying \in [Conns -> BOOLEAN]
    /\ loop \in [Conns -> 0..(LoopBreaker - 1)]
    /\ mysql \in [Conns -> BOOLEAN]
    /\ attempts \in [Conns -> 0..Attempts]
    /\ deadlockLock \in SUBSET AsyncConns
    /\ aborted \in BOOLEAN /\ cut \in SUBSET Transactions /\ refused \in SUBSET Transactions
    /\ result \in [Transactions -> {None, "true", "false"}]
    /\ inTx \in [Conns -> Transactions \cup {None}]
    /\ work \in [Conns -> [Transactions -> Seq(Nat)]]
    /\ applied \in [Transactions -> Seq(Nat)]
    /\ errors \in 0..MaxErrors

\* All queries of a transaction, once each, in the order they were appended.
Complete(t) == [i \in 1..Size[t] |-> i]

\* A transaction takes effect as a whole or not at all, at every moment,
\* however often it is tried again and wherever its tries failed: it "will
\* automatically rollback if not commited" (DatabaseWorkerPool.h:169) and
\* "the order in which these operations were appended to the transaction
\* will be respected" (:172).
AllOrNothing == \A t \in Transactions : applied[t] \in {<<>>, Complete(t)}

\* The transactions that lost their connection, or one of whose START
\* TRANSACTION, COMMIT and ROLLBACK statements was refused.
Broken == cut \cup refused

\* Any other transaction is atomic, whatever errors its queries met, and
\* whatever happened on other connections or on this one before: neither what
\* an earlier transaction left open on its session nor an implicit commit
\* mixes with it.
AtomicUnlessBroken ==
    \A t \in Transactions \ Broken : applied[t] \in {<<>>, Complete(t)}

\* The promise of such a transaction says true only if it took effect, and
\* false only if nothing of it did or ever will, so that a caller may act on it.
\* (After a refused COMMIT the code reports true and nothing is durable.)
TruthfulUnlessBroken ==
    \A t \in Transactions \ Broken :
        /\ result[t] = "true" => applied[t] = Complete(t)
        /\ result[t] = "false" => applied[t] = <<>>

\* A connection that goes back to the pool has no open transaction and holds
\* nothing undone, which the next operation on it would join or commit, except
\* of a transaction whose COMMIT or ROLLBACK the server refused.
NothingLeftOpen ==
    \A c \in Conns : pc[c] = "idle" =>
        /\ inTx[c] \in refused \cup {None}
        /\ \A t \in Transactions \ refused : work[c][t] = <<>>

\* Every transaction that is begun comes to a result unless the program
\* aborts: no connection waits for ever for _deadlockLock or a reconnect.
TransactionsEnd ==
    \A c \in Conns : pc[c] # "idle" ~> pc[c] = "idle" \/ aborted

==============================================================================
