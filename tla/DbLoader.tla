------------------------------ MODULE DbLoader ------------------------------
(***************************************************************************)
(* DatabaseLoader, which opens the pools of mysql-conn-pool, prepares      *)
(* their statements and closes them again when one of them fails, with the *)
(* parts of DatabaseWorkerPool it calls.  One thread calls it.             *)
(*                                                                         *)
(* A pool has the number of its MySQLConnectionInfo (connections keep a    *)
(* reference to it, SetConnectionInfo replaces it), the host in it ("."    *)
(* means a Unix socket, and the first Open overwrites it with "localhost") *)
(* and its connections of both types.                                      *)
(***************************************************************************)
EXTENDS Integers, Sequences, SequencesExt

CONSTANTS
    Databases,                   \* the pools given to AddDatabase, a sequence
    AsyncThreads, SynchThreads,  \* connections of each kind
    MaxLoads                     \* bound: calls of Load

VARIABLES
    _open, _prepare,  \* the queues of predicates: the pools they are for
    _close,           \* the stack of close operations
    pool,             \* pool -> info, host, connections, shutdown (of its queue)
    loading,          \* "no", "open", "prepare": where Load is
    answers           \* history: what Load returned, call by call
vars == <<_open, _prepare, _close, pool, loading, answers>>

Pools == {Databases[i] : i \in DOMAIN Databases}
Types == {"async", "synch"}
NoConnections == [type \in Types |-> <<>>]

Init ==
    /\ _open = <<>> /\ _prepare = <<>> /\ _close = <<>>
    /\ pool = [p \in Pools |-> [info |-> 0, host |-> "", connections |-> NoConnections,
                              shutdown |-> FALSE]]
    /\ loading = "no" /\ answers = <<>>

Threads(type) == IF type = "async" THEN AsyncThreads ELSE SynchThreads

\* AddDatabase, called for the pools in order before Load.
AddDatabase ==
    /\ answers = <<>> /\ loading = "no" /\ Len(_open) < Len(Databases)
    /\ _open' = Append(_open, Databases[Len(_open) + 1])
    /\ _prepare' = Append(_prepare, Databases[Len(_open) + 1])
    /\ UNCHANGED <<_close, pool, loading, answers>>

Load ==
    /\ loading = "no" /\ Len(answers) < MaxLoads
    /\ (answers = <<>> => Len(_open) = Len(Databases))
    /\ loading' = "open"
    /\ UNCHANGED <<_open, _prepare, _close, pool, answers>>

\* MySQLConnection::Open, for what it does to the shared connection info: the
\* connection goes through the configured socket only while the host is ".".
Connected(p, n) ==
    [k \in 1..n |-> [info |-> p.info, prepared |-> FALSE, socket |-> p.host = "." /\ k = 1]]

\* DatabaseWorkerPool::OpenConnections.  n connections are opened; when that is not
\* all of them, the next one fails: it cannot be opened (all of the type are
\* dropped) or the server is too old (the others stay).  Destroying an asynchronous
\* connection cancels the queue; so does the one that failed.
OpenConnections(p, type, n, how) ==
    LET failed == n < Threads(type)
    IN  [p EXCEPT !.connections[type] =
                     IF failed /\ how = "connect" THEN <<>> ELSE @ \o Connected(p, n),
                  !.host = IF @ = "." /\ (n > 0 \/ failed) THEN "localhost" ELSE @,
                  !.shutdown = @ \/ (failed /\ type = "async")]

\* DatabaseWorkerPool::Close: all connections are destroyed, their workers first
\* cancel the queue.
Closed(p) == [p EXCEPT !.connections = NoConnections,
                       !.shutdown = @ \/ p.connections["async"] # <<>>]

\* SetConnectionInfo.
WithInfo(p) == [p EXCEPT !.info = @ + 1, !.host = "."]

\* The registered close operations, last first; then Load returns false.  The
\* predicate that failed stays at the front of its queue.
CloseAll(pools) == [p \in Pools |-> IF p \in ToSet(_close) THEN Closed(pools[p]) ELSE pools[p]]

ProcessFailsUnclosed(pools) ==
    /\ pool' = pools /\ _close' = _close
    /\ loading' = "no" /\ answers' = Append(answers, FALSE)

ProcessFails(pools) ==
    /\ pool' = CloseAll(pools) /\ _close' = <<>>
    /\ loading' = "no" /\ answers' = Append(answers, FALSE)

\* The predicate AddDatabase pushed to _open: Open, asynchronous connections first.
OpenDatabase ==
    /\ loading = "open" /\ _open # <<>>
    /\ LET db == Head(_open)
       IN  /\ pool' = [pool EXCEPT ![db] =
                         OpenConnections(OpenConnections(WithInfo(@), "async", AsyncThreads, "ok"),
                                         "synch", SynchThreads, "ok")]
           /\ _close' = <<db>> \o _close
    /\ _open' = Tail(_open)
    /\ UNCHANGED <<_prepare, loading, answers>>

OpenDatabaseFails(type, n, how) ==
    /\ loading = "open" /\ _open # <<>> /\ n < Threads(type)
    /\ LET db == Head(_open)
           info == WithInfo(pool[db])
           async == IF type = "async" THEN info
                    ELSE OpenConnections(info, "async", AsyncThreads, "ok")
       IN  ProcessFails([pool EXCEPT ![db] = OpenConnections(async, type, n, how)])
    /\ UNCHANGED <<_open, _prepare>>

OpenDatabasesDone ==
    /\ loading = "open" /\ _open = <<>>
    /\ loading' = "prepare"
    /\ UNCHANGED <<_open, _prepare, _close, pool, answers>>

\* DatabaseWorkerPool::PrepareStatements, connection by connection.
Prepared(p) ==
    [p EXCEPT !.connections = [type \in Types |-> [k \in DOMAIN p.connections[type] |->
                                 [p.connections[type][k] EXCEPT !.prepared = TRUE]]]]

PrepareStatements ==
    /\ loading = "prepare" /\ _prepare # <<>>
    /\ pool' = [pool EXCEPT ![Head(_prepare)] = Prepared(@)]
    /\ _prepare' = Tail(_prepare)
    /\ UNCHANGED <<_open, _close, loading, answers>>

\* A statement cannot be prepared on some connection: the pool is closed.
PrepareStatementsFails ==
    /\ loading = "prepare" /\ _prepare # <<>> /\ pool[Head(_prepare)].connections # NoConnections
    /\ ProcessFails([pool EXCEPT ![Head(_prepare)] = Closed(@)])
    /\ UNCHANGED <<_open, _prepare>>

LoadDone ==
    /\ loading = "prepare" /\ _prepare = <<>>
    /\ loading' = "no" /\ answers' = Append(answers, TRUE)
    /\ UNCHANGED <<_open, _prepare, _close, pool>>

Next ==
    \/ AddDatabase \/ Load
    \/ OpenDatabase
    \/ \E type \in Types, n \in 0..AsyncThreads + SynchThreads, how \in {"connect", "version"} :
          OpenDatabaseFails(type, n, how)
    \/ OpenDatabasesDone
    \/ PrepareStatements \/ PrepareStatementsFails \/ LoadDone

Spec == Init /\ [][Next]_vars

------------------------------------------------------------------------------
(* Properties.                                                             *)

\* A pool that can be used: all its connections, prepared, with live workers.
Ready(p) ==
    /\ \A type \in Types : Len(p.connections[type]) = Threads(type)
    /\ \A type \in Types : \A k \in 1..Len(p.connections[type]) :
          p.connections[type][k].prepared /\ p.connections[type][k].info = p.info
    /\ ~p.shutdown

\* Connection k of a type goes through the configured socket only if no other one
\* was opened before it with the same connection info.
OneSocket(p) ==
    \A type \in Types : \A k \in 1..Len(p.connections[type]) :
        p.connections[type][k].socket =>
          /\ \A j \in 1..k - 1 : p.connections[type][j].info # p.connections[type][k].info
          /\ type = "synch" => \A j \in 1..Len(p.connections["async"]) :
                                  p.connections["async"][j].info # p.connections["synch"][k].info

\* If the first Load returns true every pool is ready.  If a Load returns false, no
\* close operation is left, and only the pool whose Open failed still has
\* connections: asynchronous ones when the synchronous ones could not be opened, or
\* those from before the server turned out to be too old.  Pools whose workers are
\* gone, connections that refer to a replaced connection info, and a Load that
\* returns true without the pools being ready, come from an earlier Load that
\* failed.  Of the connections of one Open only the first goes through the
\* configured socket.
LoaderSound ==
    /\ answers = <<TRUE>> /\ loading = "no" => \A p \in Pools : Ready(pool[p])
    /\ answers # <<>> /\ loading = "no" /\ ~Last(answers) =>
         /\ _close = <<>>
         /\ \A p \in Pools : pool[p].connections # NoConnections => _open # <<>> /\ p = Head(_open)
    /\ \A p \in Pools :
         /\ FALSE \notin ToSet(answers) =>
              /\ ~pool[p].shutdown
              /\ \A type \in Types : \A k \in 1..Len(pool[p].connections[type]) :
                   pool[p].connections[type][k].info = pool[p].info
         /\ OneSocket(pool[p])

==============================================================================
