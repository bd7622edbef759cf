----------------------------- MODULE DbSyncPool -----------------------------
(***************************************************************************)
(* The synchronous half of DatabaseWorkerPool: threads of the program      *)
(* share the connections of IDX_SYNCH.  GetFreeConnection spins until it   *)
(* locks one, the call uses it and unlocks it; KeepAlive pings those it    *)
(* can lock; EscapeString uses the first connection without locking it.    *)
(*                                                                         *)
(* A use of a connection's handle is two steps, begin and end, so that the *)
(* uses of two threads can overlap.  A lost connection is opened again     *)
(* inside a use: the handle is closed, and then replaced by another one or *)
(* left null.                                                              *)
(***************************************************************************)
EXTENDS Integers, FiniteSets

CONSTANTS
    Callers,       \* threads of the program
    SynchCounts,   \* the numbers of synchronous connections to try
    IndexMod,      \* the range of the uint8 counter of GetFreeConnection
    LoopBreaker,   \* 5 in the code
    MaxHandles     \* bound: how often a connection is opened

VARIABLES
    num_cons,   \* _connections[IDX_SYNCH].size()
    owner,      \* connection -> the caller that has its m_Mutex, or NoOne
    handle,     \* connection -> the number of its MYSQL handle, 0: m_Mysql is null
    pc, what,   \* where a caller is, the call it makes
    i,          \* its counter in GetFreeConnection; the connection KeepAlive is at
    con,        \* the connection it works with, -1: none
    using,      \* the number of the handle it is using, 0: none
    again,      \* executions left for a transaction in a deadlock
    crashed,    \* history: the program divided by zero or used a handle that is gone
    aborted,    \* std::abort has been called
    overlap,    \* history: a connection was opened again while EscapeString used it
    gaveUp      \* history: the connections that could not be opened again
vars == <<num_cons, owner, handle, pc, what, i, con, using, again, crashed, aborted, overlap, gaveUp>>

NoOne == "nobody"
Cons == 0..num_cons - 1

Init ==
    /\ num_cons \in SynchCounts
    /\ owner = [c \in Cons |-> NoOne] /\ handle = [c \in Cons |-> 1]
    /\ pc = [t \in Callers |-> "idle"] /\ what = [t \in Callers |-> "none"]
    /\ i = [t \in Callers |-> 0] /\ con = [t \in Callers |-> -1]
    /\ using = [t \in Callers |-> 0] /\ again = [t \in Callers |-> 0]
    /\ crashed = FALSE /\ aborted = FALSE /\ overlap = FALSE /\ gaveUp = {}

Running == ~crashed /\ ~aborted

Go(t, where) == pc' = [pc EXCEPT ![t] = where]

\* Query, DirectExecute, DirectCommitTransaction and KeepAlive begin.
Call(t, kind) ==
    /\ Running /\ pc[t] = "idle"
    /\ what' = [what EXCEPT ![t] = kind]
    /\ i' = [i EXCEPT ![t] = 0]
    /\ Go(t, IF kind = "keepalive" THEN "ping" ELSE "search")
    /\ UNCHANGED <<num_cons, owner, handle, con, using, again, crashed, aborted, overlap, gaveUp>>

\* One turn of GetFreeConnection.
GetFreeConnection(t) ==
    /\ Running /\ pc[t] = "search"
    /\ IF num_cons = 0 THEN crashed' = TRUE /\ UNCHANGED <<owner, pc, i, con>>
       ELSE LET next == (i[t] + 1) % IndexMod
                c == next % num_cons
            IN  /\ i' = [i EXCEPT ![t] = next]
                /\ IF owner[c] = NoOne
                   THEN owner' = [owner EXCEPT ![c] = t] /\ con' = [con EXCEPT ![t] = c] /\ Go(t, "use")
                   ELSE UNCHANGED <<owner, con, pc>>
                /\ UNCHANGED crashed
    /\ UNCHANGED <<num_cons, handle, what, using, again, aborted, overlap, gaveUp>>

\* EscapeString: the first connection, not locked, and perhaps being opened again.
EscapeString(t) ==
    /\ Running /\ pc[t] = "idle"
    /\ IF num_cons = 0 THEN crashed' = TRUE /\ UNCHANGED <<pc, what, con, using, overlap>>
       ELSE /\ what' = [what EXCEPT ![t] = "escape"]
            /\ con' = [con EXCEPT ![t] = 0]
            /\ using' = [using EXCEPT ![t] = handle[0]]
            /\ overlap' = (overlap \/ \E u \in Callers : pc[u] = "reconnect" /\ con[u] = 0)
            /\ crashed' = (handle[0] = 0)
            /\ Go(t, "escape")
    /\ UNCHANGED <<num_cons, owner, handle, i, again, aborted, gaveUp>>

EscapeStringEnds(t) ==
    /\ Running /\ pc[t] = "escape"
    /\ crashed' = (using[t] # handle[0])
    /\ using' = [using EXCEPT ![t] = 0] /\ con' = [con EXCEPT ![t] = -1]
    /\ Go(t, "idle")
    /\ UNCHANGED <<num_cons, owner, handle, what, i, again, aborted, overlap, gaveUp>>

\* The connection's Query, Execute or ExecuteTransaction, or Ping.  Without a
\* handle the first three do nothing and return, however often a transaction is
\* executed; mysql_ping is called with null.
Use(t) ==
    /\ Running /\ pc[t] = "use"
    /\ using' = [using EXCEPT ![t] = handle[con[t]]]
    /\ IF handle[con[t]] # 0 THEN Go(t, "using") /\ UNCHANGED <<again, crashed>>
       ELSE /\ again' = [again EXCEPT ![t] = 0]
            /\ crashed' = (what[t] = "keepalive")
            /\ Go(t, "unlock")
    /\ UNCHANGED <<num_cons, owner, handle, what, i, con, aborted, overlap, gaveUp>>

\* _HandleMySQLErrno after a lost connection closes the handle; using keeps the
\* number of the closed one.  A ping ignores its result.
LoseConnection(t) ==
    /\ Running /\ pc[t] = "using" /\ what[t] # "keepalive" /\ using[t] < MaxHandles
    /\ handle' = [handle EXCEPT ![con[t]] = 0]
    /\ overlap' = (overlap \/ \E u \in Callers : pc[u] = "escape" /\ con[u] = con[t])
    /\ Go(t, "reconnect")
    /\ UNCHANGED <<num_cons, owner, what, i, con, using, again, crashed, aborted, gaveUp>>

\* Open succeeds, perhaps after attempts that failed, and the statements are
\* prepared: the statement is executed again.
Reconnect(t) ==
    /\ Running /\ pc[t] = "reconnect"
    /\ handle' = [handle EXCEPT ![con[t]] = using[t] + 1]
    /\ using' = [using EXCEPT ![t] = @ + 1]
    /\ Go(t, "using")
    /\ UNCHANGED <<num_cons, owner, what, i, con, again, crashed, aborted, overlap, gaveUp>>

\* The fifth attempt fails, or the statements cannot be prepared.
ReconnectAborts(t) ==
    /\ Running /\ pc[t] = "reconnect"
    /\ aborted' = TRUE
    /\ UNCHANGED <<num_cons, owner, handle, pc, what, i, con, using, again, crashed, overlap, gaveUp>>

\* An earlier attempt fails with an error of the default case: the call returns
\* and m_Mysql stays null.
ReconnectGivesUp(t) ==
    /\ Running /\ pc[t] = "reconnect"
    /\ gaveUp' = gaveUp \cup {con[t]}
    /\ using' = [using EXCEPT ![t] = 0] /\ again' = [again EXCEPT ![t] = 0]
    /\ Go(t, "unlock")
    /\ UNCHANGED <<num_cons, owner, handle, what, i, con, crashed, aborted, overlap>>

\* The use ends.  A transaction in a deadlock is executed again, LoopBreaker times
\* at most, with the connection still locked.
UseEnds(t, deadlock) ==
    /\ Running /\ pc[t] = "using"
    /\ deadlock => what[t] = "transaction"
    /\ crashed' = (using[t] # handle[con[t]])
    /\ using' = [using EXCEPT ![t] = 0]
    /\ LET left == IF again[t] = 0 THEN LoopBreaker + 1 ELSE again[t]
       IN  IF deadlock /\ left > 1
           THEN again' = [again EXCEPT ![t] = left - 1] /\ Go(t, "use")
           ELSE again' = [again EXCEPT ![t] = 0] /\ Go(t, "unlock")
    /\ UNCHANGED <<num_cons, owner, handle, what, i, con, aborted, overlap, gaveUp>>

Unlock(t) ==
    /\ Running /\ pc[t] = "unlock"
    /\ owner' = [owner EXCEPT ![con[t]] = NoOne]
    /\ con' = [con EXCEPT ![t] = -1]
    /\ Go(t, IF what[t] = "keepalive" THEN "ping" ELSE "idle")
    /\ UNCHANGED <<num_cons, handle, what, i, using, again, crashed, aborted, overlap, gaveUp>>

\* KeepAlive's loop: a connection that is locked is skipped.  The pings of the
\* asynchronous connections are operations of the queue (DbWorkerPool).
KeepAlive(t) ==
    /\ Running /\ pc[t] = "ping"
    /\ IF i[t] >= num_cons THEN Go(t, "idle") /\ UNCHANGED <<owner, con, i>>
       ELSE /\ i' = [i EXCEPT ![t] = @ + 1]
            /\ IF owner[i[t]] = NoOne
               THEN /\ owner' = [owner EXCEPT ![i[t]] = t] /\ con' = [con EXCEPT ![t] = i[t]]
                    /\ Go(t, "use")
               ELSE UNCHANGED <<owner, con, pc>>
    /\ UNCHANGED <<num_cons, handle, what, using, again, crashed, aborted, overlap, gaveUp>>

Next ==
    \E t \in Callers :
        \/ \E kind \in {"query", "transaction", "keepalive"} : Call(t, kind)
        \/ GetFreeConnection(t) \/ EscapeString(t) \/ EscapeStringEnds(t)
        \/ Use(t) \/ \E deadlock \in BOOLEAN : UseEnds(t, deadlock)
        \/ LoseConnection(t) \/ Reconnect(t) \/ ReconnectAborts(t) \/ ReconnectGivesUp(t)
        \/ Unlock(t) \/ KeepAlive(t)

Spec == Init /\ [][Next]_vars

------------------------------------------------------------------------------
(* Properties.                                                             *)

Holding == {"use", "using", "reconnect", "unlock"}

\* A mutex is held exactly by the caller that works with its connection, so no
\* connection is lost to the pool and none is used by two callers but through
\* EscapeString.  A connection is without a handle only while its owner opens it
\* again, or after that was given up (MySQLConnection.cpp:609, 632).  The program
\* goes wrong only in a pool without synchronous connections, when a connection
\* is opened again under EscapeString, or after a reconnect was given up.
SyncConnections ==
    /\ \A c \in Cons : owner[c] # NoOne <=> \E t \in Callers : con[t] = c /\ pc[t] \in Holding
    /\ \A t, u \in Callers : /\ t # u /\ con[t] # -1 /\ con[t] = con[u]
                             => "escape" \in {pc[t], pc[u]}
    /\ \A t \in Callers : pc[t] \in Holding => owner[con[t]] = t
    /\ \A c \in Cons : handle[c] = 0 =>
          c \in gaveUp \/ \E t \in Callers : con[t] = c /\ pc[t] = "reconnect"
    /\ \A t \in Callers : again[t] <= LoopBreaker
    /\ crashed => num_cons = 0 \/ overlap \/ gaveUp # {}

==============================================================================
