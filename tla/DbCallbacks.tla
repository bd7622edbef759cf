----------------------------- MODULE DbCallbacks -----------------------------
(***************************************************************************)
(* The client's side of the asynchronous calls of mysql-conn-pool: the     *)
(* operations with their promises (BasicStatementTask,                     *)
(* PreparedStatementTask, SQLQueryHolderTask, TransactionWithResultTask),  *)
(* the chain of callbacks of a QueryCallback, query holders, and           *)
(* AsyncCallbackProcessor, which polls them.  of tells what the processor  *)
(* is instantiated with.  Worker threads execute the queued operations or, *)
(* when the pool is shut down, delete them; the client is one thread.      *)
(*                                                                         *)
(* A QueryCallback is a record: its kind, the operation its future belongs *)
(* to (0: the future is not valid), and the kinds of its callbacks.  A     *)
(* failing ASSERT ends the process (aborted).  Exceptions that leave       *)
(* ProcessReadyCallbacks are caught by the caller, which goes on.          *)
(***************************************************************************)
EXTENDS Integers, Sequences, FiniteSets

CONSTANTS
    MaxOps, MaxChain,  \* bounds: operations issued, callbacks of one chain
    HolderSize         \* the number of queries of a holder

VARIABLES
    of,          \* "query", "holder" or "transaction"
    op,          \* operation -> "queued", "set" or "broken" (its promise)
    prepared,    \* operation -> its kind
    holder,      \* operation -> per query "none" (no statement), "todo", "rows" or "null"
    callbacks,   \* _callbacks of the processor
    update, at,  \* updateCallbacks and the element the predicate is at, 0 outside
    kept,        \* the elements the predicate kept
    inCallback,  \* a callback of update[at] is running
    aborted,
    misused,     \* history: a call that no ASSERT should let pass
    steps,       \* history: object -> the operations given to it, in order
    ran,         \* history: object -> the operations its callbacks ran for
    done, lost   \* history: objects that completed, that an exception destroyed
opVars == <<op, prepared, holder>>
vars == <<of, op, prepared, holder, callbacks, update, at, kept, inCallback, aborted, misused,
          steps, ran, done, lost>>

Init ==
    /\ of \in {"query", "holder", "transaction"}
    /\ op = <<>> /\ prepared = <<>> /\ holder = <<>>
    /\ callbacks = <<>> /\ update = <<>> /\ at = 0 /\ kept = <<>> /\ inCallback = FALSE
    /\ aborted = FALSE /\ misused = FALSE
    /\ steps = <<>> /\ ran = <<>> /\ done = {} /\ lost = {}

Alive == ~aborted
\* The client may make calls between passes and in callbacks.
Client == Alive /\ (at = 0 \/ inCallback)

------------------------------------------------------------------------------
(* DatabaseWorkerPool and the operations.                                  *)

\* AsyncQuery, DelayQueryHolder, AsyncCommitTransaction: the future is taken
\* before the operation is queued.  queries: which of a holder's have a statement.
Enqueue(isPrepared, queries) ==
    /\ Len(op) < MaxOps
    /\ op' = Append(op, "queued")
    /\ prepared' = Append(prepared, isPrepared)
    /\ holder' = Append(holder, IF of # "holder" THEN <<>>
                                ELSE [i \in 1..HolderSize |-> IF i \in queries THEN "todo" ELSE "none"])

\* SQLQueryHolderTask::Execute, one query of it.  A result without rows is dropped.
ExecuteInHolder(q) ==
    /\ Alive /\ op[q] = "queued"
    /\ \E i \in DOMAIN holder[q] :
          /\ holder[q][i] = "todo" /\ \A j \in 1..i - 1 : holder[q][j] # "todo"
          /\ \E r \in {"rows", "null"} : holder' = [holder EXCEPT ![q][i] = r]
    /\ UNCHANGED <<of, op, prepared, callbacks, update, at, kept, inCallback, aborted, misused,
                   steps, ran, done, lost>>

\* A holder's promise set before its queries were executed.
SetValueFirst(q) ==
    /\ Alive /\ op[q] = "queued"
    /\ op' = [op EXCEPT ![q] = "set"]
    /\ UNCHANGED <<of, prepared, holder, callbacks, update, at, kept, inCallback, aborted, misused,
                   steps, ran, done, lost>>

\* The promise is set: for a holder after all its queries, for the others with
\* the result, a null pointer when there are no rows.
SetValue(q) ==
    /\ Alive /\ op[q] = "queued" /\ \A i \in DOMAIN holder[q] : holder[q][i] # "todo"
    /\ op' = [op EXCEPT ![q] = "set"]
    /\ UNCHANGED <<of, prepared, holder, callbacks, update, at, kept, inCallback, aborted, misused,
                   steps, ran, done, lost>>

\* The operation is deleted before a worker began it: its promise is broken.
Discard(q) ==
    /\ Alive /\ op[q] = "queued" /\ \A i \in DOMAIN holder[q] : holder[q][i] \in {"none", "todo"}
    /\ op' = [op EXCEPT ![q] = "broken"]
    /\ UNCHANGED <<of, prepared, holder, callbacks, update, at, kept, inCallback, aborted, misused,
                   steps, ran, done, lost>>

------------------------------------------------------------------------------
(* The client.                                                             *)

\* A query with its callbacks is handed to the processor (AddCallback).  kinds are
\* those of WithChainingCallback and WithChainingPreparedCallback, whose ASSERT
\* looks at the first only.
AddCallback(isPrepared, kinds, queries) ==
    /\ Client
    /\ Enqueue(isPrepared, queries)
    /\ LET new == [id |-> Len(steps) + 1, isPrepared |-> isPrepared, future |-> Len(op'),
                   kinds |-> kinds]
       IN  /\ aborted' = (of = "query" /\ kinds[1] # isPrepared)
           /\ callbacks' = Append(callbacks, new)
    /\ misused' = (misused \/ (of = "query" /\ \E i \in DOMAIN kinds : kinds[i] # isPrepared))
    /\ steps' = Append(steps, <<Len(op')>>) /\ ran' = Append(ran, <<>>)
    /\ UNCHANGED <<of, update, at, kept, inCallback, done, lost>>

\* A callback issues another query and makes its future that of this object; with
\* MoveFrom's ASSERT.
SetNextQuery(isPrepared) ==
    /\ Client /\ inCallback /\ of = "query" /\ update[at].future = 0
    /\ Enqueue(isPrepared, {})
    /\ aborted' = (isPrepared # update[at].isPrepared)
    /\ misused' = (misused \/ isPrepared # update[at].isPrepared \/ Len(update[at].kinds) = 1)
    /\ update' = [update EXCEPT ![at].future = Len(op')]
    /\ steps' = [steps EXCEPT ![update[at].id] = Append(@, Len(op'))]
    /\ UNCHANGED <<of, callbacks, at, kept, inCallback, ran, done, lost>>

------------------------------------------------------------------------------
(* AsyncCallbackProcessor::ProcessReadyCallbacks and InvokeIfReady.        *)

ProcessReadyCallbacks ==
    /\ Alive /\ at = 0 /\ callbacks # <<>>
    /\ update' = callbacks /\ callbacks' = <<>> /\ at' = 1 /\ kept' = <<>>
    /\ UNCHANGED <<of, op, prepared, holder, inCallback, aborted, misused, steps, ran, done, lost>>

\* future.valid() and wait_for(0) == ready
Ready == update[at].future # 0 /\ op[update[at].future] # "queued"

Polling == Alive /\ at # 0 /\ ~inCallback /\ at <= Len(update)

NotReady ==
    /\ Polling /\ ~Ready
    /\ kept' = Append(kept, update[at]) /\ at' = at + 1
    /\ UNCHANGED <<of, op, prepared, holder, callbacks, update, inCallback, aborted, misused,
                   steps, ran, done, lost>>

\* The callback is called; the future has been moved out of the object.  The one
\* of a holder is not asked for its value, so a broken promise passes for done.
Invoke ==
    /\ Polling /\ Ready
    /\ of = "holder" \/ op[update[at].future] = "set"
    /\ inCallback' = TRUE
    /\ ran' = [ran EXCEPT ![update[at].id] = Append(@, update[at].future)]
    /\ update' = [update EXCEPT ![at].future = 0]
    /\ UNCHANGED <<of, op, prepared, holder, callbacks, at, kept, aborted, misused, steps, done, lost>>

\* get() of a broken promise throws: updateCallbacks is destroyed with all that
\* has not completed.
GetThrows ==
    /\ Polling /\ Ready
    /\ of # "holder" /\ op[update[at].future] = "broken"
    /\ lost' = lost \cup {kept[i].id : i \in DOMAIN kept} \cup {update[i].id : i \in at..Len(update)}
    /\ update' = <<>> /\ at' = 0 /\ kept' = <<>>
    /\ UNCHANGED <<of, op, prepared, holder, callbacks, inCallback, aborted, misused, steps, ran, done>>

\* The callback has returned: checkStateAndReturnCompletion for queries.
CallbackReturns ==
    /\ Alive /\ inCallback /\ inCallback' = FALSE
    /\ LET c       == update[at]
           rest    == Tail(c.kinds)
           hasNext == c.future # 0
       IN  IF of # "query" \/ rest = <<>> \/ ~hasNext
           THEN /\ aborted' = (of = "query" /\ rest = <<>> /\ hasNext)
                /\ done' = done \cup {c.id} /\ UNCHANGED kept
           ELSE /\ aborted' = (c.isPrepared # rest[1])
                /\ kept' = Append(kept, [c EXCEPT !.kinds = rest]) /\ UNCHANGED done
    /\ at' = at + 1
    /\ UNCHANGED <<of, op, prepared, holder, callbacks, update, misused, steps, ran, lost>>

\* remove_if has returned: what was kept follows what callbacks added.
PassEnds ==
    /\ Alive /\ at > Len(update) /\ at # 0
    /\ callbacks' = callbacks \o kept
    /\ update' = <<>> /\ at' = 0 /\ kept' = <<>>
    /\ UNCHANGED <<of, op, prepared, holder, inCallback, aborted, misused, steps, ran, done, lost>>

Kinds == {k \in UNION {[1..n -> BOOLEAN] : n \in 1..MaxChain} : of = "query" \/ Len(k) = 1}

Next ==
    \/ \E p \in BOOLEAN, k \in Kinds, s \in SUBSET (1..HolderSize) :
          /\ of # "holder" => s = {}
          /\ of # "query" => p /\ k[1]
          /\ AddCallback(p, k, s)
    \/ \E p \in BOOLEAN : SetNextQuery(p)
    \/ \E q \in DOMAIN op : ExecuteInHolder(q) \/ SetValue(q) \/ Discard(q)
    \/ ProcessReadyCallbacks \/ NotReady \/ Invoke \/ GetThrows \/ CallbackReturns \/ PassEnds

------------------------------------------------------------------------------
(* Properties                                                              *)

IdsOf(s) == {s[i].id : i \in DOMAIN s}

\* Callbacks of a chain run one for each query given to the chain, in that order
\* and only when its result is there; a holder's callback sees all of the
\* results or, when the operation was deleted, none; no object is dropped
\* unless an exception passed; no ASSERT fails when the calls are proper.
CallbacksSound ==
    /\ \A c \in DOMAIN steps : ran[c] = SubSeq(steps[c], 1, Len(ran[c]))
    /\ \A c \in DOMAIN steps : \A i \in DOMAIN ran[c] :
          /\ op[ran[c][i]] # "queued"
          /\ op[ran[c][i]] = "set" => \A j \in DOMAIN holder[ran[c][i]] : holder[ran[c][i]][j] # "todo"
          /\ op[ran[c][i]] = "broken" =>
                \A j \in DOMAIN holder[ran[c][i]] : holder[ran[c][i]][j] \in {"none", "todo"}
    /\ LET present == IdsOf(callbacks) \cup IdsOf(kept)
                      \cup {update[i].id : i \in (IF at = 0 THEN {} ELSE at..Len(update))}
       IN  ~aborted => /\ present \cup done \cup lost = DOMAIN steps
                       /\ present \cap (done \cup lost) = {} /\ done \cap lost = {}
    /\ lost # {} => \E q \in DOMAIN op : op[q] = "broken"
    /\ \A c \in done : ran[c] = steps[c] \/ aborted
    /\ aborted => misused

==============================================================================
