----------------------------- MODULE LockedQueue -----------------------------
(***************************************************************************)
(* LockedQueue of free_queue.  Each operation is one critical section,     *)
(* except peek: it returns a reference to the front and, unless it is told *)
(* to unlock, leaves the lock to the caller.  Any thread adds and cancels; *)
(* one thread takes items: by next, putting back with readd those it could *)
(* not handle, or by peek and then pop_front.                              *)
(***************************************************************************)
EXTENDS Integers, Sequences

CONSTANT
    MaxAdded    \* bound: items added in one behaviour

VARIABLES
    queue,      \* _queue
    canceled,   \* _canceled
    pc,         \* of the consumer: "idle", "locked" (peek has left it the lock), "peeked"
    front,      \* the item peek referred it to
    taken,      \* items it took by next and has not handled yet, in order
    handled,    \* history: items it handled
    added       \* history: number of items added
vars == <<queue, canceled, pc, front, taken, handled, added>>

Init ==
    /\ queue = <<>> /\ canceled = FALSE /\ pc = "idle" /\ front = 0
    /\ taken = <<>> /\ handled = <<>> /\ added = 0

Unlocked == pc # "locked"

add ==
    /\ Unlocked /\ added < MaxAdded
    /\ added' = added + 1
    /\ queue' = Append(queue, added + 1)
    /\ UNCHANGED <<canceled, pc, front, taken, handled>>

cancel ==
    /\ Unlocked
    /\ canceled' = TRUE
    /\ UNCHANGED <<queue, pc, front, taken, handled, added>>

\* next, with or without a checker: it fails on an empty queue, and an item that
\* does not pass the check stays.
next ==
    /\ pc = "idle"
    /\ \/ /\ queue # <<>>
          /\ taken' = Append(taken, Head(queue))
          /\ queue' = Tail(queue)
       \/ UNCHANGED <<queue, taken>>
    /\ UNCHANGED <<canceled, pc, front, handled, added>>

\* The consumer handles the oldest item it took.
Handle ==
    /\ pc = "idle" /\ taken # <<>>
    /\ handled' = Append(handled, Head(taken))
    /\ taken' = Tail(taken)
    /\ UNCHANGED <<queue, canceled, pc, front, added>>

readd ==
    /\ pc = "idle" /\ taken # <<>>
    /\ queue' = taken \o queue
    /\ taken' = <<>>
    /\ UNCHANGED <<canceled, pc, front, handled, added>>

\* peek(autoUnlock), of a queue that empty() has found not empty.
peek(autoUnlock) ==
    /\ pc = "idle" /\ taken = <<>> /\ queue # <<>>
    /\ front' = Head(queue)
    /\ pc' = IF autoUnlock THEN "peeked" ELSE "locked"
    /\ UNCHANGED <<queue, canceled, taken, handled, added>>

unlock ==
    /\ pc = "locked"
    /\ pc' = "peeked"
    /\ UNCHANGED <<queue, canceled, front, taken, handled, added>>

\* The item that was peeked at has been handled, or is left where it is.
pop_front ==
    /\ pc = "peeked"
    /\ \/ handled' = Append(handled, front) /\ queue' = Tail(queue)
       \/ UNCHANGED <<handled, queue>>
    /\ pc' = "idle" /\ front' = 0
    /\ UNCHANGED <<canceled, taken, added>>

Next ==
    \/ add \/ cancel \/ next \/ Handle \/ readd
    \/ \E autoUnlock \in BOOLEAN : peek(autoUnlock)
    \/ unlock \/ pop_front

------------------------------------------------------------------------------
(* Properties                                                              *)

\* To the one thread that takes items, what it has handled, what it holds and
\* what is queued is what was added, in order, whether it puts items back or
\* pops an item after it has given up the lock under which it saw it.
ItemsInOrder == handled \o taken \o queue = [i \in 1..added |-> i]

==============================================================================
