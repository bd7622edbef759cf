----------------------------- MODULE BoundedFifo -----------------------------
(***************************************************************************)
(* What a bounded queue promises: objects, numbered in the order they are  *)
(* put in, leave it in that order, each once, some at a time, and there    *)
(* are never more than Capacity of them inside.                            *)
(***************************************************************************)
EXTENDS Naturals, Sequences

CONSTANT Capacity

VARIABLES
    items,   \* what is in the queue, oldest first
    put      \* how many objects have been put in

Init ==
    /\ items = <<>>
    /\ put = 0

Put(k) ==
    /\ Len(items) + k <= Capacity
    /\ items' = items \o [i \in 1..k |-> put + i]
    /\ put' = put + k

Take(k) ==
    /\ items' = SubSeq(items, k + 1, Len(items))
    /\ UNCHANGED put

Next ==
    \/ \E k \in 1..Capacity : Put(k)
    \/ \E k \in 1..Len(items) : Take(k)

Spec == Init /\ [][Next]_<<items, put>>

==============================================================================
