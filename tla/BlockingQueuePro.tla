--------------------------- MODULE BlockingQueuePro ---------------------------
(***************************************************************************)
(* BlockingQueuePro of threadpool/blockingqueue.h (and of mysqlconnpool):  *)
(* producers fill one queue under prod_mutex_, consumers empty another     *)
(* under cons_mutex_, and a consumer that finds its own empty exchanges    *)
(* the two, holding cons_mutex_ while it waits for the producers.          *)
(* Push and Cancel are one critical section each.                          *)
(***************************************************************************)
EXTENDS Integers, Sequences

CONSTANTS
    Consumers,
    MaxPushed   \* bound: values pushed in one behaviour

VARIABLES
    prodQueue, consQueue, nonblock,
    consMutex,  \* the consumer that holds cons_mutex_, as a set
    pc,         \* consumer -> "idle", "locked" (holds cons_mutex_), "asleep" on not_empty_,
                \* "woken", "swapped"
    pushed,     \* history: how many values were pushed
    popped      \* history: the values popped, in the order of Pop's critical sections
vars == <<prodQueue, consQueue, nonblock, consMutex, pc, pushed, popped>>

Init ==
    /\ prodQueue = <<>> /\ consQueue = <<>>
    /\ nonblock \in BOOLEAN
    /\ consMutex = {} /\ pc = [c \in Consumers |-> "idle"]
    /\ pushed = 0 /\ popped = <<>>

\* At most one consumer can be asleep: it holds cons_mutex_.
Wake == pc' = [c \in Consumers |-> IF pc[c] = "asleep" THEN "woken" ELSE pc[c]]

Push ==
    /\ pushed < MaxPushed
    /\ pushed' = pushed + 1
    /\ prodQueue' = Append(prodQueue, pushed + 1)
    /\ Wake
    /\ UNCHANGED <<consQueue, nonblock, consMutex, popped>>

Cancel ==
    /\ nonblock' = TRUE
    /\ Wake
    /\ UNCHANGED <<prodQueue, consQueue, consMutex, pushed, popped>>

PopLock(c) ==
    /\ pc[c] = "idle" /\ consMutex = {}
    /\ consMutex' = {c}
    /\ pc' = [pc EXCEPT ![c] = IF consQueue = <<>> THEN "locked" ELSE "swapped"]
    /\ UNCHANGED <<prodQueue, consQueue, nonblock, pushed, popped>>

\* SwapQueue_, under prod_mutex_: the wait and the exchange.
SwapQueue_(c) ==
    /\ pc[c] \in {"locked", "woken"}
    /\ IF prodQueue = <<>> /\ ~nonblock
       THEN pc' = [pc EXCEPT ![c] = "asleep"] /\ UNCHANGED <<prodQueue, consQueue>>
       ELSE /\ pc' = [pc EXCEPT ![c] = "swapped"]
            /\ prodQueue' = consQueue /\ consQueue' = prodQueue
    /\ UNCHANGED <<nonblock, consMutex, pushed, popped>>

SpuriousWake(c) ==
    /\ pc[c] = "asleep"
    /\ pc' = [pc EXCEPT ![c] = "woken"]
    /\ UNCHANGED <<prodQueue, consQueue, nonblock, consMutex, pushed, popped>>

\* The end of Pop, with a value or with false.
PopReturn(c) ==
    /\ pc[c] = "swapped"
    /\ IF consQueue = <<>> THEN UNCHANGED <<consQueue, popped>>
       ELSE popped' = Append(popped, Head(consQueue)) /\ consQueue' = Tail(consQueue)
    /\ consMutex' = {} /\ pc' = [pc EXCEPT ![c] = "idle"]
    /\ UNCHANGED <<prodQueue, nonblock, pushed>>

Pop(c) == PopLock(c) \/ SwapQueue_(c) \/ SpuriousWake(c) \/ PopReturn(c)

Next == Push \/ Cancel \/ \E c \in Consumers : Pop(c)

------------------------------------------------------------------------------
(* Properties                                                              *)

\* Whatever the exchanges, the values popped, those in the consumers' queue and
\* those in the producers' are what was pushed, in that order.
ValuesInOrder == popped \o consQueue \o prodQueue = [i \in 1..pushed |-> i]

\* The consumer that sleeps, holding the lock all others wait for, has nothing
\* to wake up for: neither a value nor a cancellation passed it by.
SleeperHasNoReason ==
    \A c \in Consumers : pc[c] = "asleep" => prodQueue = <<>> /\ consQueue = <<>> /\ ~nonblock

==============================================================================
