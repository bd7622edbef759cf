------------------------------- MODULE MsgQueue -------------------------------
(***************************************************************************)
(* The message queue of free_queue/msgqueue.c: two linked lists, one that  *)
(* producers append to under put_mutex and one that consumers take from    *)
(* under get_mutex.  A consumer that finds its list empty keeps get_mutex, *)
(* waits until the other list has messages, and swaps the two.             *)
(*                                                                         *)
(* One action is what a thread does between two points where another may   *)
(* interfere: taking a mutex, evaluating a wait condition (nonblock is     *)
(* written without a lock), falling asleep (which gives put_mutex up), the *)
(* assignments of a critical section with its unlock, and a signal sent    *)
(* after the unlock.                                                       *)
(*                                                                         *)
(* Messages are the numbers 1..MaxMsgs in the order they are linked in.    *)
(***************************************************************************)
EXTENDS Integers, Sequences, FiniteSets

CONSTANTS
    Producers, Consumers,  \* threads that call msgqueue_put, msgqueue_get
    Controllers,           \* threads that call msgqueue_set_nonblock/_block
    MsgMax,                \* maxlen of msgqueue_create
    SizeMod,               \* the modulus of size_t
    MaxMsgs                \* bound: messages put in one behaviour

ASSUME MsgQueueAssumption ==
    /\ Producers \cap Consumers = {} /\ Producers \cap Controllers = {}
    /\ Consumers \cap Controllers = {} /\ IsFiniteSet(Producers)
    /\ MsgMax \in Nat \ {0} /\ MaxMsgs \in Nat
    /\ SizeMod \in Nat /\ SizeMod > MsgMax /\ SizeMod > MaxMsgs + 1

Threads == Producers \cup Consumers \cup Controllers
Heads == {1, 2}     \* &queue->head1 and &queue->head2

VARIABLES
    list,        \* the messages linked behind head1 and head2
    getHead,     \* queue->get_head
    putHead,     \* queue->put_head
    putTail,     \* queue->put_tail: so many links behind *put_head
    msgCnt,      \* queue->msg_cnt
    nonblock,    \* queue->nonblock
    putMutex, getMutex,   \* the holder of each mutex: at most one thread
    pc,          \* where each thread is
    oldHead,     \* consumer -> get_head of __msgqueue_swap
    linked,      \* history: how many messages have been linked in
    wasNonblock  \* history: msgqueue_set_nonblock has been called

listVars == <<list, getHead, putHead, putTail, msgCnt, linked>>
modeVars == <<nonblock, wasNonblock>>
vars == <<listVars, modeVars, putMutex, getMutex, pc, oldHead>>

Init ==
    /\ list = [h \in Heads |-> <<>>]
    /\ getHead = 1 /\ putHead = 2 /\ putTail = 0
    /\ msgCnt = 0
    /\ nonblock = FALSE /\ wasNonblock = FALSE
    /\ putMutex = {} /\ getMutex = {}
    /\ pc = [t \in Threads |-> "idle"]
    /\ oldHead = [c \in Consumers |-> 1]
    /\ linked = 0

------------------------------------------------------------------------------
(* Mutexes and condition variables.                                        *)

Goto(t, label) == pc' = [pc EXCEPT ![t] = label]

\* The threads asleep in put_cond and in get_cond.
PutSleepers == {p \in Producers : pc[p] = "putAsleep"}
GetSleepers == {c \in Consumers : pc[c] = "getAsleep"}

\* A woken thread first has to get put_mutex back.
Awake(t) == IF t \in Producers THEN "putLock" ELSE "swapLock"

\* t wakes the threads in S and goes to label.
Wake(S, t, label) ==
    pc' = [u \in Threads |-> IF u \in S THEN Awake(u)
                             ELSE IF u = t THEN label ELSE pc[u]]

\* Whom pthread_cond_signal(&queue->get_cond) wakes: one sleeper, if any.
Signalled == IF GetSleepers = {} THEN {{}} ELSE {{c} : c \in GetSleepers}

LockPut(t, from, to) ==
    /\ pc[t] = from
    /\ putMutex = {}
    /\ putMutex' = {t}
    /\ Goto(t, to)
    /\ UNCHANGED <<listVars, modeVars, getMutex, oldHead>>

\* The wait condition has been found true: sleep, releasing put_mutex.
CondWait(t, from, to) ==
    /\ pc[t] = from
    /\ putMutex' = {}
    /\ Goto(t, to)
    /\ UNCHANGED <<listVars, modeVars, getMutex, oldHead>>

SpuriousWake(t) ==
    /\ t \in PutSleepers \cup GetSleepers
    /\ Goto(t, Awake(t))
    /\ UNCHANGED <<listVars, modeVars, putMutex, getMutex, oldHead>>

------------------------------------------------------------------------------
(* msgqueue_put                                                            *)

\* queue->msg_max - 1 is unsigned.
Limit == (MsgMax - 1) % SizeMod

\* The bound on messages: those put and those being put.
MayPut ==
    linked + Cardinality({q \in Producers : pc[q] \notin {"idle", "putSignal"}}) < MaxMsgs

PutCall(p) ==
    /\ MayPut
    /\ LockPut(p, "idle", "putCheck")

PutLock(p) == LockPut(p, "putLock", "putCheck")

PutCheck(p) ==
    /\ pc[p] = "putCheck"
    /\ Goto(p, IF msgCnt > Limit /\ ~nonblock THEN "putWait" ELSE "putLink")
    /\ UNCHANGED <<listVars, modeVars, putMutex, getMutex, oldHead>>

PutWait(p) == CondWait(p, "putWait", "putAsleep")

PutLink(p) ==
    /\ pc[p] = "putLink"
    /\ list' = [list EXCEPT ![putHead] = SubSeq(@, 1, putTail) \o <<linked + 1>>]
    /\ putTail' = putTail + 1
    /\ msgCnt' = msgCnt + 1
    /\ linked' = linked + 1
    /\ putMutex' = {}
    /\ Goto(p, "putSignal")
    /\ UNCHANGED <<getHead, putHead, modeVars, getMutex, oldHead>>

PutSignal(p) ==
    /\ pc[p] = "putSignal"
    /\ \E S \in Signalled : Wake(S, p, "idle")
    /\ UNCHANGED <<listVars, modeVars, putMutex, getMutex, oldHead>>

------------------------------------------------------------------------------
(* msgqueue_get and __msgqueue_swap                                        *)

GetCall(c) ==
    /\ pc[c] = "idle"
    /\ getMutex = {}
    /\ getMutex' = {c}
    /\ Goto(c, "get")
    /\ UNCHANGED <<listVars, modeVars, putMutex, oldHead>>

\* *queue->get_head is not NULL, or the swap has returned a count above 0.
GetTake(c) ==
    /\ \/ pc[c] = "get" /\ list[getHead] # <<>>
       \/ pc[c] = "take"
    /\ list' = [list EXCEPT ![getHead] = Tail(@)]
    /\ getMutex' = {}
    /\ Goto(c, "idle")
    /\ UNCHANGED <<getHead, putHead, putTail, msgCnt, linked, modeVars, putMutex, oldHead>>

\* A swap although the get list still has messages.
SwapBeginEager(c) ==
    /\ pc[c] = "get"
    /\ oldHead' = [oldHead EXCEPT ![c] = getHead]
    /\ getHead' = putHead
    /\ Goto(c, "swapLock")
    /\ UNCHANGED <<list, putHead, putTail, msgCnt, linked, modeVars, putMutex, getMutex>>

\* The first two assignments of __msgqueue_swap, before put_mutex is taken.
SwapBegin(c) ==
    /\ pc[c] = "get" /\ list[getHead] = <<>>
    /\ oldHead' = [oldHead EXCEPT ![c] = getHead]
    /\ getHead' = putHead
    /\ Goto(c, "swapLock")
    /\ UNCHANGED <<list, putHead, putTail, msgCnt, linked, modeVars, putMutex, getMutex>>

SwapLock(c) == LockPut(c, "swapLock", "swapCheck")

SwapCheck(c) ==
    /\ pc[c] = "swapCheck"
    /\ Goto(c, IF msgCnt = 0 /\ ~nonblock THEN "swapWait" ELSE "swap")
    /\ UNCHANGED <<listVars, modeVars, putMutex, getMutex, oldHead>>

SwapWait(c) == CondWait(c, "swapWait", "getAsleep")

\* A swap that wakes the producers only when the list has overflowed.
SwapNoWake(c) ==
    /\ pc[c] = "swap"
    /\ Wake(IF msgCnt > MsgMax THEN PutSleepers ELSE {}, c,
            IF msgCnt > 0 THEN "take" ELSE "none")
    /\ putHead' = oldHead[c]
    /\ putTail' = 0
    /\ msgCnt' = 0
    /\ putMutex' = {}
    /\ UNCHANGED <<list, getHead, linked, modeVars, getMutex, oldHead>>

\* A swap that forgets that the counter belongs to the list given away.
SwapKeepsCount(c) ==
    /\ pc[c] = "swap"
    /\ Wake(PutSleepers, c,
            IF msgCnt > 0 THEN "take" ELSE "none")
    /\ putHead' = oldHead[c]
    /\ putTail' = 0
    /\ msgCnt' = msgCnt
    /\ putMutex' = {}
    /\ UNCHANGED <<list, getHead, linked, modeVars, getMutex, oldHead>>

Swap(c) ==
    /\ pc[c] = "swap"
    /\ Wake(IF msgCnt > Limit THEN PutSleepers ELSE {}, c,
            IF msgCnt > 0 THEN "take" ELSE "none")
    /\ putHead' = oldHead[c]
    /\ putTail' = 0
    /\ msgCnt' = 0
    /\ putMutex' = {}
    /\ UNCHANGED <<list, getHead, linked, modeVars, getMutex, oldHead>>

\* msgqueue_get returns NULL.
GetNull(c) ==
    /\ pc[c] = "none"
    /\ getMutex' = {}
    /\ Goto(c, "idle")
    /\ UNCHANGED <<listVars, modeVars, putMutex, oldHead>>

------------------------------------------------------------------------------
(* msgqueue_set_nonblock and msgqueue_set_block                            *)

SetNonblock(k) ==
    /\ pc[k] = "idle"
    /\ nonblock' = TRUE /\ wasNonblock' = TRUE
    /\ Goto(k, "ctlLock")
    /\ UNCHANGED <<listVars, putMutex, getMutex, oldHead>>

\* The wake-up sent without taking put_mutex.
SetNonblockUnlocked(k) ==
    /\ pc[k] = "ctlLock"
    /\ \E S \in Signalled : Wake(S \cup PutSleepers, k, "idle")
    /\ UNCHANGED <<listVars, modeVars, putMutex, getMutex, oldHead>>

\* With put_mutex held: signal get_cond, broadcast put_cond, unlock.
SetNonblockWake(k) ==
    /\ pc[k] = "ctlLock"
    /\ putMutex = {}
    /\ \E S \in Signalled : Wake(S \cup PutSleepers, k, "idle")
    /\ UNCHANGED <<listVars, modeVars, putMutex, getMutex, oldHead>>

SetBlock(k) ==
    /\ pc[k] = "idle"
    /\ nonblock' = FALSE
    /\ UNCHANGED <<listVars, wasNonblock, putMutex, getMutex, pc, oldHead>>

------------------------------------------------------------------------------
PutStep(p) == PutLock(p) \/ PutCheck(p) \/ PutWait(p) \/ PutLink(p) \/ PutSignal(p)

GetStep(c) ==
    \/ GetTake(c) \/ SwapBegin(c) \/ SwapLock(c) \/ SwapCheck(c)
    \/ SwapWait(c) \/ Swap(c) \/ GetNull(c)

Next ==
    \/ \E p \in Producers : PutCall(p) \/ PutStep(p) \/ SpuriousWake(p)
    \/ \E c \in Consumers : GetCall(c) \/ GetStep(c) \/ SpuriousWake(c)
    \/ \E k \in Controllers : SetNonblock(k) \/ SetNonblockWake(k) \/ SetBlock(k)

Spec == Init /\ [][Next]_vars

\* Threads inside a call run on and get a mutex that is free again and again,
\* and consumers call msgqueue_get for ever (main_msgqueue.cpp:35-46).
\* Nobody has to put, and no sleeper wakes by itself.
Fairness ==
    /\ \A p \in Producers : WF_vars(PutStep(p)) /\ SF_vars(PutLock(p))
    /\ \A c \in Consumers :
         WF_vars(GetStep(c)) /\ SF_vars(SwapLock(c)) /\ SF_vars(GetCall(c))
    /\ \A k \in Controllers : SF_vars(SetNonblockWake(k))

FairSpec == Spec /\ Fairness

------------------------------------------------------------------------------
(* Properties                                                              *)

ProducerPc == {"idle", "putLock", "putCheck", "putWait", "putAsleep", "putLink", "putSignal"}
ConsumerPc == {"idle", "get", "take", "none", "swapLock", "swapCheck", "swapWait",
               "getAsleep", "swap"}

\* msg_cnt stays a size_t, and every list, mutex holder and call position has
\* its type.
TypeOK ==
    /\ list \in [Heads -> Seq(Nat)]
    /\ getHead \in Heads /\ putHead \in Heads
    /\ putTail \in Nat /\ msgCnt \in Nat /\ linked \in Nat
    /\ nonblock \in BOOLEAN /\ wasNonblock \in BOOLEAN
    /\ putMutex \in SUBSET Threads /\ getMutex \in SUBSET Consumers
    /\ pc \in [Threads -> ProducerPc \cup ConsumerPc \cup {"ctlLock"}]
    /\ \A p \in Producers : pc[p] \in ProducerPc
    /\ \A c \in Consumers : pc[c] \in ConsumerPc
    /\ \A k \in Controllers : pc[k] \in {"idle", "ctlLock"}
    /\ oldHead \in [Consumers -> Heads]

\* The messages in the queue, oldest first: what consumers may take, then
\* what is being collected.  During a swap the two are the same list.
Pending ==
    IF getHead = putHead THEN list[getHead] ELSE list[getHead] \o list[putHead]

\* Besides the types: put_tail is the end of its list and msg_cnt its length,
\* although get_head, put_head and put_tail are reassigned under different
\* mutexes; a consumer that has swapped will find a message; and, as msgqueue.h:31
\* says ("The max pending messages may reach two times 'maxlen' when the queue is
\* in blocking mode"), never more than that are pending, wherever a swap is
\* overtaken by puts, in a queue that has not been nonblocking.
ListsConsistent ==
    /\ TypeOK
    /\ putTail = Len(list[putHead]) /\ msgCnt = putTail
    /\ \A c \in Consumers : pc[c] = "take" => list[getHead] # <<>>
    /\ ~wasNonblock => Len(Pending) <= 2 * MsgMax

\* Nobody sleeps on a condition that holds unless the thread that made it so
\* is still about to signal: put signals after its unlock, set_nonblock sets
\* the flag before its lock, and swap broadcasts only when the list was full.
NoStrandedSleeper ==
    LET waking == \E k \in Controllers : pc[k] = "ctlLock" IN
    /\ GetSleepers # {} =>
         /\ msgCnt = 0 \/ \E p \in Producers : pc[p] = "putSignal"
         /\ ~nonblock \/ waking
    /\ PutSleepers # {} => msgCnt > Limit /\ (~nonblock \/ waking)

\* The queue implements a first-in first-out queue across the swaps.
Fifo == INSTANCE BoundedFifo WITH items <- Pending, put <- linked, Capacity <- MaxMsgs
ImplementsFifo == Fifo!Spec

\* While consumers keep getting, every put returns: no producer sleeps for
\* ever in put_cond.
PutsReturn == \A p \in Producers : pc[p] # "idle" ~> pc[p] = "idle"

\* Once the queue stays in nonblocking mode, every get returns, also those
\* that were asleep when the flag was set.
NonblockReleases ==
    <>[]nonblock => \A c \in Consumers : pc[c] # "idle" ~> pc[c] = "idle"

==============================================================================
