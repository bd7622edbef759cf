------------------------------- MODULE Queues --------------------------------
(***************************************************************************)
(* The smaller queues of free_queue, which share no state: MpscQueue,      *)
(* RingBuffer, BlockingQueuePro and LockedQueue.  A behaviour uses one of  *)
(* them, queueKind; the variables of the others keep their values.         *)
(***************************************************************************)
EXTENDS Integers, Sequences, FiniteSets

CONSTANTS
    MpscProducers, Nodes, MaxEnqueued,   \* of MpscQueue
    Capacity, MaxPushed,                 \* of RingBuffer; MaxPushed also of BlockingQueuePro
    ProConsumers, MaxAdded               \* of BlockingQueuePro, of LockedQueue

ASSUME QueuesAssumption ==
    /\ {0, -1} \cap Nodes = {} /\ 0 \notin MpscProducers
    /\ Capacity \in Nat \ {0} /\ MaxPushed \in Nat

VARIABLES
    queueKind,   \* the queue that is used
    \* MpscQueue
    intrusive, mpscHead, tail, next, data, alive, mpscPc, node, prevHead, cTail, cNext,
    destroying, order, enqueued, dequeued,
    \* RingBuffer, BlockingQueuePro, LockedQueue
    read, write, buffer, spscPc, sizeR, spscPushed, spscPopped, canPop, canPush,
    prodQueue, consQueue, nonblock, consMutex, proPc, proPushed, proPopped,
    queue, canceled, lockedPc, front, taken, handled, added

mpscVars == <<intrusive, mpscHead, tail, next, data, alive, mpscPc, node, prevHead, cTail, cNext,
              destroying, order, enqueued, dequeued>>
spscVars == <<read, write, buffer, spscPc, sizeR, spscPushed, spscPopped, canPop, canPush>>
proVars == <<prodQueue, consQueue, nonblock, consMutex, proPc, proPushed, proPopped>>
lockedVars == <<queue, canceled, lockedPc, front, taken, handled, added>>
queuesVars == <<queueKind, mpscVars, spscVars, proVars, lockedVars>>

Mpsc == INSTANCE MpscQueue WITH pc <- mpscPc, head <- mpscHead, Producers <- MpscProducers
Spsc == INSTANCE RingBuffer WITH pc <- spscPc, pushed <- spscPushed, popped <- spscPopped
Pro == INSTANCE BlockingQueuePro
         WITH pc <- proPc, Consumers <- ProConsumers, pushed <- proPushed, popped <- proPopped
Locked == INSTANCE LockedQueue WITH pc <- lockedPc

QueueKinds == {"mpsc", "spsc", "pro", "locked"}

QueuesInit == Mpsc!Init /\ Spsc!Init /\ Pro!Init /\ Locked!Init

QueuesNext ==
    /\ UNCHANGED queueKind
    /\ \/ queueKind = "mpsc" /\ Mpsc!Next /\ UNCHANGED <<spscVars, proVars, lockedVars>>
       \/ queueKind = "spsc" /\ Spsc!Next /\ UNCHANGED <<mpscVars, proVars, lockedVars>>
       \/ queueKind = "pro" /\ Pro!Next /\ UNCHANGED <<mpscVars, spscVars, lockedVars>>
       \/ queueKind = "locked" /\ Locked!Next /\ UNCHANGED <<mpscVars, spscVars, proVars>>

QueuesSpec == queueKind \in QueueKinds /\ QueuesInit /\ [][QueuesNext]_queuesVars

------------------------------------------------------------------------------
(* Properties                                                              *)

\* The smaller queues lose nothing and keep the order: MPSCQueue that of the
\* exchanges of head_, RingBuffer and BlockingQueuePro that of the pushes, and
\* LockedQueue that of the items for the one thread that takes them; what is left
\* is destructed once.  Nobody follows or sets a link in a node of MPSCQueue that
\* is gone, what Size of RingBuffer tells a side is safe to rely on for that side,
\* and the consumer of BlockingQueuePro that sleeps has no reason to be awake.
SmallQueuesSound ==
    /\ queueKind = "mpsc" => Mpsc!MessagesInOrder /\ Mpsc!NothingDangles
    /\ queueKind = "spsc" => Spsc!ObjectsInOrder /\ Spsc!SizeIsSafe
    /\ queueKind = "pro" => Pro!ValuesInOrder /\ Pro!SleeperHasNoReason
    /\ queueKind = "locked" => Locked!ItemsInOrder
==============================================================================
