------------------------------ MODULE MpscQueue ------------------------------
(***************************************************************************)
(* MPSCQueue of free_queue, in its two forms.  Both are a linked list that *)
(* producers extend at _head by an exchange, and that the one consumer     *)
(* shortens at _tail; between a producer's exchange and its store of the   *)
(* link the list is cut.                                                   *)
(*                                                                         *)
(* The non-intrusive form allocates a node for each message, and the node  *)
(* at _tail is a used one: the consumer takes the message of the node      *)
(* behind it and deletes the node.  The intrusive form links the messages  *)
(* themselves and keeps the list from becoming empty with a dummy, which   *)
(* the consumer enqueues again when it takes the last message.             *)
(*                                                                         *)
(* One action is one access to an atomic that another thread may write.    *)
(* Each access to a link is ordered by release and acquire, each exchange  *)
(* by both, so that what a thread finds behind a pointer is what its       *)
(* writer put there: program order is kept.                                *)
(***************************************************************************)
EXTENDS Integers, Sequences, FiniteSets

CONSTANTS
    Producers,
    Nodes,        \* memory: nodes or, in the intrusive form, messages
    MaxEnqueued   \* bound: messages enqueued in one behaviour

Null == 0
Dummy == -1       \* _dummyPtr; in the other form the first node
Consumer == 0     \* the consumer, when it enqueues the dummy
Enqueuers == Producers \cup {Consumer}

VARIABLES
    intrusive,    \* which of the two forms the queue is
    head, tail,   \* _head, _tail
    next,         \* node -> Next, or the IntrusiveLink
    data,         \* node -> the number of the message in it
    alive,        \* nodes that are allocated, or messages not yet returned
    pc,           \* producer -> "idle", "exchange", "link"
                  \* consumer -> "idle", "exchange", "link", and the places of Dequeue:
                  \*   "storeTail"; "skipDummy", "behind", "reload"; "delete" and "gone"
                  \*   at the end of the destructor
    node,         \* the node or message an Enqueue is about
    prevHead,     \* its local
    cTail, cNext, \* locals of Dequeue
    destroying,   \* the destructor is running
    order,        \* history: the nodes from _tail to _head, in the order of the exchanges
    enqueued,     \* history: messages exchanged in, in that order
    dequeued      \* history: messages returned

list == <<intrusive, head, next, data>>
vars == <<list, tail, alive, pc, node, prevHead, cTail, cNext, destroying, order, enqueued, dequeued>>

Init ==
    /\ intrusive \in BOOLEAN
    /\ head = Dummy /\ tail = Dummy
    /\ next = [m \in Nodes \cup {Dummy} |-> Null]
    /\ data = [m \in Nodes \cup {Dummy} |-> 0]
    /\ alive = {Dummy}
    /\ pc = [t \in Enqueuers |-> "idle"]
    /\ node = [t \in Enqueuers |-> Null] /\ prevHead = [t \in Enqueuers |-> Null]
    /\ cTail = Null /\ cNext = Null /\ destroying = FALSE
    /\ order = <<Dummy>> /\ enqueued = 0 /\ dequeued = <<>>

------------------------------------------------------------------------------
(* Enqueue.                                                                *)

\* A new node, or a message of the caller's, whose memory may be one that was
\* used before; its link is null.
Begin(p, m) ==
    /\ pc[p] = "idle" /\ ~destroying /\ m \notin alive
    /\ enqueued + Cardinality({q \in Producers : pc[q] = "exchange"}) < MaxEnqueued
    /\ alive' = alive \cup {m}
    /\ next' = [next EXCEPT ![m] = Null]
    /\ node' = [node EXCEPT ![p] = m]
    /\ pc' = [pc EXCEPT ![p] = "exchange"]
    /\ UNCHANGED <<intrusive, head, tail, data, prevHead, cTail, cNext, destroying,
                   order, enqueued, dequeued>>

Exchange(t) ==
    /\ pc[t] = "exchange"
    /\ prevHead' = [prevHead EXCEPT ![t] = head]
    /\ head' = node[t]
    /\ order' = Append(order, node[t])
    /\ IF t = Consumer THEN UNCHANGED <<enqueued, data>>
       ELSE /\ enqueued' = enqueued + 1
            /\ data' = [data EXCEPT ![node[t]] = enqueued + 1]
    /\ pc' = [pc EXCEPT ![t] = "link"]
    /\ UNCHANGED <<intrusive, next, tail, alive, node, cTail, cNext, destroying, dequeued>>

\* The consumer goes on with its Dequeue.
Link(t) ==
    /\ pc[t] = "link"
    /\ next' = [next EXCEPT ![prevHead[t]] = node[t]]
    /\ pc' = [pc EXCEPT ![t] = IF t = Consumer THEN "reload" ELSE "idle"]
    /\ UNCHANGED <<intrusive, head, data, tail, alive, node, prevHead, cTail, cNext, destroying,
                   order, enqueued, dequeued>>

------------------------------------------------------------------------------
(* Dequeue.                                                                *)

Goto(place) == pc' = [pc EXCEPT ![Consumer] = place]

\* The loads of _tail and of the link behind it: the queue may seem empty.
LoadNext ==
    /\ pc[Consumer] = "idle"
    /\ cTail' = tail /\ cNext' = next[tail]
    /\ Goto(CASE ~intrusive /\ next[tail] = Null           -> IF destroying THEN "delete" ELSE "idle"
              [] ~intrusive /\ next[tail] # Null           -> "storeTail"
              [] intrusive /\ tail # Dummy                 -> "behind"
              [] intrusive /\ tail = Dummy /\ next[tail] # Null -> "skipDummy"
              [] intrusive /\ tail = Dummy /\ next[tail] = Null -> IF destroying THEN "gone" ELSE "idle")
    /\ UNCHANGED <<list, tail, alive, node, prevHead, destroying, order, enqueued, dequeued>>

\* Non-intrusive: the message of the next node is the result, and the used
\* node is deleted.
StoreTail ==
    /\ pc[Consumer] = "storeTail"
    /\ dequeued' = Append(dequeued, data[cNext])
    /\ tail' = cNext /\ order' = Tail(order)
    /\ alive' = alive \ {cTail}
    /\ Goto("idle")
    /\ UNCHANGED <<list, node, prevHead, cTail, cNext, destroying, enqueued>>

\* Intrusive: the dummy is at the tail and not a message.
SkipDummy ==
    /\ pc[Consumer] = "skipDummy"
    /\ tail' = cNext /\ order' = Tail(order) /\ cTail' = cNext
    /\ cNext' = next[cNext]
    /\ Goto("behind")
    /\ UNCHANGED <<list, alive, node, prevHead, destroying, enqueued, dequeued>>

\* A message with another one behind it is returned: the caller owns it.
Return ==
    /\ tail' = cNext /\ order' = Tail(order)
    /\ dequeued' = Append(dequeued, data[cTail])
    /\ alive' = alive \ {cTail}
    /\ Goto("idle")
    /\ UNCHANGED <<list, node, prevHead, cTail, cNext, destroying, enqueued>>

\* The last one is returned without the dummy behind it.
BehindAtOnce ==
    /\ pc[Consumer] = "behind"
    /\ cNext # Null \/ cTail = head
    /\ tail' = IF cNext # Null THEN cNext ELSE Dummy
    /\ order' = IF cNext # Null THEN Tail(order) ELSE <<Dummy>>
    /\ dequeued' = Append(dequeued, data[cTail])
    /\ alive' = alive \ {cTail}
    /\ Goto("idle")
    /\ UNCHANGED <<list, node, prevHead, cTail, cNext, destroying, enqueued>>

Behind ==
    \/ pc[Consumer] = "behind" /\ cNext # Null /\ Return
    \/ /\ pc[Consumer] = "behind" /\ cNext = Null
       /\ IF cTail # head
          THEN Goto("idle") /\ UNCHANGED <<next, node>>
          ELSE /\ Goto("exchange")
               /\ next' = [next EXCEPT ![Dummy] = Null]
               /\ node' = [node EXCEPT ![Consumer] = Dummy]
       /\ UNCHANGED <<intrusive, head, data, tail, alive, prevHead, cTail, cNext, destroying,
                      order, enqueued, dequeued>>

\* After the dummy was enqueued.
Reload ==
    \/ /\ pc[Consumer] = "reload" /\ next[cTail] # Null
       /\ cNext' = next[cTail]
       /\ tail' = next[cTail] /\ order' = Tail(order)
       /\ dequeued' = Append(dequeued, data[cTail])
       /\ alive' = alive \ {cTail}
       /\ Goto("idle")
       /\ UNCHANGED <<list, node, prevHead, cTail, destroying, enqueued>>
    \/ /\ pc[Consumer] = "reload" /\ next[cTail] = Null
       /\ Goto("idle")
       /\ UNCHANGED <<list, tail, alive, node, prevHead, cTail, cNext, destroying, order, enqueued, dequeued>>

------------------------------------------------------------------------------
(* The destructor, when no Enqueue or Dequeue is under way: it dequeues     *)
(* until that fails, and the non-intrusive one deletes the last node.      *)

Destroy ==
    /\ ~destroying /\ \A t \in Enqueuers : pc[t] = "idle"
    /\ destroying' = TRUE
    /\ UNCHANGED <<list, tail, alive, pc, node, prevHead, cTail, cNext, order, enqueued, dequeued>>

DeleteFront ==
    /\ pc[Consumer] = "delete"
    /\ alive' = alive \ {head}
    /\ Goto("gone")
    /\ UNCHANGED <<list, tail, node, prevHead, cTail, cNext, destroying, order, enqueued, dequeued>>

Dequeue == LoadNext \/ StoreTail \/ SkipDummy \/ Behind \/ Reload \/ DeleteFront

Next ==
    \/ \E p \in Producers : \E m \in Nodes : Begin(p, m)
    \/ \E t \in Enqueuers : Exchange(t) \/ Link(t)
    \/ Dequeue \/ Destroy

------------------------------------------------------------------------------
(* Properties                                                              *)

\* Where the list from _tail to _head holds a message: the dummy is none, and in
\* the non-intrusive form the node at _tail is a used one.
MessageAt(i) == order[i] # Dummy /\ (intrusive \/ i # 1)
Waiting == {i \in DOMAIN order : MessageAt(i)}

\* Following the links from _tail one comes through all the nodes to _head.
Linked ==
    /\ tail = order[1] /\ head = order[Len(order)] /\ next[head] = Null
    /\ \A i \in 1..(Len(order) - 1) : next[order[i]] = order[i + 1]

\* Messages come out in the order in which producers exchanged them in, each
\* once.  The list holds the others, in that order, and is whole when no call is
\* under way, although it is cut in between.  The destructor leaves no message
\* and no node behind.
MessagesInOrder ==
    /\ dequeued = [i \in 1..Len(dequeued) |-> i]
    /\ {data[order[i]] : i \in Waiting} = (Len(dequeued) + 1)..enqueued
    /\ \A i, j \in Waiting : i < j => data[order[i]] < data[order[j]]
    /\ (\A t \in Enqueuers : pc[t] = "idle") => Linked
    /\ pc[Consumer] = "gone" =>
         Len(dequeued) = enqueued /\ alive \subseteq (IF intrusive THEN {Dummy} ELSE {})

\* A thread that is about to follow or to set a link does so in a node that
\* exists: the consumer deletes, or gives to the caller, only what no producer
\* will touch any more.
NothingDangles ==
    /\ \A t \in Enqueuers : pc[t] = "link" => prevHead[t] \in alive
    /\ pc[Consumer] \notin {"delete", "gone"} => {head, tail} \subseteq alive
    /\ pc[Consumer] \in {"storeTail", "skipDummy"} => {cTail, cNext} \subseteq alive
    /\ pc[Consumer] \in {"behind", "exchange", "link", "reload"} => cTail \in alive

==============================================================================
