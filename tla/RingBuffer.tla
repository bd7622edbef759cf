------------------------------ MODULE RingBuffer ------------------------------
(***************************************************************************)
(* RingBuffer of free_queue/ringbuffer.h: one producer, one consumer, two  *)
(* indexes that each side stores with release and the other loads with     *)
(* acquire, so that program order is kept.  A slot is raw memory or holds  *)
(* a constructed object, here its number.  Either side may call Size.      *)
(***************************************************************************)
EXTENDS Integers, Sequences

CONSTANTS
    Capacity,   \* a power of two
    MaxPushed   \* bound: objects pushed in one behaviour

Raw == 0
Slots == 0..(Capacity - 1)
Sides == {"producer", "consumer"}

VARIABLES
    read, write,     \* read_, write_
    buffer,          \* slot -> Raw or the object in it
    pc,              \* side -> "idle", "access", "store", "size"; the consumer's is "gone"
                     \* after the destructor
    sizeR,           \* side -> the r that Size has loaded
    pushed, popped,  \* history: objects pushed, and those popped
    canPop, canPush  \* history: how far the sides were told by Size that they can go

history == <<pushed, popped, canPop, canPush>>
vars == <<read, write, buffer, pc, sizeR, history>>

Masked(i) == i % Capacity
Goto(s, place) == pc' = [pc EXCEPT ![s] = place]

Init ==
    /\ read = 0 /\ write = 0
    /\ buffer = [s \in Slots |-> Raw]
    /\ pc = [s \in Sides |-> "idle"] /\ sizeR = [s \in Sides |-> 0]
    /\ pushed = 0 /\ popped = <<>> /\ canPop = 0 /\ canPush = 0

\* Push: one slot stays unused, which tells full from empty.
PushTest ==
    /\ pc["producer"] = "idle" /\ pc["consumer"] # "gone" /\ pushed < MaxPushed
    /\ Goto("producer", IF Masked(write + 1) = read THEN "idle" ELSE "access")
    /\ UNCHANGED <<read, write, buffer, sizeR, history>>

Construct ==
    /\ pc["producer"] = "access"
    /\ buffer' = [buffer EXCEPT ![write] = pushed + 1]
    /\ Goto("producer", "store")
    /\ UNCHANGED <<read, write, sizeR, history>>

PushStore ==
    /\ pc["producer"] = "store"
    /\ write' = Masked(write + 1)
    /\ pushed' = pushed + 1
    /\ Goto("producer", "idle")
    /\ UNCHANGED <<read, buffer, sizeR, popped, canPop, canPush>>

PopTest ==
    /\ pc["consumer"] = "idle"
    /\ Goto("consumer", IF read = write THEN "idle" ELSE "access")
    /\ UNCHANGED <<read, write, buffer, sizeR, history>>

\* The object is moved out and destructed.
MoveOut ==
    /\ pc["consumer"] = "access"
    /\ popped' = Append(popped, buffer[read])
    /\ buffer' = [buffer EXCEPT ![read] = Raw]
    /\ Goto("consumer", "store")
    /\ UNCHANGED <<read, write, sizeR, pushed, canPop, canPush>>

PopStore ==
    /\ pc["consumer"] = "store"
    /\ read' = Masked(read + 1)
    /\ Goto("consumer", "idle")
    /\ UNCHANGED <<write, buffer, sizeR, history>>

SizeLoad(s) ==
    /\ pc[s] = "idle" /\ pc["consumer"] # "gone"
    /\ sizeR' = [sizeR EXCEPT ![s] = read]
    /\ Goto(s, "size")
    /\ UNCHANGED <<read, write, buffer, history>>

SizeReturn(s) ==
    LET size == IF write >= sizeR[s] THEN write - sizeR[s] ELSE Capacity - sizeR[s] + write
    IN  /\ pc[s] = "size"
        /\ canPop' = IF s = "consumer" THEN Len(popped) + size ELSE canPop
        /\ canPush' = IF s = "producer" THEN pushed + Capacity - 1 - size ELSE canPush
        /\ Goto(s, "idle")
        /\ UNCHANGED <<read, write, buffer, sizeR, pushed, popped>>

\* The destructor destructs the objects from read_ to write_.
Destroy ==
    /\ \A s \in Sides : pc[s] = "idle"
    /\ buffer' = [s \in Slots |-> IF Masked(s - read) < Masked(write - read) THEN Raw ELSE buffer[s]]
    /\ Goto("consumer", "gone")
    /\ UNCHANGED <<read, write, sizeR, history>>

Next ==
    \/ PushTest \/ Construct \/ PushStore
    \/ PopTest \/ MoveOut \/ PopStore
    \/ \E s \in Sides : SizeLoad(s) \/ SizeReturn(s)
    \/ Destroy

------------------------------------------------------------------------------
(* Properties                                                              *)

\* Objects come out in order, each once (as main_spscqueue.cpp:44 asserts); an
\* object is constructed only in raw memory and destructed exactly once, by
\* the consumer or by the destructor.
ObjectsInOrder ==
    /\ \A i \in DOMAIN popped : popped[i] = i
    /\ pc["producer"] = "access" => buffer[write] = Raw
    /\ \A s \in Slots : buffer[s] # Raw => buffer[s] > Len(popped)
    /\ pc["consumer"] = "gone" => \A s \in Slots : buffer[s] = Raw

\* Size loads two indexes one after the other.  To the side that calls it the
\* result is safe, stale as it may be: the consumer can pop as many objects as
\* it was told there are, the producer can push as many as it was told fit.
SizeIsSafe ==
    /\ canPop <= pushed
    /\ canPush <= Len(popped) + Capacity - 1

==============================================================================
