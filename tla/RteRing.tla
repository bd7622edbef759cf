------------------------------- MODULE RteRing -------------------------------
(***************************************************************************)
(* The ring of free_queue/rte_ring: a table of Size pointers with a head   *)
(* and a tail index for the producers and another pair for the consumers.  *)
(* Indexes are unsigned integers modulo IndexMod (2^32 in the code) that   *)
(* run freely and are masked only to address the table.                    *)
(*                                                                         *)
(* One action is one access to the shared structure: reading prod.head,    *)
(* reading cons.tail, the compare-and-set, each pointer copied, and the    *)
(* store to the tail that ends the wait for earlier calls.  The fields are *)
(* volatile and the copies are fenced by COMPILER_BARRIER, and x86 neither *)
(* reorders stores with stores nor loads with loads, so program order is   *)
(* kept.                                                                   *)
(*                                                                         *)
(* Objects are opaque pointers: the object whose producer claimed the k-th *)
(* position of the ring's whole life is the number k.  The variables gPH,  *)
(* gPT, gCH, gCT and pos count positions without wrapping; no guard of the *)
(* code's control reads them.                                              *)
(***************************************************************************)
EXTENDS Integers, Sequences, FiniteSets, TLC

CONSTANTS
    Producers, Consumers,   \* threads
    Size,                   \* r->prod.size, a power of two
    IndexMod,               \* the modulus of the indexes
    Burst,                  \* the values of n the callers pass
    SpEnqueue, ScDequeue,   \* r->prod.sp_enqueue, r->cons.sc_dequeue
    Watermarks,             \* arguments of rte_ring_set_water_mark
    MaxObjs                 \* bound: objects enqueued in one behaviour

ASSUME RteRingAssumption ==
    /\ Producers \cap Consumers = {}
    /\ Size \in Nat \ {0}
    /\ IndexMod \in Nat /\ IndexMod > Size /\ IndexMod % Size = 0
    /\ Burst \subseteq Nat \ {0}
    /\ SpEnqueue \in BOOLEAN /\ ScDequeue \in BOOLEAN
    /\ SpEnqueue => \A p, q \in Producers : p = q
    /\ ScDequeue => \A c, d \in Consumers : c = d
    /\ Watermarks \subseteq Nat
    /\ MaxObjs \in Nat

Threads == Producers \cup Consumers
mask == Size - 1

\* Producers are alike (for model checking).
Symmetry == Permutations(Producers)

VARIABLES
    prodHead, prodTail, consHead, consTail,   \* the indexes, modulo IndexMod
    watermark,                                \* r->prod.watermark
    ring,                                     \* r->ring, 0: never written
    \* locals of the call a thread is in
    pc,       \* "idle", "loop", "readTail", "cas", "copy", "wait"
    fixed,    \* behavior = RTE_RING_QUEUE_FIXED
    max,      \* the n of the caller
    head,     \* prod_head or cons_head
    avail,    \* free_entries or entries
    n,        \* the objects this call moves
    copied,   \* i of ENQUEUE_PTRS and DEQUEUE_PTRS
    table,    \* obj_table of a dequeue, as filled so far
    \* positions since the ring was created
    gPH, gPT, gCH, gCT, pos

idxVars   == <<prodHead, prodTail, consHead, consTail>>
ghostVars == <<gPH, gPT, gCH, gCT>>
callVars  == <<pc, fixed, max, head, avail, n, copied, table, pos>>
vars == <<idxVars, watermark, ring, callVars, ghostVars>>

Wrap(x) == x % IndexMod
Slot(x) == x % Size

\* rte_ring_create: all indexes zero, water marking disabled.
Init ==
    /\ prodHead = 0 /\ prodTail = 0 /\ consHead = 0 /\ consTail = 0
    /\ watermark = Size
    /\ ring = [s \in 0..mask |-> 0]
    /\ pc = [t \in Threads |-> "idle"]
    /\ fixed = [t \in Threads |-> FALSE]
    /\ max = [t \in Threads |-> 0]
    /\ head = [t \in Threads |-> 0]
    /\ avail = [t \in Threads |-> 0]
    /\ n = [t \in Threads |-> 0]
    /\ copied = [t \in Threads |-> 0]
    /\ table = [t \in Threads |-> <<>>]
    /\ pos = [t \in Threads |-> 0]
    /\ gPH = 0 /\ gPT = 0 /\ gCH = 0 /\ gCT = 0

------------------------------------------------------------------------------
(* Steps that enqueue and dequeue have in common.                          *)

\* The calls a client may make: the behavior the function passes on and n.  The
\* bulk functions, and those for one object, which pass 1, move all or nothing;
\* the burst functions as many as possible.  Their mp_, sp_, mc_ and sc_ forms
\* name the code that the others choose by the flags of the ring.
EnqueueBulk  == {TRUE} \X Burst
EnqueueBurst == {FALSE} \X Burst
DequeueBulk  == {TRUE} \X Burst
DequeueBurst == {FALSE} \X Burst

\* prod_head = r->prod.head (or cons_head = r->cons.head), which is the first
\* access of one of the calls and of each further turn of its loop.
ReadHead(t, index, ghost, Calls) ==
    /\ \/ /\ pc[t] = "idle"
          /\ \E call \in Calls :
               /\ fixed' = [fixed EXCEPT ![t] = call[1]]
               /\ max' = [max EXCEPT ![t] = call[2]]
       \/ /\ pc[t] = "loop"
          /\ UNCHANGED <<max, fixed>>
    /\ head' = [head EXCEPT ![t] = index]
    /\ pos' = [pos EXCEPT ![t] = ghost]
    /\ pc' = [pc EXCEPT ![t] = "readTail"]
    /\ UNCHANGED <<idxVars, watermark, ring, avail, n, copied, table, ghostVars>>

\* The call returns; its locals are gone.
Return(t) ==
    /\ pc' = [pc EXCEPT ![t] = "idle"]
    /\ fixed' = [fixed EXCEPT ![t] = FALSE]
    /\ max' = [max EXCEPT ![t] = 0]
    /\ head' = [head EXCEPT ![t] = 0]
    /\ avail' = [avail EXCEPT ![t] = 0]
    /\ n' = [n EXCEPT ![t] = 0]
    /\ copied' = [copied EXCEPT ![t] = 0]
    /\ table' = [table EXCEPT ![t] = <<>>]
    /\ pos' = [pos EXCEPT ![t] = 0]

\* The other side's tail has been read and e entries are available: give up
\* (fixed and not enough, or none at all), or go for min(max, e) entries.
TryEntries(t, e) ==
    /\ pc[t] = "readTail"
    /\ \/ /\ max[t] > e
          /\ fixed[t] \/ e = 0
          /\ Return(t)
       \/ /\ max[t] <= e \/ (~fixed[t] /\ e # 0)
          /\ avail' = [avail EXCEPT ![t] = e]
          /\ n' = [n EXCEPT ![t] = IF max[t] > e THEN e ELSE max[t]]
          /\ pc' = [pc EXCEPT ![t] = "cas"]
          /\ UNCHANGED <<fixed, max, head, copied, table, pos>>
    /\ UNCHANGED <<idxVars, watermark, ring, ghostVars>>

\* The compare-and-set failed: loop.
Retry(t) ==
    /\ pc' = [pc EXCEPT ![t] = "loop"]
    /\ head' = [head EXCEPT ![t] = 0]
    /\ pos' = [pos EXCEPT ![t] = 0]
    /\ avail' = [avail EXCEPT ![t] = 0]
    /\ n' = [n EXCEPT ![t] = 0]
    /\ UNCHANGED <<fixed, max, copied, table>>

\* Nobody may sleep between reading a head and the compare-and-set while
\* IndexMod objects pass: the index would have come round to the value read.
\* The ring relies on this.
NoFullWrap(side, h) ==
    \A t \in side : pc[t] \in {"readTail", "cas"} => h - pos[t] < IndexMod

------------------------------------------------------------------------------
(* Enqueue: __rte_ring_mp_do_enqueue and __rte_ring_sp_do_enqueue.         *)

ReadProdHead(p) == ReadHead(p, prodHead, gPH, EnqueueBulk \cup EnqueueBurst)

\* Room computed as if all Size slots could be used.
ReadConsTailNoMask(p) == TryEntries(p, Wrap(Size + consTail - head[p]))

\* Room computed against cons.head, before the slots have been copied out.
ReadConsHead(p) == TryEntries(p, Wrap(mask + consHead - head[p]))

ReadConsTail(p) == TryEntries(p, Wrap(mask + consTail - head[p]))

MoveProdHead(p) ==
    /\ pc[p] = "cas"
    /\ \/ /\ SpEnqueue \/ prodHead = head[p]
          /\ gPH + n[p] <= MaxObjs /\ NoFullWrap(Producers \ {p}, gPH + n[p])
          /\ prodHead' = Wrap(head[p] + n[p])
          /\ gPH' = gPH + n[p]
          /\ pc' = [pc EXCEPT ![p] = "copy"]
          /\ UNCHANGED <<fixed, max, head, avail, n, copied, table, pos>>
       \/ /\ ~SpEnqueue /\ prodHead # head[p]
          /\ Retry(p)
          /\ UNCHANGED <<prodHead, gPH>>
    /\ UNCHANGED <<prodTail, consHead, consTail, gPT, gCH, gCT, watermark, ring>>

\* ENQUEUE_PTRS, one pointer.
WriteEntry(p) ==
    /\ pc[p] = "copy"
    /\ ring' = [ring EXCEPT ![Slot(head[p] + copied[p])] = pos[p] + copied[p] + 1]
    /\ copied' = [copied EXCEPT ![p] = @ + 1]
    /\ pc' = [pc EXCEPT ![p] = IF copied[p] + 1 = n[p] THEN "wait" ELSE "copy"]
    /\ UNCHANGED <<idxVars, watermark, fixed, max, head, avail, n, table, pos, ghostVars>>

\* A quota that leaves out the objects of the call itself.
QuotaBeforeCall(p) == mask - avail[p] > watermark

\* The result is -EDQUOT, or n with RTE_RING_QUOT_EXCEED.
QuotaExceeded(p) == Size - avail[p] + n[p] > watermark

\* A tail published without waiting for the enqueues claimed before.
PublishProdNoWait(p) ==
    /\ pc[p] = "wait"
    /\ prodTail' = Wrap(head[p] + n[p])
    /\ gPT' = pos[p] + n[p]
    /\ Return(p)
    /\ UNCHANGED <<prodHead, consHead, consTail, gPH, gCH, gCT, watermark, ring>>

PublishProd(p) ==
    /\ pc[p] = "wait"
    /\ SpEnqueue \/ prodTail = head[p]
    /\ prodTail' = Wrap(head[p] + n[p])
    /\ gPT' = pos[p] + n[p]
    /\ Return(p)
    /\ UNCHANGED <<prodHead, consHead, consTail, gPH, gCH, gCT, watermark, ring>>

------------------------------------------------------------------------------
(* Dequeue: __rte_ring_mc_do_dequeue and __rte_ring_sc_do_dequeue.         *)

ReadConsHeadIndex(c) == ReadHead(c, consHead, gCH, DequeueBulk \cup DequeueBurst)

\* Entries counted up to prod.head, before they have been written.
ReadProdHeadForTail(c) == TryEntries(c, Wrap(prodHead - head[c]))

ReadProdTail(c) == TryEntries(c, Wrap(prodTail - head[c]))

MoveConsHead(c) ==
    /\ pc[c] = "cas"
    /\ \/ /\ ScDequeue \/ consHead = head[c]
          /\ NoFullWrap(Consumers \ {c}, gCH + n[c])
          /\ consHead' = Wrap(head[c] + n[c])
          /\ gCH' = gCH + n[c]
          /\ pc' = [pc EXCEPT ![c] = "copy"]
          /\ UNCHANGED <<fixed, max, head, avail, n, copied, table, pos>>
       \/ /\ ~ScDequeue /\ consHead # head[c]
          /\ Retry(c)
          /\ UNCHANGED <<consHead, gCH>>
    /\ UNCHANGED <<prodHead, prodTail, consTail, gPH, gPT, gCT, watermark, ring>>

\* DEQUEUE_PTRS, one pointer.
ReadEntry(c) ==
    /\ pc[c] = "copy"
    /\ table' = [table EXCEPT ![c] = Append(@, ring[Slot(head[c] + copied[c])])]
    /\ copied' = [copied EXCEPT ![c] = @ + 1]
    /\ pc' = [pc EXCEPT ![c] = IF copied[c] + 1 = n[c] THEN "wait" ELSE "copy"]
    /\ UNCHANGED <<idxVars, watermark, ring, fixed, max, head, avail, n, pos, ghostVars>>

\* A wait for the wrong index.
PublishConsWaitNext(c) ==
    /\ pc[c] = "wait"
    /\ consTail = Wrap(head[c] + n[c])
    /\ gCT' = pos[c] + n[c]
    /\ Return(c)
    /\ UNCHANGED <<idxVars, gPH, gPT, gCH, watermark, ring>>

PublishCons(c) ==
    /\ pc[c] = "wait"
    /\ ScDequeue \/ consTail = head[c]
    /\ consTail' = Wrap(head[c] + n[c])
    /\ gCT' = pos[c] + n[c]
    /\ Return(c)
    /\ UNCHANGED <<prodHead, prodTail, consHead, gPH, gPT, gCH, watermark, ring>>

------------------------------------------------------------------------------
\* rte_ring_set_water_mark, which may be called at any time; a count that is
\* not below the size is refused.
SetWaterMark(count) ==
    /\ count < Size
    /\ watermark' = IF count = 0 THEN Size ELSE count
    /\ UNCHANGED <<idxVars, ring, callVars, ghostVars>>

Enqueue(p) ==
    \/ ReadProdHead(p) \/ ReadConsTail(p) \/ MoveProdHead(p)
    \/ WriteEntry(p) \/ PublishProd(p)

Dequeue(c) ==
    \/ ReadConsHeadIndex(c) \/ ReadProdTail(c) \/ MoveConsHead(c)
    \/ ReadEntry(c) \/ PublishCons(c)

Next ==
    \/ \E p \in Producers : Enqueue(p)
    \/ \E c \in Consumers : Dequeue(c)
    \/ \E count \in Watermarks : SetWaterMark(count)

Spec == Init /\ [][Next]_vars

\* A thread inside a call keeps running (rte_ring.h:85 says the ring is not
\* preemptable).  Nothing says that anybody calls.
Fairness ==
    /\ \A p \in Producers : WF_vars(pc[p] # "idle" /\ Enqueue(p))
    /\ \A c \in Consumers : WF_vars(pc[c] # "idle" /\ Dequeue(c))

FairSpec == Spec /\ Fairness

------------------------------------------------------------------------------
(* Properties                                                              *)

Index == 0..(IndexMod - 1)

\* Every index stays within its unsigned field and every local of a call
\* within its range, although room and entries are computed from stale reads.
TypeOK ==
    /\ prodHead \in Index /\ prodTail \in Index
    /\ consHead \in Index /\ consTail \in Index
    /\ watermark \in Nat
    /\ ring \in [0..mask -> Nat]
    /\ pc \in [Threads -> {"idle", "loop", "readTail", "cas", "copy", "wait"}]
    /\ fixed \in [Threads -> BOOLEAN]
    /\ max \in [Threads -> Nat]
    /\ head \in [Threads -> Index]
    /\ avail \in [Threads -> Index]
    /\ n \in [Threads -> Nat]
    /\ copied \in [Threads -> Nat]
    /\ table \in [Threads -> Seq(Nat)]
    /\ gPH \in Nat /\ gPT \in Nat /\ gCH \in Nat /\ gCT \in Nat
    /\ pos \in [Threads -> Nat]

\* The four indexes never overtake each other, whatever reads were stale when
\* a head was moved, and the producers are never more than count-1 ahead of
\* the slots the consumers have given back: rte_ring.h's "real usable ring
\* size is count-1", across wrap-arounds of the indexes.
IndexOrder ==
    /\ gCT <= gCH /\ gCH <= gPT /\ gPT <= gPH
    /\ gPH - gCT <= mask

\* The 32-bit indexes stand for the positions: the overflow of the indexes
\* is not a problem.
IndexesWrap ==
    /\ prodHead = Wrap(gPH) /\ prodTail = Wrap(gPT)
    /\ consHead = Wrap(gCH) /\ consTail = Wrap(gCT)

\* The positions a thread has claimed and not yet published.
Claimed(t) ==
    IF pc[t] \in {"copy", "wait"} THEN (pos[t] + 1)..(pos[t] + n[t]) ELSE {}

\* No slot of the table belongs to two calls at a time: two producers never
\* write the same slot, and no producer writes one a consumer still copies.
SlotsExclusive ==
    \A t, u \in Threads : t # u =>
        \A i \in Claimed(t), j \in Claimed(u) : Slot(i) # Slot(j)

\* A call that has copied its objects gets to publish them: the calls it
\* waits for publish first.
TailWaitEnds ==
    \A t \in Threads : pc[t] = "wait" ~> pc[t] = "idle"

\* An enqueue that does not report the quota has not left more than watermark
\* objects in the ring, although it computes them from the cons.tail of
\* before its compare-and-set, modulo the width of the indexes, and the mark
\* may have changed since.  (The report comes one object early:
\* Size - avail + n is one more than the objects there are.)
QuotaReported ==
    \A p \in Producers :
        pc[p] \in {"copy", "wait"} /\ ~QuotaExceeded(p) =>
            pos[p] + n[p] - gCT <= watermark

\* What the published part of the ring holds, read out of the table.
Items ==
    [i \in 1..Wrap(prodTail - consHead) |-> ring[Slot(consHead + i - 1)]]

\* The ring implements a bounded first-in first-out queue: an enqueue puts
\* its objects in at the moment it publishes the tail, a dequeue takes them
\* out at the moment it moves the head.
Fifo == INSTANCE BoundedFifo WITH items <- Items, put <- gPT, Capacity <- mask
ImplementsFifo == Fifo!Spec

==============================================================================
