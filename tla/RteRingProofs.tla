---------------------------- MODULE RteRingProofs ----------------------------
(***************************************************************************)
(* Theorems about the queues of free_queue: RteRing, for every number of   *)
(* threads, every size of the ring and every number of objects, and the    *)
(* smaller ones of Queues, for every number of threads, every              *)
(* capacity and every number of messages.                                  *)
(***************************************************************************)
EXTENDS RteRing, Queues, Division, FiniteSetTheorems, SequenceTheorems, TLAPS

------------------------------------------------------------------------------
(* Arithmetic of the ring's indexes.                                       *)

\* What the proofs use of the ring's parameters.
LEMMA Constants ==
  /\ IndexMod \in Nat \ {0} /\ Size \in Nat \ {0}
  /\ mask \in Nat /\ mask < IndexMod /\ Size = mask + 1
  BY RteRingAssumption DEF mask

\* Index arithmetic stays within the unsigned field.
LEMMA WrapType == \A x \in Int : Wrap(x) \in Index
  BY Constants, DivMod DEF Wrap, Index

\* Adding to a wrapped index (head + n) wraps like adding to the position.
LEMMA WrapAdd ==
  ASSUME NEW x \in Int, NEW k \in Int
  PROVE  Wrap(Wrap(x) + k) = Wrap(x + k)
<1> DEFINE q == x \div IndexMod
           r == x % IndexMod
<1>1. q \in Int /\ r \in Int /\ x = IndexMod * q + r
  BY DivMod, Constants
<1> HIDE DEF q, r
<1>2. IndexMod * q \in Int
  BY <1>1, Constants
<1>3. x + k = (r + k) + IndexMod * q /\ r + k \in Int
  BY <1>1, <1>2
<1>4. \A a \in Int : (a + IndexMod * q) % IndexMod = a % IndexMod
  BY <1>1, ModShift, Constants
<1>5. ((r + k) + IndexMod * q) % IndexMod = (r + k) % IndexMod
  BY <1>3, <1>4, Zenon
<1>6. (x + k) % IndexMod = (r + k) % IndexMod
  BY <1>3, <1>5, Zenon
<1> QED
  BY <1>6 DEF Wrap, r

\* Differences of wrapped indexes (mask + cons_tail - prod_head and
\* prod_tail - cons_head) are the differences of the positions, wrapped.
LEMMA WrapSub ==
  ASSUME NEW c \in Int, NEW x \in Int, NEW y \in Int
  PROVE  Wrap(c + Wrap(x) - Wrap(y)) = Wrap(c + x - y)
<1> DEFINE qx == x \div IndexMod
           rx == x % IndexMod
           qy == y \div IndexMod
           ry == y % IndexMod
<1>1. /\ qx \in Int /\ rx \in Int /\ x = IndexMod * qx + rx
      /\ qy \in Int /\ ry \in Int /\ y = IndexMod * qy + ry
  BY DivMod, Constants
<1> HIDE DEF qx, rx, qy, ry
<1>2. /\ IndexMod * qx \in Int /\ IndexMod * qy \in Int
      /\ IndexMod * (qx - qy) = IndexMod * qx - IndexMod * qy
  BY <1>1, Constants
<1>3. c + x - y = (c + rx - ry) + IndexMod * (qx - qy)
  BY <1>1, <1>2
<1>4. c + rx - ry \in Int /\ qx - qy \in Int
  BY <1>1
<1>5. \A a \in Int : (a + IndexMod * (qx - qy)) % IndexMod = a % IndexMod
  BY <1>4, ModShift, Constants
<1>6. ((c + rx - ry) + IndexMod * (qx - qy)) % IndexMod = (c + rx - ry) % IndexMod
  BY <1>4, <1>5, Zenon
<1>7. (c + x - y) % IndexMod = (c + rx - ry) % IndexMod
  BY <1>3, <1>6, Zenon
<1> QED
  BY <1>7 DEF Wrap, rx, ry

\* Two positions less than IndexMod apart with equal indexes are equal: a
\* successful compare-and-set saw the true head.
LEMMA WrapInjective ==
  ASSUME NEW x \in Int, NEW y \in Int, Wrap(x) = Wrap(y),
         y <= x, x - y < IndexMod
  PROVE  x = y
  BY ModInjective, Constants DEF Wrap

\* A count of at most mask entries survives wrapping.
LEMMA WrapSmall == \A x \in 0..mask : Wrap(x) = x
<1> SUFFICES ASSUME NEW x \in 0..mask PROVE Wrap(x) = x
  OBVIOUS
<1>1. x \in 0..(IndexMod - 1)
  BY Constants
<1> QED
  BY <1>1, ModSmall, Constants DEF Wrap

------------------------------------------------------------------------------
(* One side of the ring.  T and H are the positions of its tail and head,  *)
(* pcs, xs and ms the functions pc, pos and n.  A thread that has read the *)
(* head is not further behind it than the indexes can tell; the claims not *)
(* yet published are disjoint and lie between tail and head; and the only  *)
(* thread of a single-producer or single-consumer side owns what is there. *)

ReadingPc == {"readTail", "cas"}
HoldingPc == {"copy", "wait"}

SideInv(side, single, T, H, pcs, xs, ms) ==
    /\ \A t \in side : pcs[t] \in ReadingPc => xs[t] <= H /\ H - xs[t] < IndexMod
    /\ \A t \in side : pcs[t] \in HoldingPc =>
          ms[t] >= 1 /\ T <= xs[t] /\ xs[t] + ms[t] <= H
    /\ \A t, u \in side :
          t # u /\ pcs[t] \in HoldingPc /\ pcs[u] \in HoldingPc
            => xs[t] + ms[t] <= xs[u] \/ xs[u] + ms[u] <= xs[t]
    /\ single => \A t \in side :
          /\ pcs[t] \notin HoldingPc => T = H
          /\ pcs[t] \in ReadingPc => xs[t] = H
          /\ pcs[t] \in HoldingPc => xs[t] = T /\ xs[t] + ms[t] = H

\* Only what the threads of the side do matters.
LEMMA SideFrame ==
  ASSUME NEW side, NEW single, NEW T, NEW H,
         NEW pcs, NEW xs, NEW ms, NEW pcs2, NEW xs2, NEW ms2,
         SideInv(side, single, T, H, pcs, xs, ms),
         \A t \in side : pcs2[t] = pcs[t] /\ xs2[t] = xs[t] /\ ms2[t] = ms[t]
  PROVE  SideInv(side, single, T, H, pcs2, xs2, ms2)
  BY DEF SideInv

\* A thread that claims nothing yet goes on to a state in which it claims
\* nothing; if it reads the head then, it has just done so.
LEMMA SideRead ==
  ASSUME NEW side, NEW single \in BOOLEAN, NEW T \in Nat, NEW H \in Nat,
         NEW pcs, NEW xs, NEW ms, \A u \in side : xs[u] \in Nat /\ ms[u] \in Nat,
         NEW pcs2, NEW xs2, NEW ms2,
         SideInv(side, single, T, H, pcs, xs, ms),
         NEW t \in side, pcs[t] \notin HoldingPc, pcs2[t] \notin HoldingPc,
         pcs2[t] \in ReadingPc => xs2[t] = H \/ (pcs[t] \in ReadingPc /\ xs2[t] = xs[t]),
         \A u \in side \ {t} : pcs2[u] = pcs[u] /\ xs2[u] = xs[u] /\ ms2[u] = ms[u]
  PROVE  SideInv(side, single, T, H, pcs2, xs2, ms2)
<1>1. \A u \in side : pcs2[u] \in ReadingPc => xs2[u] <= H /\ H - xs2[u] < IndexMod
  BY Constants DEF SideInv
<1>2. \A u \in side : pcs2[u] \in HoldingPc =>
          ms2[u] >= 1 /\ T <= xs2[u] /\ xs2[u] + ms2[u] <= H
  BY DEF SideInv
<1>3. \A u, v \in side :
          u # v /\ pcs2[u] \in HoldingPc /\ pcs2[v] \in HoldingPc
            => xs2[u] + ms2[u] <= xs2[v] \/ xs2[v] + ms2[v] <= xs2[u]
  BY DEF SideInv
<1>4. single => \A u \in side :
          /\ pcs2[u] \notin HoldingPc => T = H
          /\ pcs2[u] \in ReadingPc => xs2[u] = H
          /\ pcs2[u] \in HoldingPc => xs2[u] = T /\ xs2[u] + ms2[u] = H
  BY DEF SideInv
<1> QED
  BY <1>1, <1>2, <1>3, <1>4 DEF SideInv

\* A thread that still sees the true head claims the next m positions.
LEMMA SideClaim ==
  ASSUME NEW side, NEW single \in BOOLEAN, NEW T \in Nat, NEW H \in Nat,
         NEW pcs, NEW xs, NEW ms, \A u \in side : xs[u] \in Nat /\ ms[u] \in Nat, NEW pcs2,
         SideInv(side, single, T, H, pcs, xs, ms), T <= H,
         single => \A u, v \in side : u = v,
         NEW t \in side, pcs[t] \in ReadingPc, pcs2[t] \in HoldingPc,
         xs[t] = H, ms[t] >= 1,
         \A u \in side \ {t} : pcs2[u] = pcs[u],
         \A u \in side \ {t} : pcs[u] \in ReadingPc => H + ms[t] - xs[u] < IndexMod
  PROVE  SideInv(side, single, T, H + ms[t], pcs2, xs, ms)
<1> USE DEF ReadingPc, HoldingPc
<1>0. ms[t] \in Nat /\ \A u \in side : xs[u] \in Nat /\ ms[u] \in Nat
  OBVIOUS
<1>1. \A u \in side : pcs2[u] \in ReadingPc =>
          xs[u] <= H + ms[t] /\ H + ms[t] - xs[u] < IndexMod
  BY <1>0 DEF SideInv
<1>2. \A u \in side : pcs2[u] \in HoldingPc =>
          ms[u] >= 1 /\ T <= xs[u] /\ xs[u] + ms[u] <= H + ms[t]
  BY <1>0 DEF SideInv
<1>3. \A u, v \in side :
          u # v /\ pcs2[u] \in HoldingPc /\ pcs2[v] \in HoldingPc
            => xs[u] + ms[u] <= xs[v] \/ xs[v] + ms[v] <= xs[u]
  BY <1>0 DEF SideInv
<1>4. single => \A u \in side :
          /\ pcs2[u] \notin HoldingPc => T = H + ms[t]
          /\ pcs2[u] \in ReadingPc => xs[u] = H + ms[t]
          /\ pcs2[u] \in HoldingPc => xs[u] = T /\ xs[u] + ms[u] = H + ms[t]
  BY DEF SideInv
<1> QED
  BY <1>1, <1>2, <1>3, <1>4 DEF SideInv

\* The thread whose claim begins at the tail publishes it.
LEMMA SidePublish ==
  ASSUME NEW side, NEW single \in BOOLEAN, NEW T \in Nat, NEW H \in Nat,
         NEW pcs, NEW xs, NEW ms, \A u \in side : xs[u] \in Nat /\ ms[u] \in Nat,
         NEW pcs2, NEW xs2, NEW ms2,
         SideInv(side, single, T, H, pcs, xs, ms),
         single => \A u, v \in side : u = v,
         NEW t \in side, pcs[t] \in HoldingPc, xs[t] = T,
         pcs2[t] \notin HoldingPc, pcs2[t] \notin ReadingPc,
         \A u \in side \ {t} : pcs2[u] = pcs[u] /\ xs2[u] = xs[u] /\ ms2[u] = ms[u]
  PROVE  SideInv(side, single, T + ms[t], H, pcs2, xs2, ms2)
<1>0. ms[t] \in Nat /\ \A u \in side : xs[u] \in Nat /\ ms[u] \in Nat
  OBVIOUS
<1>1. \A u \in side : pcs2[u] \in ReadingPc => xs2[u] <= H /\ H - xs2[u] < IndexMod
  BY DEF SideInv
<1>2. \A u \in side : pcs2[u] \in HoldingPc =>
          ms2[u] >= 1 /\ T + ms[t] <= xs2[u] /\ xs2[u] + ms2[u] <= H
  <2> SUFFICES ASSUME NEW u \in side, pcs2[u] \in HoldingPc
               PROVE  ms2[u] >= 1 /\ T + ms[t] <= xs2[u] /\ xs2[u] + ms2[u] <= H
    OBVIOUS
  <2>1. u # t /\ pcs[u] \in HoldingPc /\ xs2[u] = xs[u] /\ ms2[u] = ms[u]
    OBVIOUS
  <2>2. /\ ms[u] >= 1 /\ T <= xs[u] /\ xs[u] + ms[u] <= H
        /\ xs[t] + ms[t] <= xs[u] \/ xs[u] + ms[u] <= xs[t]
    BY <2>1 DEF SideInv
  <2> QED
    BY <2>1, <2>2, <1>0
<1>3. \A u, v \in side :
          u # v /\ pcs2[u] \in HoldingPc /\ pcs2[v] \in HoldingPc
            => xs2[u] + ms2[u] <= xs2[v] \/ xs2[v] + ms2[v] <= xs2[u]
  BY DEF SideInv
<1>4. single => \A u \in side :
          /\ pcs2[u] \notin HoldingPc => T + ms[t] = H
          /\ pcs2[u] \in ReadingPc => xs2[u] = H
          /\ pcs2[u] \in HoldingPc => xs2[u] = T + ms[t] /\ xs2[u] + ms2[u] = H
  <2> SUFFICES ASSUME single, NEW u \in side
               PROVE  /\ u = t
                      /\ T + ms[t] = H
    OBVIOUS
  <2>1. u = t
    OBVIOUS
  <2>2. T + ms[t] = H
    BY DEF SideInv
  <2> QED
    BY <2>1, <2>2
<1> QED
  BY <1>1, <1>2, <1>3, <1>4 DEF SideInv

------------------------------------------------------------------------------
(* Type correctness.                                                       *)

PcValues == {"idle", "loop", "readTail", "cas", "copy", "wait"}

\* rte_ring_create gives every field and local a value of its type.
LEMMA InitType == Init => TypeOK
<1> SUFFICES ASSUME Init PROVE TypeOK
  OBVIOUS
<1>1. 0 \in Index
  BY Constants DEF Index
<1>2. table \in [Threads -> Seq(Nat)]
  BY DEF Init
<1>3. fixed \in [Threads -> BOOLEAN]
  BY DEF Init
<1>4. /\ pc \in [Threads -> PcValues] /\ max \in [Threads -> Nat]
      /\ head \in [Threads -> Index] /\ avail \in [Threads -> Index]
      /\ n \in [Threads -> Nat] /\ copied \in [Threads -> Nat]
      /\ pos \in [Threads -> Nat]
  BY <1>1 DEF Init, PcValues
<1>5. watermark \in Nat /\ ring \in [0..mask -> Nat]
  BY Constants DEF Init
<1> QED
  BY <1>1, <1>2, <1>3, <1>4, <1>5 DEF Init, TypeOK, PcValues

\* A call that returns leaves its locals typed.
LEMMA ReturnType ==
  ASSUME TypeOK, NEW t \in Threads, Return(t)
  PROVE  /\ pc' \in [Threads -> PcValues] /\ fixed' \in [Threads -> BOOLEAN]
         /\ max' \in [Threads -> Nat] /\ head' \in [Threads -> Index]
         /\ avail' \in [Threads -> Index] /\ n' \in [Threads -> Nat]
         /\ copied' \in [Threads -> Nat] /\ table' \in [Threads -> Seq(Nat)]
         /\ pos' \in [Threads -> Nat]
<1>1. 0 \in Index
  BY Constants DEF Index
<1>2. table' \in [Threads -> Seq(Nat)]
  BY DEF Return, TypeOK
<1>3. fixed' \in [Threads -> BOOLEAN]
  BY DEF Return, TypeOK
<1> QED
  BY <1>1, <1>2, <1>3 DEF Return, TypeOK, PcValues

\* The functions pass a behavior and a number of objects.
LEMMA CallTypes ==
  /\ EnqueueBulk \cup EnqueueBurst \subseteq BOOLEAN \X Burst
  /\ DequeueBulk \cup DequeueBurst \subseteq BOOLEAN \X Burst
  BY DEF EnqueueBulk, EnqueueBurst, DequeueBulk, DequeueBurst

\* Reading a head keeps the types.
LEMMA ReadHeadType ==
  ASSUME TypeOK, NEW t \in Threads, NEW i \in Index, NEW g \in Nat,
         NEW Calls, Calls \subseteq BOOLEAN \X Burst, ReadHead(t, i, g, Calls)
  PROVE  TypeOK'
<1>0. \A call \in Calls : call[1] \in BOOLEAN /\ call[2] \in Nat
  BY RteRingAssumption
<1>1. max' \in [Threads -> Nat]
  BY <1>0 DEF ReadHead, TypeOK
<1>2. fixed' \in [Threads -> BOOLEAN]
  BY <1>0 DEF ReadHead, TypeOK
<1>3. /\ head' \in [Threads -> Index] /\ pos' \in [Threads -> Nat]
      /\ pc' \in [Threads -> PcValues]
  BY DEF ReadHead, TypeOK, PcValues
<1> QED
  BY <1>1, <1>2, <1>3 DEF ReadHead, TypeOK, PcValues, idxVars, ghostVars

\* Giving up, or settling for min(max, entries), keeps the types.
LEMMA TryEntriesType ==
  ASSUME TypeOK, NEW t \in Threads, NEW e \in Index, TryEntries(t, e)
  PROVE  TypeOK'
<1>1. UNCHANGED <<idxVars, watermark, ring, ghostVars>>
  BY DEF TryEntries
<1>2. CASE Return(t)
  BY <1>1, <1>2, ReturnType DEF TypeOK, PcValues, idxVars, ghostVars
<1>3. CASE /\ avail' = [avail EXCEPT ![t] = e]
           /\ n' = [n EXCEPT ![t] = IF max[t] > e THEN e ELSE max[t]]
           /\ pc' = [pc EXCEPT ![t] = "cas"]
           /\ UNCHANGED <<fixed, max, head, copied, table, pos>>
  <2>1. e \in Nat
    BY Constants DEF Index
  <2>2. /\ avail' \in [Threads -> Index] /\ n' \in [Threads -> Nat]
        /\ pc' \in [Threads -> PcValues]
    BY <1>3, <2>1 DEF TypeOK, PcValues
  <2> QED
    BY <1>1, <1>3, <2>2 DEF TypeOK, PcValues, idxVars, ghostVars
<1> QED
  BY <1>2, <1>3 DEF TryEntries

\* A failed compare-and-set keeps the types.
LEMMA RetryType ==
  ASSUME TypeOK, NEW t \in Threads, Retry(t)
  PROVE  /\ pc' \in [Threads -> PcValues] /\ fixed' = fixed /\ max' = max
         /\ head' \in [Threads -> Index] /\ avail' \in [Threads -> Index]
         /\ n' \in [Threads -> Nat] /\ copied' = copied /\ table' = table
         /\ pos' \in [Threads -> Nat]
<1>1. 0 \in Index
  BY Constants DEF Index
<1> QED
  BY <1>1 DEF Retry, TypeOK, PcValues

\* Every step of a producer, a consumer or set_water_mark keeps the types.
LEMMA NextType == TypeOK /\ [Next]_vars => TypeOK'
<1> SUFFICES ASSUME TypeOK, [Next]_vars PROVE TypeOK'
  OBVIOUS
<1>0. /\ Index \subseteq Int /\ mask \in Int
      /\ Producers \subseteq Threads /\ Consumers \subseteq Threads
  BY Constants DEF Index, Threads
<1>1. ASSUME NEW t \in Threads
      PROVE  /\ head[t] \in Int /\ n[t] \in Nat /\ Wrap(head[t] + n[t]) \in Index
             /\ pos[t] \in Nat /\ copied[t] \in Nat
             /\ Slot(head[t] + copied[t]) \in 0..mask
  <2>1. head[t] \in Index /\ n[t] \in Nat /\ pos[t] \in Nat /\ copied[t] \in Nat
    BY DEF TypeOK
  <2>2. head[t] \in Int
    BY <2>1 DEF Index
  <2>3. head[t] + n[t] \in Int /\ head[t] + copied[t] \in Int
    BY <2>1, <2>2
  <2>4. Wrap(head[t] + n[t]) \in Index
    BY <2>3, WrapType
  <2>5. Slot(head[t] + copied[t]) \in 0..(Size - 1)
    BY <2>3, Constants, DivMod DEF Slot
  <2> QED
    BY <2>1, <2>2, <2>4, <2>5 DEF mask
<1>2. ASSUME NEW p \in Producers, ReadProdHead(p) PROVE TypeOK'
  BY <1>2, <1>0, CallTypes, ReadHeadType DEF ReadProdHead, TypeOK
<1>3. ASSUME NEW c \in Consumers, ReadConsHeadIndex(c) PROVE TypeOK'
  BY <1>3, <1>0, CallTypes, ReadHeadType DEF ReadConsHeadIndex, TypeOK
<1>4. ASSUME NEW p \in Producers, ReadConsTail(p) PROVE TypeOK'
  <2>1. mask + consTail - head[p] \in Int
    <3>1. consTail \in Int /\ head[p] \in Int
      BY <1>0, <1>1 DEF TypeOK
    <3> QED
      BY <1>0, <3>1
  <2> QED
    BY <1>4, <1>0, <2>1, WrapType, TryEntriesType DEF ReadConsTail
<1>5. ASSUME NEW c \in Consumers, ReadProdTail(c) PROVE TypeOK'
  <2>1. prodTail - head[c] \in Int
    <3>1. prodTail \in Int /\ head[c] \in Int
      BY <1>0, <1>1 DEF TypeOK
    <3> QED
      BY <3>1
  <2> QED
    BY <1>5, <1>0, <2>1, WrapType, TryEntriesType DEF ReadProdTail
<1>6. ASSUME NEW p \in Producers, MoveProdHead(p) PROVE TypeOK'
  <2>1. CASE Retry(p) /\ UNCHANGED <<prodHead, gPH>>
    BY <1>6, <1>0, <2>1, RetryType DEF MoveProdHead, TypeOK, PcValues
  <2>2. CASE /\ prodHead' = Wrap(head[p] + n[p])
             /\ gPH' = gPH + n[p]
             /\ pc' = [pc EXCEPT ![p] = "copy"]
             /\ UNCHANGED <<fixed, max, head, avail, n, copied, table, pos>>
    <3>0. p \in Threads /\ n[p] \in Nat /\ Wrap(head[p] + n[p]) \in Index
      BY <1>0, <1>1
    <3>1. prodHead' \in Index /\ gPH' \in Nat /\ pc' \in [Threads -> PcValues]
      BY <3>0, <2>2 DEF TypeOK, PcValues
    <3> QED
      BY <1>6, <2>2, <3>1 DEF MoveProdHead, TypeOK, PcValues
  <2> QED
    BY <1>6, <2>1, <2>2 DEF MoveProdHead
<1>7. ASSUME NEW c \in Consumers, MoveConsHead(c) PROVE TypeOK'
  <2>1. CASE Retry(c) /\ UNCHANGED <<consHead, gCH>>
    BY <1>7, <1>0, <2>1, RetryType DEF MoveConsHead, TypeOK, PcValues
  <2>2. CASE /\ consHead' = Wrap(head[c] + n[c])
             /\ gCH' = gCH + n[c]
             /\ pc' = [pc EXCEPT ![c] = "copy"]
             /\ UNCHANGED <<fixed, max, head, avail, n, copied, table, pos>>
    <3>0. c \in Threads /\ n[c] \in Nat /\ Wrap(head[c] + n[c]) \in Index
      BY <1>0, <1>1
    <3>1. consHead' \in Index /\ gCH' \in Nat /\ pc' \in [Threads -> PcValues]
      BY <3>0, <2>2 DEF TypeOK, PcValues
    <3> QED
      BY <1>7, <2>2, <3>1 DEF MoveConsHead, TypeOK, PcValues
  <2> QED
    BY <1>7, <2>1, <2>2 DEF MoveConsHead
<1>8. ASSUME NEW p \in Producers, WriteEntry(p) PROVE TypeOK'
  <2>0. p \in Threads /\ pos[p] + copied[p] + 1 \in Nat
    BY <1>0, <1>1
  <2>1. ring' \in [0..mask -> Nat]
    BY <1>8, <2>0 DEF WriteEntry, TypeOK
  <2>2. copied' \in [Threads -> Nat] /\ pc' \in [Threads -> PcValues]
    BY <1>8, <1>0 DEF WriteEntry, TypeOK, PcValues
  <2> QED
    BY <1>8, <2>1, <2>2 DEF WriteEntry, TypeOK, PcValues, idxVars, ghostVars
<1>9. ASSUME NEW c \in Consumers, ReadEntry(c) PROVE TypeOK'
  <2>2. table' \in [Threads -> Seq(Nat)]
    BY <1>9, <1>0, <1>1 DEF ReadEntry, TypeOK
  <2>3. copied' \in [Threads -> Nat] /\ pc' \in [Threads -> PcValues]
    BY <1>9, <1>0 DEF ReadEntry, TypeOK, PcValues
  <2> QED
    BY <1>9, <2>2, <2>3 DEF ReadEntry, TypeOK, PcValues, idxVars, ghostVars
<1>10. ASSUME NEW p \in Producers, PublishProd(p) PROVE TypeOK'
  <2>0. p \in Threads /\ pos[p] + n[p] \in Nat /\ Wrap(head[p] + n[p]) \in Index
    <3>1. p \in Threads
      BY <1>0
    <3> QED
      BY <1>1, <3>1
  <2>1. gPT' \in Nat /\ prodTail' \in Index
    BY <1>10, <2>0 DEF PublishProd
  <2>2. Return(p)
    BY <1>10 DEF PublishProd
  <2>3. /\ pc' \in [Threads -> PcValues] /\ fixed' \in [Threads -> BOOLEAN]
        /\ max' \in [Threads -> Nat] /\ head' \in [Threads -> Index]
        /\ avail' \in [Threads -> Index] /\ n' \in [Threads -> Nat]
        /\ copied' \in [Threads -> Nat] /\ table' \in [Threads -> Seq(Nat)]
        /\ pos' \in [Threads -> Nat]
    BY <1>0, <2>0, <2>2, ReturnType, Zenon
  <2>4. UNCHANGED <<prodHead, consHead, consTail, gPH, gCH, gCT, watermark, ring>>
    BY <1>10 DEF PublishProd
  <2> QED
    BY <2>1, <2>3, <2>4 DEF TypeOK, PcValues
<1>11. ASSUME NEW c \in Consumers, PublishCons(c) PROVE TypeOK'
  <2>0. c \in Threads /\ pos[c] + n[c] \in Nat /\ Wrap(head[c] + n[c]) \in Index
    <3>1. c \in Threads
      BY <1>0
    <3> QED
      BY <1>1, <3>1
  <2>1. gCT' \in Nat /\ consTail' \in Index
    BY <1>11, <2>0 DEF PublishCons
  <2>2. Return(c)
    BY <1>11 DEF PublishCons
  <2>3. /\ pc' \in [Threads -> PcValues] /\ fixed' \in [Threads -> BOOLEAN]
        /\ max' \in [Threads -> Nat] /\ head' \in [Threads -> Index]
        /\ avail' \in [Threads -> Index] /\ n' \in [Threads -> Nat]
        /\ copied' \in [Threads -> Nat] /\ table' \in [Threads -> Seq(Nat)]
        /\ pos' \in [Threads -> Nat]
    BY <1>0, <2>0, <2>2, ReturnType, Zenon
  <2>4. UNCHANGED <<prodHead, prodTail, consHead, gPH, gPT, gCH, watermark, ring>>
    BY <1>11 DEF PublishCons
  <2> QED
    BY <2>1, <2>3, <2>4 DEF TypeOK, PcValues
<1>12. ASSUME NEW mark \in Watermarks, SetWaterMark(mark) PROVE TypeOK'
  <2>1. watermark' \in Nat
    BY <1>12, RteRingAssumption DEF SetWaterMark
  <2> QED
    BY <1>12, <2>1 DEF SetWaterMark, TypeOK, idxVars, callVars, ghostVars
<1>13. CASE UNCHANGED vars
  BY <1>13 DEF vars, idxVars, callVars, ghostVars, TypeOK
<1> QED
  BY <1>2, <1>3, <1>4, <1>5, <1>6, <1>7, <1>8, <1>9, <1>10, <1>11, <1>12, <1>13
     DEF Next, Enqueue, Dequeue

\* Every index stays within its 32 bits and every local within its range.
THEOREM TypeCorrect == Spec => []TypeOK
  BY InitType, NextType, PTL DEF Spec

------------------------------------------------------------------------------
(* The inductive invariant.  The indexes are the positions modulo          *)
(* IndexMod; what a thread read of a head is that head's index at its pos; *)
(* the claims of each side lie between its tail and its head; and whoever  *)
(* is about to move a head that has not changed since it was read has room *)
(* for (respectively a stock of) the n objects of its call.                *)

ProdSide == SideInv(Producers, SpEnqueue, gPT, gPH, pc, pos, n)
ConsSide == SideInv(Consumers, ScDequeue, gCT, gCH, pc, pos, n)

CallInv ==
    \A t \in Threads :
        /\ pc[t] # "idle" => max[t] >= 1
        /\ pc[t] = "cas" => n[t] >= 1
        /\ pc[t] \in ReadingPc \cup HoldingPc => head[t] = Wrap(pos[t])

RoomInv ==
    \A p \in Producers : pc[p] = "cas" /\ pos[p] = gPH => gPH + n[p] <= gCT + mask

StockInv ==
    \A c \in Consumers : pc[c] = "cas" /\ pos[c] = gCH => gCH + n[c] <= gPT

RingInv ==
    /\ TypeOK /\ IndexesWrap /\ IndexOrder /\ CallInv
    /\ ProdSide /\ ConsSide /\ RoomInv /\ StockInv

\* Every thread but t is where it was.
Others(t) ==
    \A u \in Threads \ {t} :
        /\ pc'[u] = pc[u] /\ pos'[u] = pos[u] /\ n'[u] = n[u]
        /\ head'[u] = head[u] /\ max'[u] = max[u]

\* The types of what belongs to one thread.
LEMMA ThreadFacts ==
  ASSUME TypeOK
  PROVE  /\ \A t \in Threads : /\ pos[t] \in Nat /\ n[t] \in Nat /\ max[t] \in Nat
                               /\ pc[t] \in PcValues /\ head[t] \in Index /\ head[t] \in Int
         /\ gPH \in Nat /\ gPT \in Nat /\ gCH \in Nat /\ gCT \in Nat
         /\ Producers \subseteq Threads /\ Consumers \subseteq Threads
         /\ \A p \in Producers : p \notin Consumers
  BY RteRingAssumption DEF TypeOK, PcValues, Threads, Index

\* The ring that rte_ring_create returns satisfies the invariant.
LEMMA InitRing == Init => RingInv
<1> SUFFICES ASSUME Init PROVE RingInv
  OBVIOUS
<1>1. TypeOK
  BY InitType
<1>2. \A t \in Threads : pc[t] = "idle"
  BY DEF Init
<1>3. IndexesWrap
  BY WrapSmall, Constants DEF Init, IndexesWrap
<1>4. IndexOrder
  BY Constants DEF Init, IndexOrder
<1>5. CallInv
  BY <1>2 DEF CallInv, ReadingPc, HoldingPc
<1>6. ProdSide /\ ConsSide
  BY <1>2 DEF ProdSide, ConsSide, SideInv, Init, ReadingPc, HoldingPc, Threads
<1>7. RoomInv /\ StockInv
  BY <1>2 DEF RoomInv, StockInv, Threads
<1> QED
  BY <1>1, <1>3, <1>4, <1>5, <1>6, <1>7 DEF RingInv

\* Steps of a thread that claims nothing, before and after: reading a head,
\* reading the other side's tail, giving up, and looping.
LEMMA LocalStep ==
  ASSUME RingInv, TypeOK', NEW t \in Threads, Others(t),
         UNCHANGED idxVars, UNCHANGED ghostVars,
         pc[t] \notin HoldingPc, pc'[t] \notin HoldingPc,
         pc'[t] # "idle" => max'[t] >= 1,
         pc'[t] = "cas" => n'[t] >= 1,
         pc'[t] \in ReadingPc => head'[t] = Wrap(pos'[t]),
         t \in Producers /\ pc'[t] \in ReadingPc =>
             pos'[t] = gPH \/ (pc[t] \in ReadingPc /\ pos'[t] = pos[t]),
         t \in Consumers /\ pc'[t] \in ReadingPc =>
             pos'[t] = gCH \/ (pc[t] \in ReadingPc /\ pos'[t] = pos[t]),
         t \in Producers /\ pc'[t] = "cas" /\ pos'[t] = gPH => gPH + n'[t] <= gCT + mask,
         t \in Consumers /\ pc'[t] = "cas" /\ pos'[t] = gCH => gCH + n'[t] <= gPT
  PROVE  RingInv'
<1>0. TypeOK
  BY DEF RingInv
<1>1. /\ prodHead' = prodHead /\ prodTail' = prodTail
      /\ consHead' = consHead /\ consTail' = consTail
      /\ gPH' = gPH /\ gPT' = gPT /\ gCH' = gCH /\ gCT' = gCT
  BY DEF idxVars, ghostVars
<1>2. IndexesWrap' /\ IndexOrder'
  BY <1>1 DEF RingInv, IndexesWrap, IndexOrder
<1>3. CallInv'
  BY DEF RingInv, CallInv, Others
<1>4. SideInv(Producers, SpEnqueue, gPT, gPH, pc', pos', n')
  <2>1. SideInv(Producers, SpEnqueue, gPT, gPH, pc, pos, n)
    BY DEF RingInv, ProdSide
  <2>2. CASE t \in Producers
    <3>1. \A u \in Producers \ {t} : pc'[u] = pc[u] /\ pos'[u] = pos[u] /\ n'[u] = n[u]
      BY DEF Others, Threads
    <3>2. \A u \in Producers : pos[u] \in Nat /\ n[u] \in Nat
      BY <1>0, ThreadFacts
    <3>3. SpEnqueue \in BOOLEAN /\ gPT \in Nat /\ gPH \in Nat
      BY <1>0, ThreadFacts, RteRingAssumption
    <3> QED
      BY <2>1, <2>2, <3>1, <3>2, <3>3, SideRead
  <2>3. CASE t \notin Producers
    <3>1. \A u \in Producers : pc'[u] = pc[u] /\ pos'[u] = pos[u] /\ n'[u] = n[u]
      BY <2>3 DEF Others, Threads
    <3> QED
      BY <2>1, <3>1, SideFrame
  <2> QED
    BY <2>2, <2>3
<1>5. SideInv(Consumers, ScDequeue, gCT, gCH, pc', pos', n')
  <2>1. SideInv(Consumers, ScDequeue, gCT, gCH, pc, pos, n)
    BY DEF RingInv, ConsSide
  <2>2. CASE t \in Consumers
    <3>1. \A u \in Consumers \ {t} : pc'[u] = pc[u] /\ pos'[u] = pos[u] /\ n'[u] = n[u]
      BY DEF Others, Threads
    <3>2. \A u \in Consumers : pos[u] \in Nat /\ n[u] \in Nat
      BY <1>0, ThreadFacts
    <3>3. ScDequeue \in BOOLEAN /\ gCT \in Nat /\ gCH \in Nat
      BY <1>0, ThreadFacts, RteRingAssumption
    <3> QED
      BY <2>1, <2>2, <3>1, <3>2, <3>3, SideRead
  <2>3. CASE t \notin Consumers
    <3>1. \A u \in Consumers : pc'[u] = pc[u] /\ pos'[u] = pos[u] /\ n'[u] = n[u]
      BY <2>3 DEF Others, Threads
    <3> QED
      BY <2>1, <3>1, SideFrame
  <2> QED
    BY <2>2, <2>3
<1>6. ProdSide' /\ ConsSide'
  BY <1>1, <1>4, <1>5 DEF ProdSide, ConsSide
<1>7. RoomInv' /\ StockInv'
  BY <1>1 DEF RingInv, RoomInv, StockInv, Others, Threads
<1> QED
  BY <1>2, <1>3, <1>6, <1>7 DEF RingInv

\* Copying a pointer changes neither the claims nor the indexes.
LEMMA CopyStep ==
  ASSUME RingInv, TypeOK', NEW t \in Threads, pc[t] = "copy",
         pc'[t] \in HoldingPc, \A u \in Threads \ {t} : pc'[u] = pc[u],
         UNCHANGED <<pos, n, head, max, idxVars, ghostVars>>
  PROVE  RingInv'
<1>1. /\ prodHead' = prodHead /\ prodTail' = prodTail
      /\ consHead' = consHead /\ consTail' = consTail
      /\ gPH' = gPH /\ gPT' = gPT /\ gCH' = gCH /\ gCT' = gCT
      /\ pos' = pos /\ n' = n /\ head' = head /\ max' = max
  BY DEF idxVars, ghostVars
<1>2. IndexesWrap' /\ IndexOrder'
  BY <1>1 DEF RingInv, IndexesWrap, IndexOrder
<1>3. \A u \in Threads : /\ pc'[u] \in HoldingPc <=> pc[u] \in HoldingPc
                         /\ pc'[u] \in ReadingPc <=> pc[u] \in ReadingPc
                         /\ pc'[u] = "cas" <=> pc[u] = "cas"
                         /\ pc[u] = "idle" => pc'[u] = "idle"
  BY DEF ReadingPc, HoldingPc
<1>4. CallInv'
  BY <1>1, <1>3 DEF RingInv, CallInv
<1>5. SideInv(Producers, SpEnqueue, gPT, gPH, pc', pos, n)
  BY <1>3 DEF RingInv, ProdSide, SideInv, Threads
<1>6. SideInv(Consumers, ScDequeue, gCT, gCH, pc', pos, n)
  BY <1>3 DEF RingInv, ConsSide, SideInv, Threads
<1>7. ProdSide' /\ ConsSide'
  BY <1>1, <1>5, <1>6 DEF ProdSide, ConsSide
<1>8. RoomInv' /\ StockInv'
  BY <1>1, <1>3 DEF RingInv, RoomInv, StockInv, Threads
<1> QED
  BY <1>2, <1>4, <1>7, <1>8 DEF RingInv

\* What the shared steps do to the threads.
LEMMA ReadHeadLocal ==
  ASSUME TypeOK, NEW t \in Threads, NEW i, NEW g,
         NEW Calls, Calls \subseteq BOOLEAN \X Burst, ReadHead(t, i, g, Calls)
  PROVE  /\ Others(t) /\ UNCHANGED idxVars /\ UNCHANGED ghostVars
         /\ pc[t] \in {"idle", "loop"} /\ pc'[t] = "readTail"
         /\ head'[t] = i /\ pos'[t] = g
         /\ max'[t] >= 1 \/ (pc[t] = "loop" /\ max'[t] = max[t])
<1>1. Others(t)
  BY DEF ReadHead, Others, TypeOK
<1>2. max'[t] >= 1 \/ (pc[t] = "loop" /\ max'[t] = max[t])
  <2>a. Burst \subseteq Nat \ {0}
    BY RteRingAssumption, Zenon
  <2>0. \A k \in Burst : k \in Nat /\ k >= 1
    BY <2>a
  <2>1. \A call \in Calls : call[2] \in Burst
    OBVIOUS
  <2> QED
    BY <2>0, <2>1 DEF ReadHead, TypeOK
<1> QED
  BY <1>1, <1>2 DEF ReadHead, TypeOK

\* A return touches only the locals of the thread that returns.
LEMMA ReturnLocal ==
  ASSUME TypeOK, NEW t \in Threads, Return(t)
  PROVE  Others(t) /\ pc'[t] = "idle"
  BY DEF Return, Others, TypeOK

\* After the other side's tail is read, n is at most the entries seen, and
\* at least one.
LEMMA TryEntriesLocal ==
  ASSUME TypeOK, NEW t \in Threads, NEW e \in Nat, TryEntries(t, e)
  PROVE  /\ Others(t) /\ UNCHANGED idxVars /\ UNCHANGED ghostVars
         /\ pc[t] = "readTail"
         /\ \/ pc'[t] = "idle"
            \/ /\ pc'[t] = "cas" /\ n'[t] <= e /\ (max[t] >= 1 => n'[t] >= 1)
               /\ head'[t] = head[t] /\ pos'[t] = pos[t] /\ max'[t] = max[t]
<1>1. UNCHANGED idxVars /\ UNCHANGED ghostVars /\ pc[t] = "readTail"
  BY DEF TryEntries
<1>2. CASE Return(t)
  BY <1>1, <1>2, ReturnLocal
<1>3. CASE /\ max[t] <= e \/ (~fixed[t] /\ e # 0)
           /\ n' = [n EXCEPT ![t] = IF max[t] > e THEN e ELSE max[t]]
           /\ pc' = [pc EXCEPT ![t] = "cas"]
           /\ UNCHANGED <<fixed, max, head, copied, table, pos>>
  <2>1. Others(t)
    BY <1>3 DEF Others, TypeOK
  <2>2. max[t] \in Nat
    BY DEF TypeOK
  <2>3. n'[t] = IF max[t] > e THEN e ELSE max[t]
    BY <1>3 DEF TypeOK
  <2>4. n'[t] <= e /\ (max[t] >= 1 => n'[t] >= 1)
    BY <1>3, <2>2, <2>3
  <2> QED
    BY <1>1, <1>3, <2>1, <2>4 DEF TypeOK
<1> QED
  BY <1>2, <1>3 DEF TryEntries

\* A failed compare-and-set touches only the locals of the thread.
LEMMA RetryLocal ==
  ASSUME TypeOK, NEW t \in Threads, Retry(t)
  PROVE  Others(t) /\ pc'[t] = "loop" /\ max'[t] = max[t]
  BY DEF Retry, Others, TypeOK

\* A producer that reads prod.head keeps the invariant.
LEMMA ReadProdHeadStep ==
  ASSUME RingInv, TypeOK', NEW p \in Producers, ReadProdHead(p)
  PROVE  RingInv'
<1>1. TypeOK /\ p \in Threads /\ p \notin Consumers
  BY ThreadFacts DEF RingInv
<1>2. /\ Others(p) /\ UNCHANGED idxVars /\ UNCHANGED ghostVars
      /\ pc[p] \in {"idle", "loop"} /\ pc'[p] = "readTail"
      /\ head'[p] = prodHead /\ pos'[p] = gPH
      /\ max'[p] >= 1 \/ (pc[p] = "loop" /\ max'[p] = max[p])
  BY <1>1, CallTypes, ReadHeadLocal DEF ReadProdHead
<1>3. max'[p] >= 1
  BY <1>1, <1>2 DEF RingInv, CallInv
<1>4. head'[p] = Wrap(pos'[p])
  BY <1>2 DEF RingInv, IndexesWrap
<1> QED
  BY <1>1, <1>2, <1>3, <1>4, LocalStep DEF HoldingPc

\* A consumer that reads cons.head keeps the invariant.
LEMMA ReadConsHeadStep ==
  ASSUME RingInv, TypeOK', NEW c \in Consumers, ReadConsHeadIndex(c)
  PROVE  RingInv'
<1>1. TypeOK /\ c \in Threads /\ c \notin Producers
  BY ThreadFacts DEF RingInv
<1>2. /\ Others(c) /\ UNCHANGED idxVars /\ UNCHANGED ghostVars
      /\ pc[c] \in {"idle", "loop"} /\ pc'[c] = "readTail"
      /\ head'[c] = consHead /\ pos'[c] = gCH
      /\ max'[c] >= 1 \/ (pc[c] = "loop" /\ max'[c] = max[c])
  BY <1>1, CallTypes, ReadHeadLocal DEF ReadConsHeadIndex
<1>3. max'[c] >= 1
  BY <1>1, <1>2 DEF RingInv, CallInv
<1>4. head'[c] = Wrap(pos'[c])
  BY <1>2 DEF RingInv, IndexesWrap
<1> QED
  BY <1>1, <1>2, <1>3, <1>4, LocalStep DEF HoldingPc

\* The room is computed from a head that may be stale and a tail that has
\* moved since, but it is right if the head is not stale.
LEMMA ReadConsTailStep ==
  ASSUME RingInv, TypeOK', NEW p \in Producers, ReadConsTail(p)
  PROVE  RingInv'
<1> DEFINE e == Wrap(mask + consTail - head[p])
<1>1. /\ TypeOK /\ p \in Threads /\ p \notin Consumers
      /\ pos[p] \in Nat /\ gCT \in Nat /\ gPH \in Nat /\ mask \in Nat
      /\ gCH \in Nat /\ gPT \in Nat
  BY ThreadFacts, Constants DEF RingInv
<1>2. e \in Nat
  <2>1. consTail \in Int /\ head[p] \in Int
    BY <1>1, ThreadFacts DEF TypeOK, Index
  <2>2. mask + consTail - head[p] \in Int
    BY <2>1, <1>1
  <2> QED
    BY <2>2, WrapType, Constants DEF Index
<1>3. /\ Others(p) /\ UNCHANGED idxVars /\ UNCHANGED ghostVars
      /\ pc[p] = "readTail"
      /\ \/ pc'[p] = "idle"
         \/ /\ pc'[p] = "cas" /\ n'[p] <= e /\ (max[p] >= 1 => n'[p] >= 1)
            /\ head'[p] = head[p] /\ pos'[p] = pos[p] /\ max'[p] = max[p]
  BY <1>1, <1>2, TryEntriesLocal DEF ReadConsTail
<1>4. max[p] >= 1 /\ head[p] = Wrap(pos[p]) /\ consTail = Wrap(gCT)
  BY <1>1, <1>3 DEF RingInv, CallInv, IndexesWrap, ReadingPc
<1>5. e = Wrap(mask + gCT - pos[p])
  <2>0. mask \in Int /\ gCT \in Int /\ pos[p] \in Int
    BY <1>1
  <2>1. Wrap(mask + Wrap(gCT) - Wrap(pos[p])) = Wrap(mask + gCT - pos[p])
    BY <2>0, WrapSub, Zenon
  <2> QED
    BY <1>4, <2>1
<1>6. ASSUME pos[p] = gPH PROVE e = mask + gCT - gPH
  <2>1. mask + gCT - gPH \in 0..mask
    BY <1>1 DEF RingInv, IndexOrder
  <2> QED
    BY <2>1, <1>5, <1>6, WrapSmall
<1>7. CASE pc'[p] = "idle"
  BY <1>1, <1>3, <1>7, LocalStep DEF HoldingPc, ReadingPc
<1>8. CASE /\ pc'[p] = "cas" /\ n'[p] <= e /\ (max[p] >= 1 => n'[p] >= 1)
           /\ head'[p] = head[p] /\ pos'[p] = pos[p] /\ max'[p] = max[p]
  <2>0. n'[p] \in Nat
    BY <1>1 DEF TypeOK
  <2>1. pos'[p] = gPH => gPH + n'[p] <= gCT + mask
    BY <2>0, <1>8, <1>6, <1>2, <1>1
  <2> QED
    BY <1>1, <1>3, <1>4, <1>8, <2>1, LocalStep DEF HoldingPc, ReadingPc
<1> QED
  BY <1>3, <1>7, <1>8

\* The entries a consumer computes are right if its head is not stale.
LEMMA ReadProdTailStep ==
  ASSUME RingInv, TypeOK', NEW c \in Consumers, ReadProdTail(c)
  PROVE  RingInv'
<1> DEFINE e == Wrap(prodTail - head[c])
<1>1. /\ TypeOK /\ c \in Threads /\ c \notin Producers
      /\ pos[c] \in Nat /\ gPT \in Nat /\ gCH \in Nat /\ mask \in Nat
      /\ gCT \in Nat /\ gPH \in Nat
  BY ThreadFacts, Constants DEF RingInv
<1>2. e \in Nat
  <2>1. prodTail \in Int /\ head[c] \in Int
    BY <1>1, ThreadFacts DEF TypeOK, Index
  <2>2. prodTail - head[c] \in Int
    BY <2>1, <1>1
  <2> QED
    BY <2>2, WrapType, Constants DEF Index
<1>3. /\ Others(c) /\ UNCHANGED idxVars /\ UNCHANGED ghostVars
      /\ pc[c] = "readTail"
      /\ \/ pc'[c] = "idle"
         \/ /\ pc'[c] = "cas" /\ n'[c] <= e /\ (max[c] >= 1 => n'[c] >= 1)
            /\ head'[c] = head[c] /\ pos'[c] = pos[c] /\ max'[c] = max[c]
  BY <1>1, <1>2, TryEntriesLocal DEF ReadProdTail
<1>4. max[c] >= 1 /\ head[c] = Wrap(pos[c]) /\ prodTail = Wrap(gPT)
  BY <1>1, <1>3 DEF RingInv, CallInv, IndexesWrap, ReadingPc
<1>5. e = Wrap(gPT - pos[c])
  <2>0. 0 \in Int /\ gPT \in Int /\ pos[c] \in Int
    BY <1>1
  <2>1. Wrap(0 + Wrap(gPT) - Wrap(pos[c])) = Wrap(0 + gPT - pos[c])
    BY <2>0, WrapSub, Zenon
  <2>2. Wrap(gPT) \in Int /\ Wrap(pos[c]) \in Int
    BY <1>1, WrapType DEF Index
  <2>3. 0 + Wrap(gPT) - Wrap(pos[c]) = Wrap(gPT) - Wrap(pos[c]) /\ 0 + gPT - pos[c] = gPT - pos[c]
    BY <2>2, <1>1
  <2> QED
    BY <1>4, <2>1, <2>3
<1>6. ASSUME pos[c] = gCH PROVE e = gPT - gCH
  <2>1. gPT - gCH \in 0..mask
    BY <1>1 DEF RingInv, IndexOrder
  <2> QED
    BY <2>1, <1>5, <1>6, WrapSmall
<1>7. CASE pc'[c] = "idle"
  BY <1>1, <1>3, <1>7, LocalStep DEF HoldingPc, ReadingPc
<1>8. CASE /\ pc'[c] = "cas" /\ n'[c] <= e /\ (max[c] >= 1 => n'[c] >= 1)
           /\ head'[c] = head[c] /\ pos'[c] = pos[c] /\ max'[c] = max[c]
  <2>0. n'[c] \in Nat
    BY <1>1 DEF TypeOK
  <2>1. pos'[c] = gCH => gCH + n'[c] <= gPT
    BY <2>0, <1>8, <1>6, <1>2, <1>1
  <2> QED
    BY <1>1, <1>3, <1>4, <1>8, <2>1, LocalStep DEF HoldingPc, ReadingPc
<1> QED
  BY <1>3, <1>7, <1>8

\* A producer whose compare-and-set succeeds saw the true head, so its room is
\* real and it claims the next n positions.
LEMMA MoveProdHeadStep ==
  ASSUME RingInv, TypeOK', NEW p \in Producers, MoveProdHead(p)
  PROVE  RingInv'
<1>1. TypeOK /\ p \in Threads /\ p \notin Consumers /\ pc[p] = "cas"
  BY ThreadFacts DEF RingInv, MoveProdHead
<1>2. /\ pos[p] \in Nat /\ n[p] \in Nat /\ n[p] >= 1 /\ head[p] = Wrap(pos[p])
      /\ gPH \in Nat /\ gPT \in Nat /\ gCH \in Nat /\ gCT \in Nat /\ mask \in Nat
  BY <1>1, ThreadFacts, Constants DEF RingInv, CallInv, ReadingPc
<1>3. CASE Retry(p) /\ UNCHANGED <<prodHead, gPH>>
  <2>1. UNCHANGED idxVars /\ UNCHANGED ghostVars
    BY <1>3 DEF MoveProdHead, idxVars, ghostVars
  <2>2. Others(p) /\ pc'[p] = "loop" /\ max'[p] = max[p]
    BY <1>1, <1>3, RetryLocal
  <2>3. max'[p] >= 1
    BY <1>1, <2>2 DEF RingInv, CallInv
  <2> QED
    BY <1>1, <2>1, <2>2, <2>3, LocalStep DEF HoldingPc, ReadingPc
<1>4. CASE /\ SpEnqueue \/ prodHead = head[p]
           /\ NoFullWrap(Producers \ {p}, gPH + n[p])
           /\ prodHead' = Wrap(head[p] + n[p])
           /\ gPH' = gPH + n[p]
           /\ pc' = [pc EXCEPT ![p] = "copy"]
           /\ UNCHANGED <<fixed, max, head, avail, n, copied, table, pos>>
  <2>1. SideInv(Producers, SpEnqueue, gPT, gPH, pc, pos, n)
    BY DEF RingInv, ProdSide
  <2>2. pos[p] = gPH
    <3>1. pos[p] <= gPH /\ gPH - pos[p] < IndexMod /\ (SpEnqueue => pos[p] = gPH)
      BY <1>1, <2>1 DEF SideInv, ReadingPc
    <3>2. SpEnqueue \/ Wrap(gPH) = Wrap(pos[p])
      BY <1>2, <1>4 DEF RingInv, IndexesWrap
    <3> QED
      BY <1>2, <3>1, <3>2, WrapInjective
  <2>3. /\ pc'[p] = "copy" /\ \A u \in Threads \ {p} : pc'[u] = pc[u]
        /\ pos' = pos /\ n' = n /\ head' = head /\ max' = max
        /\ consHead' = consHead /\ prodTail' = prodTail /\ consTail' = consTail
        /\ gCH' = gCH /\ gPT' = gPT /\ gCT' = gCT
    BY <1>1, <1>4 DEF MoveProdHead, TypeOK
  <2>4. SideInv(Producers, SpEnqueue, gPT, gPH + n[p], pc', pos, n)
    <3>1. \A u \in Producers : pos[u] \in Nat /\ n[u] \in Nat
      BY <1>1, ThreadFacts
    <3>2. \A u \in Producers \ {p} : pc[u] \in ReadingPc => gPH + n[p] - pos[u] < IndexMod
      <4>1. NoFullWrap(Producers \ {p}, gPH + n[p])
        BY <1>4
      <4> QED
        BY <4>1, <1>2, <3>1 DEF NoFullWrap, ReadingPc
    <3>3. gPT <= gPH /\ SpEnqueue \in BOOLEAN /\ (SpEnqueue => \A u, v \in Producers : u = v)
      BY RteRingAssumption DEF RingInv, IndexOrder
    <3>4. pc[p] \in ReadingPc /\ pc'[p] \in HoldingPc /\ \A u \in Producers \ {p} : pc'[u] = pc[u]
      BY <1>1, <2>3 DEF ReadingPc, HoldingPc, Threads
    <3> QED
      BY <1>2, <2>1, <2>2, <3>1, <3>2, <3>3, <3>4, SideClaim
  <2>5. SideInv(Consumers, ScDequeue, gCT, gCH, pc', pos, n)
    <3>1. SideInv(Consumers, ScDequeue, gCT, gCH, pc, pos, n)
      BY DEF RingInv, ConsSide
    <3>2. \A u \in Consumers : pc'[u] = pc[u]
      BY <1>1, <2>3 DEF Threads
    <3> QED
      BY <3>1, <3>2, SideFrame
  <2>6. ProdSide' /\ ConsSide'
    BY <1>4, <2>3, <2>4, <2>5 DEF ProdSide, ConsSide
  <2>7. CallInv'
    BY <1>1, <1>2, <2>3 DEF RingInv, CallInv, ReadingPc, HoldingPc
  <2>8. IndexesWrap'
    <3>1. pos[p] \in Int /\ n[p] \in Int
      BY <1>2
    <3>2. Wrap(Wrap(pos[p]) + n[p]) = Wrap(pos[p] + n[p])
      BY <3>1, WrapAdd, Zenon
    <3>3. prodHead' = Wrap(gPH')
      BY <1>2, <1>4, <2>2, <3>2
    <3> QED
      BY <2>3, <3>3 DEF RingInv, IndexesWrap
  <2>9. IndexOrder'
    <3>1. gPH + n[p] <= gCT + mask
      BY <1>1, <2>2 DEF RingInv, RoomInv
    <3> QED
      BY <1>2, <1>4, <2>3, <3>1 DEF RingInv, IndexOrder
  <2>10. RoomInv'
    <3> SUFFICES ASSUME NEW u \in Producers, pc'[u] = "cas", pos'[u] = gPH' PROVE FALSE
      BY DEF RoomInv
    <3>1. u # p /\ pc[u] = "cas" /\ pos[u] = gPH + n[p]
      BY <1>4, <2>3 DEF Threads
    <3>2. pos[u] <= gPH
      BY <2>1, <3>1 DEF SideInv, ReadingPc
    <3> QED
      BY <1>2, <3>1, <3>2
  <2>11. StockInv'
    BY <1>1, <2>3 DEF RingInv, StockInv, Threads
  <2> QED
    BY <2>6, <2>7, <2>8, <2>9, <2>10, <2>11 DEF RingInv
<1> QED
  BY <1>3, <1>4 DEF MoveProdHead

\* A producer that gets to store the tail holds the claim that begins there.
LEMMA PublishesAtTail ==
  ASSUME RingInv, NEW p \in Producers, PublishProd(p)
  PROVE  pos[p] = gPT /\ pos[p] + n[p] <= gPH
<1>1. TypeOK /\ p \in Threads /\ p \notin Consumers /\ pc[p] = "wait"
  BY ThreadFacts DEF RingInv, PublishProd
<1>2. /\ pos[p] \in Nat /\ n[p] \in Nat /\ head[p] = Wrap(pos[p])
      /\ gPH \in Nat /\ gPT \in Nat /\ gCH \in Nat /\ gCT \in Nat /\ mask \in Nat
  BY <1>1, ThreadFacts, Constants DEF RingInv, CallInv, HoldingPc
<1>3. SideInv(Producers, SpEnqueue, gPT, gPH, pc, pos, n)
  BY DEF RingInv, ProdSide
<1>4. /\ gPT <= pos[p] /\ pos[p] + n[p] <= gPH
      /\ SpEnqueue => pos[p] = gPT
  BY <1>1, <1>3 DEF SideInv, HoldingPc
<1>5. SpEnqueue \/ Wrap(pos[p]) = Wrap(gPT)
  BY <1>2 DEF PublishProd, RingInv, IndexesWrap
<1>6. pos[p] - gPT <= mask
  BY <1>2, <1>4 DEF RingInv, IndexOrder
<1>7. pos[p] - gPT < IndexMod
  BY <1>2, <1>6, Constants
<1> QED
  BY <1>2, <1>4, <1>5, <1>7, WrapInjective

\* A producer that publishes has the oldest claim: it starts at the tail.
LEMMA PublishProdStep ==
  ASSUME RingInv, TypeOK', NEW p \in Producers, PublishProd(p)
  PROVE  RingInv'
<1>1. TypeOK /\ p \in Threads /\ p \notin Consumers /\ pc[p] = "wait"
  BY ThreadFacts DEF RingInv, PublishProd
<1>2. /\ pos[p] \in Nat /\ n[p] \in Nat /\ head[p] = Wrap(pos[p])
      /\ gPH \in Nat /\ gPT \in Nat /\ gCH \in Nat /\ gCT \in Nat /\ mask \in Nat
  BY <1>1, ThreadFacts, Constants DEF RingInv, CallInv, HoldingPc
<1>3. /\ Others(p) /\ pc'[p] = "idle"
      /\ prodHead' = prodHead /\ consHead' = consHead /\ consTail' = consTail
      /\ gPH' = gPH /\ gCH' = gCH /\ gCT' = gCT
  BY <1>1, ReturnLocal DEF PublishProd
<1>4. SideInv(Producers, SpEnqueue, gPT, gPH, pc, pos, n)
  BY DEF RingInv, ProdSide
<1>5. pos[p] = gPT /\ pos[p] + n[p] <= gPH
  BY PublishesAtTail
<1>6. gPT' = gPT + n[p] /\ prodTail' = Wrap(head[p] + n[p])
  BY <1>5 DEF PublishProd
<1>7. SideInv(Producers, SpEnqueue, gPT + n[p], gPH, pc', pos', n')
  <2>1. \A u \in Producers : pos[u] \in Nat /\ n[u] \in Nat
    BY <1>1, ThreadFacts
  <2>2. SpEnqueue \in BOOLEAN /\ (SpEnqueue => \A u, v \in Producers : u = v)
    BY RteRingAssumption
  <2>3. /\ pc[p] \in HoldingPc /\ pc'[p] \notin HoldingPc /\ pc'[p] \notin ReadingPc
        /\ \A u \in Producers \ {p} : pc'[u] = pc[u] /\ pos'[u] = pos[u] /\ n'[u] = n[u]
    BY <1>1, <1>3 DEF Others, Threads, HoldingPc, ReadingPc
  <2> QED
    BY <1>2, <1>4, <1>5, <2>1, <2>2, <2>3, SidePublish
<1>8. SideInv(Consumers, ScDequeue, gCT, gCH, pc', pos', n')
  <2>1. SideInv(Consumers, ScDequeue, gCT, gCH, pc, pos, n)
    BY DEF RingInv, ConsSide
  <2>2. \A u \in Consumers : pc'[u] = pc[u] /\ pos'[u] = pos[u] /\ n'[u] = n[u]
    BY <1>1, <1>3 DEF Others, Threads
  <2> QED
    BY <2>1, <2>2, SideFrame
<1>9. ProdSide' /\ ConsSide'
  BY <1>3, <1>6, <1>7, <1>8 DEF ProdSide, ConsSide
<1>10. CallInv'
  BY <1>3 DEF RingInv, CallInv, Others, ReadingPc, HoldingPc
<1>11. IndexesWrap'
  <2>1. pos[p] \in Int /\ n[p] \in Int
    BY <1>2
  <2>2. Wrap(Wrap(pos[p]) + n[p]) = Wrap(pos[p] + n[p])
    BY <2>1, WrapAdd, Zenon
  <2>3. prodTail' = Wrap(gPT')
    BY <1>2, <1>5, <1>6, <2>2
  <2> QED
    BY <1>3, <2>3 DEF RingInv, IndexesWrap
<1>12. IndexOrder'
  BY <1>2, <1>3, <1>5, <1>6 DEF RingInv, IndexOrder
<1>13. RoomInv'
  BY <1>1, <1>2, <1>3, <1>6 DEF RingInv, RoomInv, Others, Threads
<1>14. StockInv'
  <2> SUFFICES ASSUME NEW u \in Consumers, pc'[u] = "cas", pos'[u] = gCH'
               PROVE  gCH' + n'[u] <= gPT'
    BY DEF StockInv
  <2>1. pc[u] = "cas" /\ pos[u] = gCH /\ n'[u] = n[u] /\ u \in Threads
    BY <1>1, <1>3 DEF Others, Threads
  <2>2. gCH + n[u] <= gPT
    BY <2>1 DEF RingInv, StockInv
  <2>3. n[u] \in Nat
    BY <1>1, <2>1, ThreadFacts
  <2> QED
    BY <1>2, <1>3, <1>6, <2>1, <2>2, <2>3
<1> QED
  BY <1>9, <1>10, <1>11, <1>12, <1>13, <1>14 DEF RingInv

\* The same for a consumer and the objects it saw published.
LEMMA MoveConsHeadStep ==
  ASSUME RingInv, TypeOK', NEW c \in Consumers, MoveConsHead(c)
  PROVE  RingInv'
<1>1. TypeOK /\ c \in Threads /\ c \notin Producers /\ pc[c] = "cas"
  BY ThreadFacts DEF RingInv, MoveConsHead
<1>2. /\ pos[c] \in Nat /\ n[c] \in Nat /\ n[c] >= 1 /\ head[c] = Wrap(pos[c])
      /\ gPH \in Nat /\ gPT \in Nat /\ gCH \in Nat /\ gCT \in Nat /\ mask \in Nat
  BY <1>1, ThreadFacts, Constants DEF RingInv, CallInv, ReadingPc
<1>3. CASE Retry(c) /\ UNCHANGED <<consHead, gCH>>
  <2>1. UNCHANGED idxVars /\ UNCHANGED ghostVars
    BY <1>3 DEF MoveConsHead, idxVars, ghostVars
  <2>2. Others(c) /\ pc'[c] = "loop" /\ max'[c] = max[c]
    BY <1>1, <1>3, RetryLocal
  <2>3. max'[c] >= 1
    BY <1>1, <2>2 DEF RingInv, CallInv
  <2> QED
    BY <1>1, <2>1, <2>2, <2>3, LocalStep DEF HoldingPc, ReadingPc
<1>4. CASE /\ ScDequeue \/ consHead = head[c]
           /\ NoFullWrap(Consumers \ {c}, gCH + n[c])
           /\ consHead' = Wrap(head[c] + n[c])
           /\ gCH' = gCH + n[c]
           /\ pc' = [pc EXCEPT ![c] = "copy"]
           /\ UNCHANGED <<fixed, max, head, avail, n, copied, table, pos>>
  <2>1. SideInv(Consumers, ScDequeue, gCT, gCH, pc, pos, n)
    BY DEF RingInv, ConsSide
  <2>2. pos[c] = gCH
    <3>1. pos[c] <= gCH /\ gCH - pos[c] < IndexMod /\ (ScDequeue => pos[c] = gCH)
      BY <1>1, <2>1 DEF SideInv, ReadingPc
    <3>2. ScDequeue \/ Wrap(gCH) = Wrap(pos[c])
      BY <1>2, <1>4 DEF RingInv, IndexesWrap
    <3> QED
      BY <1>2, <3>1, <3>2, WrapInjective
  <2>3. /\ pc'[c] = "copy" /\ \A u \in Threads \ {c} : pc'[u] = pc[u]
        /\ pos' = pos /\ n' = n /\ head' = head /\ max' = max
        /\ prodHead' = prodHead /\ prodTail' = prodTail /\ consTail' = consTail
        /\ gPH' = gPH /\ gPT' = gPT /\ gCT' = gCT
    BY <1>1, <1>4 DEF MoveConsHead, TypeOK
  <2>4. SideInv(Consumers, ScDequeue, gCT, gCH + n[c], pc', pos, n)
    <3>1. \A u \in Consumers : pos[u] \in Nat /\ n[u] \in Nat
      BY <1>1, ThreadFacts
    <3>2. \A u \in Consumers \ {c} : pc[u] \in ReadingPc => gCH + n[c] - pos[u] < IndexMod
      <4>1. NoFullWrap(Consumers \ {c}, gCH + n[c])
        BY <1>4
      <4> QED
        BY <4>1, <1>2, <3>1 DEF NoFullWrap, ReadingPc
    <3>3. gCT <= gCH /\ ScDequeue \in BOOLEAN /\ (ScDequeue => \A u, v \in Consumers : u = v)
      BY RteRingAssumption DEF RingInv, IndexOrder
    <3>4. pc[c] \in ReadingPc /\ pc'[c] \in HoldingPc /\ \A u \in Consumers \ {c} : pc'[u] = pc[u]
      BY <1>1, <2>3 DEF ReadingPc, HoldingPc, Threads
    <3> QED
      BY <1>2, <2>1, <2>2, <3>1, <3>2, <3>3, <3>4, SideClaim
  <2>5. SideInv(Producers, SpEnqueue, gPT, gPH, pc', pos, n)
    <3>1. SideInv(Producers, SpEnqueue, gPT, gPH, pc, pos, n)
      BY DEF RingInv, ProdSide
    <3>2. \A u \in Producers : pc'[u] = pc[u]
      BY <1>1, <2>3 DEF Threads
    <3> QED
      BY <3>1, <3>2, SideFrame
  <2>6. ProdSide' /\ ConsSide'
    BY <1>4, <2>3, <2>4, <2>5 DEF ProdSide, ConsSide
  <2>7. CallInv'
    BY <1>1, <1>2, <2>3 DEF RingInv, CallInv, ReadingPc, HoldingPc
  <2>8. IndexesWrap'
    <3>1. pos[c] \in Int /\ n[c] \in Int
      BY <1>2
    <3>2. Wrap(Wrap(pos[c]) + n[c]) = Wrap(pos[c] + n[c])
      BY <3>1, WrapAdd, Zenon
    <3>3. consHead' = Wrap(gCH')
      BY <1>2, <1>4, <2>2, <3>2
    <3> QED
      BY <2>3, <3>3 DEF RingInv, IndexesWrap
  <2>9. IndexOrder'
    <3>1. gCH + n[c] <= gPT
      BY <1>1, <2>2 DEF RingInv, StockInv
    <3> QED
      BY <1>2, <1>4, <2>3, <3>1 DEF RingInv, IndexOrder
  <2>10. StockInv'
    <3> SUFFICES ASSUME NEW u \in Consumers, pc'[u] = "cas", pos'[u] = gCH' PROVE FALSE
      BY DEF StockInv
    <3>1. u # c /\ pc[u] = "cas" /\ pos[u] = gCH + n[c]
      BY <1>4, <2>3 DEF Threads
    <3>2. pos[u] <= gCH
      BY <2>1, <3>1 DEF SideInv, ReadingPc
    <3> QED
      BY <1>2, <3>1, <3>2
  <2>11. RoomInv'
    BY <1>1, <2>3 DEF RingInv, RoomInv, Threads
  <2> QED
    BY <2>6, <2>7, <2>8, <2>9, <2>10, <2>11 DEF RingInv
<1> QED
  BY <1>3, <1>4 DEF MoveConsHead

\* A consumer that gets to store the tail holds the claim that begins there.
LEMMA ReleasesAtTail ==
  ASSUME RingInv, NEW c \in Consumers, PublishCons(c)
  PROVE  pos[c] = gCT /\ pos[c] + n[c] <= gCH
<1>1. TypeOK /\ c \in Threads /\ c \notin Producers /\ pc[c] = "wait"
  BY ThreadFacts DEF RingInv, PublishCons
<1>2. /\ pos[c] \in Nat /\ n[c] \in Nat /\ head[c] = Wrap(pos[c])
      /\ gPH \in Nat /\ gPT \in Nat /\ gCH \in Nat /\ gCT \in Nat /\ mask \in Nat
  BY <1>1, ThreadFacts, Constants DEF RingInv, CallInv, HoldingPc
<1>3. SideInv(Consumers, ScDequeue, gCT, gCH, pc, pos, n)
  BY DEF RingInv, ConsSide
<1>4. /\ gCT <= pos[c] /\ pos[c] + n[c] <= gCH
      /\ ScDequeue => pos[c] = gCT
  BY <1>1, <1>3 DEF SideInv, HoldingPc
<1>5. ScDequeue \/ Wrap(pos[c]) = Wrap(gCT)
  BY <1>2 DEF PublishCons, RingInv, IndexesWrap
<1>6. pos[c] - gCT <= mask
  BY <1>2, <1>4 DEF RingInv, IndexOrder
<1>7. pos[c] - gCT < IndexMod
  BY <1>2, <1>6, Constants
<1> QED
  BY <1>2, <1>4, <1>5, <1>7, WrapInjective

\* The same for a consumer that gives its slots back.
LEMMA PublishConsStep ==
  ASSUME RingInv, TypeOK', NEW c \in Consumers, PublishCons(c)
  PROVE  RingInv'
<1>1. TypeOK /\ c \in Threads /\ c \notin Producers /\ pc[c] = "wait"
  BY ThreadFacts DEF RingInv, PublishCons
<1>2. /\ pos[c] \in Nat /\ n[c] \in Nat /\ head[c] = Wrap(pos[c])
      /\ gPH \in Nat /\ gPT \in Nat /\ gCH \in Nat /\ gCT \in Nat /\ mask \in Nat
  BY <1>1, ThreadFacts, Constants DEF RingInv, CallInv, HoldingPc
<1>3. /\ Others(c) /\ pc'[c] = "idle"
      /\ prodHead' = prodHead /\ consHead' = consHead /\ prodTail' = prodTail
      /\ gPH' = gPH /\ gCH' = gCH /\ gPT' = gPT
  BY <1>1, ReturnLocal DEF PublishCons
<1>4. SideInv(Consumers, ScDequeue, gCT, gCH, pc, pos, n)
  BY DEF RingInv, ConsSide
<1>5. pos[c] = gCT /\ pos[c] + n[c] <= gCH
  BY ReleasesAtTail
<1>6. gCT' = gCT + n[c] /\ consTail' = Wrap(head[c] + n[c])
  BY <1>5 DEF PublishCons
<1>7. SideInv(Consumers, ScDequeue, gCT + n[c], gCH, pc', pos', n')
  <2>1. \A u \in Consumers : pos[u] \in Nat /\ n[u] \in Nat
    BY <1>1, ThreadFacts
  <2>2. ScDequeue \in BOOLEAN /\ (ScDequeue => \A u, v \in Consumers : u = v)
    BY RteRingAssumption
  <2>3. /\ pc[c] \in HoldingPc /\ pc'[c] \notin HoldingPc /\ pc'[c] \notin ReadingPc
        /\ \A u \in Consumers \ {c} : pc'[u] = pc[u] /\ pos'[u] = pos[u] /\ n'[u] = n[u]
    BY <1>1, <1>3 DEF Others, Threads, HoldingPc, ReadingPc
  <2> QED
    BY <1>2, <1>4, <1>5, <2>1, <2>2, <2>3, SidePublish
<1>8. SideInv(Producers, SpEnqueue, gPT, gPH, pc', pos', n')
  <2>1. SideInv(Producers, SpEnqueue, gPT, gPH, pc, pos, n)
    BY DEF RingInv, ProdSide
  <2>2. \A u \in Producers : pc'[u] = pc[u] /\ pos'[u] = pos[u] /\ n'[u] = n[u]
    BY <1>1, <1>3 DEF Others, Threads
  <2> QED
    BY <2>1, <2>2, SideFrame
<1>9. ProdSide' /\ ConsSide'
  BY <1>3, <1>6, <1>7, <1>8 DEF ProdSide, ConsSide
<1>10. CallInv'
  BY <1>3 DEF RingInv, CallInv, Others, ReadingPc, HoldingPc
<1>11. IndexesWrap'
  <2>1. pos[c] \in Int /\ n[c] \in Int
    BY <1>2
  <2>2. Wrap(Wrap(pos[c]) + n[c]) = Wrap(pos[c] + n[c])
    BY <2>1, WrapAdd, Zenon
  <2>3. consTail' = Wrap(gCT')
    BY <1>2, <1>5, <1>6, <2>2
  <2> QED
    BY <1>3, <2>3 DEF RingInv, IndexesWrap
<1>12. IndexOrder'
  BY <1>2, <1>3, <1>5, <1>6 DEF RingInv, IndexOrder
<1>13. StockInv'
  BY <1>1, <1>2, <1>3, <1>6 DEF RingInv, StockInv, Others, Threads
<1>14. RoomInv'
  <2> SUFFICES ASSUME NEW u \in Producers, pc'[u] = "cas", pos'[u] = gPH'
               PROVE  gPH' + n'[u] <= gCT' + mask
    BY DEF RoomInv
  <2>1. pc[u] = "cas" /\ pos[u] = gPH /\ n'[u] = n[u] /\ u \in Threads
    BY <1>1, <1>3 DEF Others, Threads
  <2>2. gPH + n[u] <= gCT + mask
    BY <2>1 DEF RingInv, RoomInv
  <2>3. n[u] \in Nat
    BY <1>1, <2>1, ThreadFacts
  <2> QED
    BY <1>2, <1>3, <1>6, <2>1, <2>2, <2>3
<1> QED
  BY <1>9, <1>10, <1>11, <1>12, <1>13, <1>14 DEF RingInv

\* ENQUEUE_PTRS and DEQUEUE_PTRS keep the invariant.
LEMMA CopyActions ==
  ASSUME RingInv, TypeOK', NEW t \in Threads, WriteEntry(t) \/ ReadEntry(t)
  PROVE  RingInv'
<1>0. TypeOK /\ t \in Threads
  BY DEF RingInv
<1>1. pc[t] = "copy" /\ UNCHANGED <<pos, n, head, max, idxVars, ghostVars>>
  BY DEF WriteEntry, ReadEntry
<1>2. pc' = [pc EXCEPT ![t] = IF copied[t] + 1 = n[t] THEN "wait" ELSE "copy"]
  BY DEF WriteEntry, ReadEntry
<1>3. pc'[t] \in HoldingPc /\ \A u \in Threads \ {t} : pc'[u] = pc[u]
  BY <1>0, <1>2 DEF TypeOK, HoldingPc
<1> QED
  BY <1>1, <1>3, CopyStep

\* Every step of the ring keeps the invariant.
LEMMA NextRing == RingInv /\ [Next]_vars => RingInv'
<1> SUFFICES ASSUME RingInv, [Next]_vars PROVE RingInv'
  OBVIOUS
<1>0. TypeOK /\ TypeOK' /\ Producers \subseteq Threads /\ Consumers \subseteq Threads
  BY NextType, ThreadFacts DEF RingInv
<1>1. ASSUME NEW p \in Producers, Enqueue(p) PROVE RingInv'
  BY <1>0, <1>1, ReadProdHeadStep, ReadConsTailStep, MoveProdHeadStep, CopyActions,
     PublishProdStep DEF Enqueue
<1>2. ASSUME NEW c \in Consumers, Dequeue(c) PROVE RingInv'
  BY <1>0, <1>2, ReadConsHeadStep, ReadProdTailStep, MoveConsHeadStep, CopyActions,
     PublishConsStep DEF Dequeue
<1>3. ASSUME UNCHANGED <<idxVars, ghostVars, callVars>> PROVE RingInv'
  <2>1. /\ prodHead' = prodHead /\ prodTail' = prodTail
        /\ consHead' = consHead /\ consTail' = consTail
        /\ gPH' = gPH /\ gPT' = gPT /\ gCH' = gCH /\ gCT' = gCT
        /\ pc' = pc /\ pos' = pos /\ n' = n /\ head' = head /\ max' = max
    BY <1>3 DEF idxVars, ghostVars, callVars
  <2>2. ProdSide' /\ ConsSide'
    BY <2>1 DEF RingInv, ProdSide, ConsSide
  <2>3. IndexesWrap' /\ IndexOrder' /\ CallInv' /\ RoomInv' /\ StockInv'
    BY <2>1 DEF RingInv, IndexesWrap, IndexOrder, CallInv, RoomInv, StockInv
  <2> QED
    BY <1>0, <2>2, <2>3 DEF RingInv
<1>4. ASSUME NEW mark \in Watermarks, SetWaterMark(mark) PROVE RingInv'
  BY <1>3, <1>4 DEF SetWaterMark
<1>5. CASE UNCHANGED vars
  BY <1>3, <1>5 DEF vars
<1> QED
  BY <1>1, <1>2, <1>4, <1>5 DEF Next

\* The indexes, the claims and the room every call computed stay consistent
\* in every interleaving: the invariant the other theorems follow from.
THEOREM RingInvariant == Spec => []RingInv
  BY InitRing, NextRing, PTL DEF Spec

\* The four indexes never overtake each other and at most count-1 slots are
\* in use, whatever was stale when a head was moved: rte_ring.h:457 and 640
\* compute the room from values other threads may have changed since.
THEOREM IndexesOrdered == Spec => []IndexOrder
<1>1. RingInv => IndexOrder
  BY DEF RingInv
<1> QED
  BY <1>1, RingInvariant, PTL

\* The indexes of the code are the positions modulo their width.
THEOREM IndexesAreWrapped == Spec => []IndexesWrap
<1>1. RingInv => IndexesWrap
  BY DEF RingInv
<1> QED
  BY <1>1, RingInvariant, PTL

\* Two claims are different stretches of the ring's whole life, less than
\* Size apart.
LEMMA ClaimsApart ==
  ASSUME RingInv, NEW t \in Threads, NEW u \in Threads, t # u,
         pc[t] \in HoldingPc, pc[u] \in HoldingPc
  PROVE  /\ pos[t] + n[t] <= pos[u] \/ pos[u] + n[u] <= pos[t]
         /\ gCT <= pos[t] /\ pos[t] + n[t] <= gPH
<1>1. TypeOK
  BY DEF RingInv
<1>2. /\ gPH \in Nat /\ gPT \in Nat /\ gCH \in Nat /\ gCT \in Nat
      /\ \A v \in Threads : pos[v] \in Nat /\ n[v] \in Nat
      /\ gCT <= gCH /\ gCH <= gPT /\ gPT <= gPH
  BY <1>1, ThreadFacts DEF RingInv, IndexOrder
<1>3. /\ \A v \in Producers : pc[v] \in HoldingPc => gPT <= pos[v] /\ pos[v] + n[v] <= gPH
      /\ \A v, w \in Producers :
           v # w /\ pc[v] \in HoldingPc /\ pc[w] \in HoldingPc
             => pos[v] + n[v] <= pos[w] \/ pos[w] + n[w] <= pos[v]
  BY DEF RingInv, ProdSide, SideInv
<1>4. /\ \A v \in Consumers : pc[v] \in HoldingPc => gCT <= pos[v] /\ pos[v] + n[v] <= gCH
      /\ \A v, w \in Consumers :
           v # w /\ pc[v] \in HoldingPc /\ pc[w] \in HoldingPc
             => pos[v] + n[v] <= pos[w] \/ pos[w] + n[w] <= pos[v]
  BY DEF RingInv, ConsSide, SideInv
<1>5. CASE t \in Producers /\ u \in Producers
  BY <1>2, <1>3, <1>5
<1>6. CASE t \in Consumers /\ u \in Consumers
  BY <1>2, <1>4, <1>6
<1>7. CASE t \in Producers /\ u \in Consumers
  BY <1>2, <1>3, <1>4, <1>7
<1>8. CASE t \in Consumers /\ u \in Producers
  BY <1>2, <1>3, <1>4, <1>8
<1> QED
  BY <1>5, <1>6, <1>7, <1>8 DEF Threads

\* Under the invariant the claims of two calls address different slots.
LEMMA ExclusiveSlots == RingInv => SlotsExclusive
<1> SUFFICES ASSUME RingInv, NEW t \in Threads, NEW u \in Threads, t # u,
                    NEW i \in Claimed(t), NEW j \in Claimed(u), Slot(i) = Slot(j)
             PROVE  FALSE
  BY DEF SlotsExclusive
<1>1. /\ pc[t] \in HoldingPc /\ i \in (pos[t] + 1)..(pos[t] + n[t])
      /\ pc[u] \in HoldingPc /\ j \in (pos[u] + 1)..(pos[u] + n[u])
  BY DEF Claimed, HoldingPc
<1>2. /\ pos[t] \in Nat /\ n[t] \in Nat /\ pos[u] \in Nat /\ n[u] \in Nat
      /\ gPH \in Nat /\ gCT \in Nat
  BY ThreadFacts DEF RingInv
<1>3. /\ pos[t] + n[t] <= pos[u] \/ pos[u] + n[u] <= pos[t]
      /\ gCT <= pos[t] /\ pos[t] + n[t] <= gPH
      /\ gCT <= pos[u] /\ pos[u] + n[u] <= gPH
  BY <1>1, ClaimsApart
<1>4. gPH - gCT < Size
  BY <1>2, Constants DEF RingInv, IndexOrder
<1>5. i \in Int /\ j \in Int /\ i # j /\ i - j < Size /\ j - i < Size
  BY <1>1, <1>2, <1>3, <1>4, Constants
<1>6. i % Size = j % Size /\ Size \in Nat \ {0}
  BY Constants DEF Slot
<1>7. CASE j <= i
  BY <1>5, <1>6, <1>7, ModInjective
<1>8. CASE i <= j
  BY <1>5, <1>6, <1>8, ModInjective
<1> QED
  BY <1>5, <1>7, <1>8

\* No slot of the table is ever in the hands of two calls: ENQUEUE_PTRS and
\* DEQUEUE_PTRS of different threads never touch the same slot.
THEOREM SlotsNeverShared == Spec => []SlotsExclusive
  BY RingInvariant, ExclusiveSlots, PTL

------------------------------------------------------------------------------
(* The objects.  A call copies its n objects one by one; what it counts as *)
(* room is never more than there is; every slot between the consumers'     *)
(* tail and the producers' tail, and every slot a producer has written     *)
(* since it claimed it, holds the object of its position; and what a       *)
(* consumer has copied out are the objects it claimed, in order.           *)

CopyInv ==
    \A t \in Threads :
        /\ pc[t] \notin HoldingPc => copied[t] = 0 /\ table[t] = <<>>
        /\ pc[t] = "copy" => copied[t] < n[t]
        /\ pc[t] = "wait" => copied[t] = n[t]

QuotaInv ==
    \A p \in Producers :
        pc[p] \in {"cas"} \cup HoldingPc => pos[p] + avail[p] <= gCT + mask

WrittenInv ==
    /\ \A k \in gCT..(gPT - 1) : ring[Slot(k)] = k + 1
    /\ \A p \in Producers : pc[p] \in HoldingPc =>
          \A k \in pos[p]..(pos[p] + copied[p] - 1) : ring[Slot(k)] = k + 1

TableInv ==
    \A c \in Consumers : pc[c] \in HoldingPc =>
        /\ Len(table[c]) = copied[c]
        /\ \A i \in 1..copied[c] : table[c][i] = pos[c] + i

ObjInv == RingInv /\ CopyInv /\ QuotaInv /\ WrittenInv /\ TableInv

\* Every thread but t keeps its locals.
Rest(t) ==
    \A u \in Threads \ {t} :
        /\ pc'[u] = pc[u] /\ pos'[u] = pos[u] /\ n'[u] = n[u] /\ avail'[u] = avail[u]
        /\ copied'[u] = copied[u] /\ table'[u] = table[u]

\* More types of what belongs to one thread.
LEMMA ObjFacts ==
  ASSUME TypeOK
  PROVE  \A t \in Threads : /\ copied[t] \in Nat /\ avail[t] \in Nat
                            /\ table[t] \in Seq(Nat)
  BY Constants DEF TypeOK, Index

\* The table is addressed through a wrapped index exactly as through the
\* position: the width of the indexes is a multiple of the size.
LEMMA SlotOfWrap ==
  ASSUME NEW x \in Int, NEW k \in Int
  PROVE  Slot(Wrap(x) + k) = Slot(x + k)
<1> DEFINE q == x \div IndexMod
           r == x % IndexMod
           m == IndexMod \div Size
<1>1. q \in Int /\ r \in Int /\ x = IndexMod * q + r
  BY DivMod, Constants
<1>2. m \in Int /\ IndexMod = Size * m + (IndexMod % Size)
  <2>1. IndexMod \in Int /\ Size \in Nat \ {0}
    BY Constants
  <2> QED
    BY <2>1, DivMod
<1>3. IndexMod % Size = 0
  BY RteRingAssumption
<1> HIDE DEF q, r, m
<1>4. IndexMod = Size * m /\ Size \in Int
  BY <1>2, <1>3, Constants
<1>5. IndexMod * q = Size * (m * q) /\ m * q \in Int
  BY <1>1, <1>2, <1>4
<1>6. Size * (m * q) \in Int
  BY <1>4, <1>5
<1>7. x + k = (r + k) + Size * (m * q) /\ r + k \in Int
  BY <1>1, <1>5, <1>6
<1>8. \A a \in Int : (a + Size * (m * q)) % Size = a % Size
  BY <1>5, ModShift, Constants
<1>9. ((r + k) + Size * (m * q)) % Size = (r + k) % Size
  BY <1>7, <1>8, Zenon
<1>10. (x + k) % Size = (r + k) % Size
  BY <1>7, <1>9, Zenon
<1> QED
  BY <1>10 DEF Slot, Wrap, r

\* A slot is a place in the table.
LEMMA SlotType == \A x \in Int : Slot(x) \in 0..mask
  BY Constants, DivMod DEF Slot

\* Different positions less than Size apart have different slots.
LEMMA SlotsDiffer ==
  ASSUME NEW x \in Int, NEW y \in Int, x # y, x - y < Size, y - x < Size
  PROVE  Slot(x) # Slot(y)
<1>1. CASE y <= x
  BY <1>1, ModInjective, Constants DEF Slot
<1>2. CASE x <= y
  BY <1>2, ModInjective, Constants DEF Slot
<1> QED
  BY <1>1, <1>2

\* A new ring has no objects and no calls.
LEMMA InitObj == Init => ObjInv
<1> SUFFICES ASSUME Init PROVE ObjInv
  OBVIOUS
<1>1. \A t \in Threads : pc[t] = "idle" /\ copied[t] = 0 /\ table[t] = <<>>
  BY DEF Init
<1>2. CopyInv
  BY <1>1 DEF CopyInv, HoldingPc
<1>3. QuotaInv /\ TableInv
  BY <1>1 DEF QuotaInv, TableInv, HoldingPc, Threads
<1>4. WrittenInv
  BY <1>1 DEF WrittenInv, HoldingPc, Threads, Init
<1> QED
  BY <1>2, <1>3, <1>4, InitRing DEF ObjInv

\* A step of a thread that holds no claim before or after it.
LEMMA ObjLocal ==
  ASSUME ObjInv, RingInv', NEW t \in Threads, Rest(t), ring' = ring,
         gPT' = gPT, gCT' = gCT, pc[t] \notin HoldingPc, pc'[t] \notin HoldingPc,
         copied'[t] = 0, table'[t] = <<>>,
         t \in Producers /\ pc'[t] = "cas" => pos'[t] + avail'[t] <= gCT + mask
  PROVE  ObjInv'
<1>1. CopyInv'
  <2> SUFFICES ASSUME NEW u \in Threads
               PROVE /\ pc'[u] \notin HoldingPc => copied'[u] = 0 /\ table'[u] = <<>>
                     /\ pc'[u] = "copy" => copied'[u] < n'[u]
                     /\ pc'[u] = "wait" => copied'[u] = n'[u]
    BY DEF CopyInv
  <2>1. CASE u = t
    BY <2>1 DEF HoldingPc
  <2>2. CASE u # t
    BY <2>2 DEF ObjInv, CopyInv, Rest
  <2> QED
    BY <2>1, <2>2
<1>2. QuotaInv'
  BY DEF ObjInv, QuotaInv, Rest, Threads
<1>3. WrittenInv'
  BY DEF ObjInv, WrittenInv, Rest, Threads
<1>4. TableInv'
  BY DEF ObjInv, TableInv, Rest, Threads
<1> QED
  BY <1>1, <1>2, <1>3, <1>4 DEF ObjInv

\* A thread whose compare-and-set succeeds starts to copy.
LEMMA ObjClaim ==
  ASSUME ObjInv, RingInv', NEW t \in Threads, pc[t] = "cas",
         pc' = [pc EXCEPT ![t] = "copy"], ring' = ring, gPT' = gPT, gCT' = gCT,
         UNCHANGED <<pos, n, avail, copied, table>>
  PROVE  ObjInv'
<1>1. /\ TypeOK /\ n[t] >= 1 /\ n[t] \in Nat /\ copied[t] = 0 /\ table[t] = <<>>
  BY ThreadFacts DEF ObjInv, RingInv, CallInv, CopyInv, HoldingPc
<1>2. /\ pos' = pos /\ n' = n /\ avail' = avail /\ copied' = copied /\ table' = table
      /\ pc'[t] = "copy" /\ \A u \in Threads \ {t} : pc'[u] = pc[u]
  BY <1>1 DEF TypeOK
<1>3. CopyInv'
  BY <1>1, <1>2 DEF ObjInv, CopyInv, HoldingPc
<1>4. QuotaInv'
  BY <1>2 DEF ObjInv, QuotaInv, HoldingPc, Threads
<1>5. WrittenInv'
  <2>1. \A k \in gCT..(gPT - 1) : ring[Slot(k)] = k + 1
    BY DEF ObjInv, WrittenInv
  <2>2. ASSUME NEW p \in Producers, pc'[p] \in HoldingPc
        PROVE  \A k \in pos[p]..(pos[p] + copied[p] - 1) : ring[Slot(k)] = k + 1
    <3>1. CASE p = t
      BY <1>1, <3>1, ThreadFacts
    <3>2. CASE p # t
      BY <1>2, <2>2, <3>2 DEF ObjInv, WrittenInv, Threads
    <3> QED
      BY <3>1, <3>2
  <2> QED
    BY <1>2, <2>1, <2>2 DEF WrittenInv
<1>6. TableInv'
  <2> SUFFICES ASSUME NEW c \in Consumers, pc'[c] \in HoldingPc
               PROVE  /\ Len(table[c]) = copied[c]
                      /\ \A i \in 1..copied[c] : table[c][i] = pos[c] + i
    BY <1>2 DEF TableInv
  <2>1. CASE c = t
    BY <1>1, <2>1
  <2>2. CASE c # t
    BY <1>2, <2>2 DEF ObjInv, TableInv, Threads
  <2> QED
    BY <2>1, <2>2
<1> QED
  BY <1>3, <1>4, <1>5, <1>6 DEF ObjInv

\* Reading a head, by producers and consumers.
LEMMA ObjReadHead ==
  ASSUME ObjInv, RingInv', NEW t \in Threads, NEW i, NEW g, NEW Calls, ReadHead(t, i, g, Calls)
  PROVE  ObjInv'
<1>1. TypeOK
  BY DEF ObjInv, RingInv
<1>2. pc[t] \notin HoldingPc /\ pc'[t] = "readTail"
  BY <1>1 DEF ReadHead, HoldingPc, TypeOK
<1>3. Rest(t) /\ ring' = ring /\ gPT' = gPT /\ gCT' = gCT
  BY <1>1 DEF ReadHead, Rest, TypeOK, ghostVars
<1>4. copied'[t] = 0 /\ table'[t] = <<>>
  BY <1>2 DEF ReadHead, ObjInv, CopyInv
<1> QED
  BY <1>2, <1>3, <1>4, ObjLocal DEF HoldingPc

\* A return leaves nothing of the call and touches no other.
LEMMA ReturnRest ==
  ASSUME TypeOK, NEW t \in Threads, Return(t)
  PROVE  Rest(t) /\ pc'[t] = "idle" /\ copied'[t] = 0 /\ table'[t] = <<>>
  BY DEF Return, Rest, TypeOK

\* Reading the tail of the other side, by producers and consumers; the room
\* a producer computes is bounded by the room there is.
LEMMA ObjTryEntries ==
  ASSUME ObjInv, RingInv', NEW t \in Threads, NEW e \in Nat, TryEntries(t, e),
         t \in Producers => pos[t] + e <= gCT + mask
  PROVE  ObjInv'
<1>1. TypeOK /\ pc[t] = "readTail"
  BY DEF ObjInv, RingInv, TryEntries
<1>2. /\ pc[t] \notin HoldingPc /\ copied[t] = 0 /\ table[t] = <<>>
      /\ ring' = ring /\ gPT' = gPT /\ gCT' = gCT
  BY <1>1 DEF HoldingPc, TryEntries, ghostVars, ObjInv, CopyInv
<1>3. CASE Return(t)
  BY <1>1, <1>2, <1>3, ReturnRest, ObjLocal DEF HoldingPc
<1>4. CASE /\ avail' = [avail EXCEPT ![t] = e]
           /\ n' = [n EXCEPT ![t] = IF max[t] > e THEN e ELSE max[t]]
           /\ pc' = [pc EXCEPT ![t] = "cas"]
           /\ UNCHANGED <<fixed, max, head, copied, table, pos>>
  <2>1. Rest(t)
    BY <1>1, <1>4 DEF Rest, TypeOK
  <2>2. /\ pc'[t] = "cas" /\ avail'[t] = e /\ pos'[t] = pos[t]
        /\ copied'[t] = 0 /\ table'[t] = <<>>
    BY <1>1, <1>2, <1>4 DEF TypeOK
  <2> QED
    BY <1>2, <2>1, <2>2, ObjLocal DEF HoldingPc
<1> QED
  BY <1>3, <1>4 DEF TryEntries

\* The room a producer computes is at most the room there is when it reads
\* cons.tail, however stale the prod.head it read before.
LEMMA RoomBounded ==
  ASSUME RingInv, NEW p \in Producers, pc[p] = "readTail"
  PROVE  /\ Wrap(mask + consTail - head[p]) \in Nat
         /\ pos[p] + Wrap(mask + consTail - head[p]) <= gCT + mask
<1>1. /\ TypeOK /\ p \in Threads /\ head[p] = Wrap(pos[p]) /\ consTail = Wrap(gCT)
  BY ThreadFacts DEF RingInv, CallInv, IndexesWrap, ReadingPc
<1>2. /\ pos[p] \in Nat /\ gCT \in Nat /\ gPH \in Nat /\ mask \in Nat
      /\ IndexMod \in Nat \ {0}
  BY <1>1, ThreadFacts, Constants
<1>3. pos[p] <= gPH /\ gPH <= gCT + mask
  BY <1>2 DEF RingInv, ProdSide, SideInv, ReadingPc, IndexOrder
<1> DEFINE room == mask + gCT - pos[p]
<1>4. room \in Nat
  BY <1>2, <1>3
<1>5. Wrap(mask + consTail - head[p]) = Wrap(room)
  <2>1. mask \in Int /\ gCT \in Int /\ pos[p] \in Int
    BY <1>2
  <2>2. Wrap(mask + Wrap(gCT) - Wrap(pos[p])) = Wrap(mask + gCT - pos[p])
    BY <2>1, WrapSub
  <2> QED
    BY <1>1, <2>2, Zenon
<1> HIDE DEF room
<1>6. Wrap(room) \in Nat /\ Wrap(room) <= room
  <2> DEFINE q == room \div IndexMod
             r == room % IndexMod
  <2>1. q \in Int /\ r \in 0..(IndexMod - 1) /\ room = IndexMod * q + r
    <3>1. room \in Int /\ IndexMod \in Nat \ {0}
      BY <1>2, <1>4
    <3> QED
      BY <3>1, DivMod, Zenon
  <2> HIDE DEF q, r
  <2>2. q >= 0
    <3> SUFFICES ASSUME q <= -1 PROVE FALSE
      BY <2>1
    <3>1. IndexMod * q <= -IndexMod /\ IndexMod * q \in Int
      BY <1>2, <2>1
    <3> QED
      BY <1>2, <1>4, <2>1, <3>1
  <2>3. IndexMod * q \in Int /\ IndexMod * q >= 0
    BY <1>2, <2>1, <2>2
  <2>4. r \in Nat /\ r <= room
    BY <1>2, <1>4, <2>1, <2>3
  <2> QED
    BY <2>4 DEF Wrap, r
<1>7. Wrap(room) <= mask + gCT - pos[p]
  BY <1>6 DEF room
<1>8. pos[p] + Wrap(room) <= gCT + mask
  BY <1>2, <1>6, <1>7
<1> QED
  BY <1>5, <1>6, <1>8

\* A failed compare-and-set leaves nothing behind.
LEMMA ObjRetry ==
  ASSUME ObjInv, RingInv', NEW t \in Threads, pc[t] = "cas", Retry(t),
         ring' = ring, gPT' = gPT, gCT' = gCT
  PROVE  ObjInv'
<1>1. TypeOK /\ pc[t] \notin HoldingPc /\ copied[t] = 0 /\ table[t] = <<>>
  BY DEF ObjInv, RingInv, CopyInv, HoldingPc
<1>2. Rest(t) /\ pc'[t] = "loop" /\ copied'[t] = 0 /\ table'[t] = <<>>
  BY <1>1 DEF Retry, Rest, TypeOK
<1> QED
  BY <1>1, <1>2, ObjLocal DEF HoldingPc

\* ENQUEUE_PTRS writes one slot of the call's own claim: no object that is
\* published or that another call has written is touched.
LEMMA ObjWriteEntry ==
  ASSUME ObjInv, RingInv', NEW p \in Producers, WriteEntry(p)
  PROVE  ObjInv'
<1>1. TypeOK /\ RingInv /\ p \in Threads /\ p \notin Consumers /\ pc[p] = "copy"
  BY ThreadFacts DEF ObjInv, RingInv, WriteEntry
<1>2. /\ \A t \in Threads : pos[t] \in Nat /\ n[t] \in Nat /\ copied[t] \in Nat
      /\ gPT \in Nat /\ gCT \in Nat /\ gPH \in Nat /\ gCH \in Nat
      /\ mask \in Nat /\ Size = mask + 1
  BY <1>1, ThreadFacts, ObjFacts, Constants
<1>3. /\ gPT' = gPT /\ gCT' = gCT /\ pos' = pos /\ n' = n /\ avail' = avail
      /\ table' = table /\ copied' = [copied EXCEPT ![p] = @ + 1]
      /\ pc' = [pc EXCEPT ![p] = IF copied[p] + 1 = n[p] THEN "wait" ELSE "copy"]
      /\ ring' = [ring EXCEPT ![Slot(head[p] + copied[p])] = pos[p] + copied[p] + 1]
  BY DEF WriteEntry, ghostVars
<1>4. /\ \A u \in Threads \ {p} : pc'[u] = pc[u] /\ copied'[u] = copied[u]
      /\ copied'[p] = copied[p] + 1
      /\ pc'[p] = IF copied[p] + 1 = n[p] THEN "wait" ELSE "copy"
  BY <1>1, <1>3 DEF TypeOK
<1>5. copied[p] < n[p] /\ copied[p] \in Nat /\ n[p] \in Nat
  BY <1>1, <1>2 DEF ObjInv, CopyInv
<1>6. CopyInv'
  <2> SUFFICES ASSUME NEW u \in Threads
               PROVE /\ pc'[u] \notin HoldingPc => copied'[u] = 0 /\ table'[u] = <<>>
                     /\ pc'[u] = "copy" => copied'[u] < n'[u]
                     /\ pc'[u] = "wait" => copied'[u] = n'[u]
    BY DEF CopyInv
  <2>1. CASE u = p
    BY <1>3, <1>4, <1>5, <2>1 DEF HoldingPc
  <2>2. CASE u # p
    BY <1>3, <1>4, <2>2 DEF ObjInv, CopyInv
  <2> QED
    BY <2>1, <2>2
<1>7. \A u \in Threads : pc'[u] \in HoldingPc <=> pc[u] \in HoldingPc
  BY <1>1, <1>4 DEF HoldingPc
<1>8. QuotaInv'
  <2> SUFFICES ASSUME NEW q \in Producers, pc'[q] \in {"cas"} \cup HoldingPc
               PROVE  pos[q] + avail[q] <= gCT + mask
    BY <1>3 DEF QuotaInv
  <2>1. pc[q] \in {"cas"} \cup HoldingPc
    BY <1>1, <1>4 DEF HoldingPc, Threads
  <2> QED
    BY <2>1 DEF ObjInv, QuotaInv
<1>9. TableInv'
  BY <1>1, <1>3, <1>4 DEF ObjInv, TableInv, Threads
<1> DEFINE x == pos[p] + copied[p]
<1>10. Slot(head[p] + copied[p]) = Slot(x)
  <2>1. head[p] = Wrap(pos[p])
    BY <1>1 DEF RingInv, CallInv, HoldingPc
  <2>2. pos[p] \in Int /\ copied[p] \in Int
    BY <1>1, <1>2
  <2>3. Slot(Wrap(pos[p]) + copied[p]) = Slot(pos[p] + copied[p])
    BY <2>2, SlotOfWrap
  <2> QED
    BY <2>1, <2>3, Zenon
<1>11. /\ x \in Nat /\ gCT <= gPT /\ gPT <= pos[p] /\ pos[p] <= x /\ x < pos[p] + n[p]
       /\ pos[p] + n[p] <= gPH /\ gPH <= gCT + mask
  <2>3. gPT <= pos[p] /\ pos[p] + n[p] <= gPH
    BY <1>1 DEF RingInv, ProdSide, SideInv, HoldingPc
  <2>4. gCT <= gPT /\ gPH <= gCT + mask
    BY <1>1, <1>2 DEF RingInv, IndexOrder
  <2> QED
    BY <1>1, <1>2, <1>5, <2>3, <2>4
<1>12. pos[p] + copied[p] + 1 = x + 1
  OBVIOUS
<1> HIDE DEF x
<1>13. gCT <= x /\ gPT <= x /\ x < gPH /\ gPH <= gCT + mask /\ gPT <= gPH
  BY <1>1, <1>2, <1>11
<1>14. gCT \in Nat /\ gPT \in Nat /\ gPH \in Nat /\ mask \in Nat /\ Size = mask + 1 /\ x \in Nat
  BY <1>2, <1>11
<1>15. /\ ring'[Slot(x)] = x + 1
       /\ \A k \in gCT..(gPH - 1) : k # x => ring'[Slot(k)] = ring[Slot(k)]
  <2>1. ring \in [0..mask -> Nat] /\ Slot(x) \in 0..mask
    BY <1>1, <1>11, SlotType DEF TypeOK
  <2>2. ring' = [ring EXCEPT ![Slot(x)] = x + 1]
    BY <1>3, <1>10, <1>12, Zenon
  <2>3. ASSUME NEW k \in gCT..(gPH - 1), k # x PROVE ring'[Slot(k)] = ring[Slot(k)]
    <3>1. k \in Int /\ x \in Int /\ k - x < Size /\ x - k < Size
      BY <1>13, <1>14
    <3>2. Slot(k) # Slot(x) /\ Slot(k) \in 0..mask
      BY <2>3, <3>1, SlotsDiffer, SlotType
    <3> QED
      BY <2>1, <2>2, <3>2
  <2> QED
    BY <2>1, <2>2, <2>3
<1>16. WrittenInv'
  <2>1. ASSUME NEW k \in gCT..(gPT - 1) PROVE ring'[Slot(k)] = k + 1
    <3>1. k \in gCT..(gPH - 1) /\ k # x
      BY <1>13, <1>14
    <3>2. ring[Slot(k)] = k + 1
      BY DEF ObjInv, WrittenInv
    <3> QED
      BY <1>15, <3>1, <3>2
  <2>2. ASSUME NEW q \in Producers, pc'[q] \in HoldingPc,
               NEW k \in pos[q]..(pos[q] + copied'[q] - 1)
        PROVE  ring'[Slot(k)] = k + 1
    <3>1. q \in Threads /\ pc[q] \in HoldingPc
      BY <1>7, <2>2 DEF Threads
    <3>2. gPT <= pos[q] /\ pos[q] + n[q] <= gPH
      BY <1>1, <3>1 DEF RingInv, ProdSide, SideInv
    <3>3. copied[q] <= n[q] /\ pos[q] \in Nat /\ n[q] \in Nat /\ copied[q] \in Nat
      BY <1>2, <3>1 DEF ObjInv, CopyInv, HoldingPc
    <3>4. \A i \in pos[q]..(pos[q] + copied[q] - 1) : ring[Slot(i)] = i + 1
      BY <3>1 DEF ObjInv, WrittenInv
    <3>5. CASE q = p
      <4>1. k = x \/ k \in pos[q]..(pos[q] + copied[q] - 1)
        BY <1>4, <3>3, <3>5 DEF x
      <4>2. CASE k # x
        <5>1. k \in gCT..(gPH - 1)
          BY <1>11, <1>13, <1>14, <3>2, <3>3, <4>1, <4>2
        <5> QED
          BY <1>15, <3>4, <4>1, <4>2, <5>1
      <4> QED
        BY <1>15, <4>2
    <3>6. CASE q # p
      <4>1. k \in pos[q]..(pos[q] + copied[q] - 1)
        BY <1>4, <3>1, <3>6
      <4>2. pos[p] + n[p] <= pos[q] \/ pos[q] + n[q] <= pos[p]
        BY <1>1, <3>1, <3>6 DEF RingInv, ProdSide, SideInv, HoldingPc
      <4>4. pos[p] \in Nat /\ n[p] \in Nat
        BY <1>1, <1>2
      <4>3. k \in gCT..(gPH - 1) /\ k # x
        BY <1>11, <1>13, <1>14, <3>2, <3>3, <4>1, <4>2, <4>4
      <4> QED
        BY <1>15, <3>4, <4>1, <4>3
    <3> QED
      BY <3>5, <3>6
  <2> QED
    BY <1>3, <2>1, <2>2 DEF WrittenInv
<1> QED
  BY <1>6, <1>8, <1>9, <1>16 DEF ObjInv

\* DEQUEUE_PTRS reads one slot of the call's own claim, which holds the
\* object of that position.
LEMMA ObjReadEntry ==
  ASSUME ObjInv, RingInv', NEW c \in Consumers, ReadEntry(c)
  PROVE  ObjInv'
<1>1. TypeOK /\ RingInv /\ c \in Threads /\ c \notin Producers /\ pc[c] = "copy"
  BY ThreadFacts DEF ObjInv, RingInv, ReadEntry
<1>2. /\ pos[c] \in Nat /\ n[c] \in Nat /\ copied[c] \in Nat /\ table[c] \in Seq(Nat)
      /\ gPT \in Nat /\ gCT \in Nat /\ gCH \in Nat
  BY <1>1, ThreadFacts, ObjFacts
<1>3. /\ gPT' = gPT /\ gCT' = gCT /\ pos' = pos /\ n' = n /\ avail' = avail /\ ring' = ring
      /\ copied' = [copied EXCEPT ![c] = @ + 1]
      /\ table' = [table EXCEPT ![c] = Append(@, ring[Slot(head[c] + copied[c])])]
      /\ pc' = [pc EXCEPT ![c] = IF copied[c] + 1 = n[c] THEN "wait" ELSE "copy"]
  BY DEF ReadEntry, ghostVars
<1>4. /\ \A u \in Threads \ {c} :
           pc'[u] = pc[u] /\ copied'[u] = copied[u] /\ table'[u] = table[u]
      /\ copied'[c] = copied[c] + 1
      /\ table'[c] = Append(table[c], ring[Slot(head[c] + copied[c])])
      /\ pc'[c] = IF copied[c] + 1 = n[c] THEN "wait" ELSE "copy"
  BY <1>1, <1>3 DEF TypeOK
<1>5. copied[c] < n[c]
  BY <1>1 DEF ObjInv, CopyInv
<1>6. CopyInv'
  <2> SUFFICES ASSUME NEW u \in Threads
               PROVE /\ pc'[u] \notin HoldingPc => copied'[u] = 0 /\ table'[u] = <<>>
                     /\ pc'[u] = "copy" => copied'[u] < n'[u]
                     /\ pc'[u] = "wait" => copied'[u] = n'[u]
    BY DEF CopyInv
  <2>1. CASE u = c
    BY <1>2, <1>3, <1>4, <1>5, <2>1 DEF HoldingPc
  <2>2. CASE u # c
    BY <1>3, <1>4, <2>2 DEF ObjInv, CopyInv
  <2> QED
    BY <2>1, <2>2
<1>7. QuotaInv' /\ WrittenInv'
  BY <1>1, <1>3, <1>4 DEF ObjInv, QuotaInv, WrittenInv, Threads
<1> DEFINE x == pos[c] + copied[c]
<1>8. ring[Slot(head[c] + copied[c])] = x + 1
  <2>1. head[c] = Wrap(pos[c]) /\ pos[c] \in Int /\ copied[c] \in Int
    BY <1>1, <1>2 DEF RingInv, CallInv, HoldingPc
  <2>2. Slot(Wrap(pos[c]) + copied[c]) = Slot(x)
    BY <2>1, SlotOfWrap
  <2>3. gCT <= pos[c] /\ pos[c] + n[c] <= gCH /\ gCH <= gPT
    BY <1>1 DEF RingInv, ConsSide, SideInv, HoldingPc, IndexOrder
  <2>4. x \in gCT..(gPT - 1)
    BY <1>2, <1>5, <2>3
  <2>5. ring[Slot(x)] = x + 1
    BY <2>4 DEF ObjInv, WrittenInv
  <2> QED
    BY <2>1, <2>2, <2>5, Zenon
<1>9. x + 1 = pos[c] + (copied[c] + 1)
  BY <1>2, SMTT(30)
<1> HIDE DEF x
<1>10. TableInv'
  <2> SUFFICES ASSUME NEW d \in Consumers, pc'[d] \in HoldingPc
               PROVE  /\ Len(table'[d]) = copied'[d]
                      /\ \A i \in 1..copied'[d] : table'[d][i] = pos'[d] + i
    BY DEF TableInv
  <2>1. CASE d = c
    <3>1. Len(table[c]) = copied[c] /\ \A i \in 1..copied[c] : table[c][i] = pos[c] + i
      BY <1>1 DEF ObjInv, TableInv, HoldingPc
    <3>2. table'[c] = Append(table[c], pos[c] + (copied[c] + 1))
      BY <1>4, <1>8, <1>9, Zenon
    <3>3. pos[c] + (copied[c] + 1) \in Nat
      BY <1>2
    <3>4. /\ Len(table'[c]) = copied[c] + 1
          /\ \A i \in 1..copied[c] : table'[c][i] = table[c][i]
          /\ table'[c][copied[c] + 1] = pos[c] + (copied[c] + 1)
      BY <1>2, <3>1, <3>2, <3>3
    <3>5. ASSUME NEW i \in 1..copied'[c] PROVE table'[c][i] = pos[c] + i
      <4>1. i \in 1..copied[c] \/ i = copied[c] + 1
        BY <1>2, <1>4
      <4> QED
        BY <3>1, <3>4, <4>1
    <3> QED
      BY <1>3, <1>4, <2>1, <3>4, <3>5
  <2>2. CASE d # c
    BY <1>3, <1>4, <2>2 DEF ObjInv, TableInv, Threads
  <2> QED
    BY <2>1, <2>2
<1> QED
  BY <1>6, <1>7, <1>10 DEF ObjInv

\* Publishing hands the objects just written to the consumers.
LEMMA ObjPublishProd ==
  ASSUME ObjInv, RingInv', NEW p \in Producers, PublishProd(p)
  PROVE  ObjInv'
<1>1. TypeOK /\ RingInv /\ p \in Threads /\ p \notin Consumers /\ pc[p] = "wait"
  BY ThreadFacts DEF ObjInv, RingInv, PublishProd
<1>2. /\ pos[p] \in Nat /\ n[p] \in Nat /\ gPT \in Nat /\ gCT \in Nat
  BY <1>1, ThreadFacts
<1>3. /\ Rest(p) /\ pc'[p] = "idle" /\ copied'[p] = 0 /\ table'[p] = <<>>
      /\ ring' = ring /\ gCT' = gCT /\ gPT' = pos[p] + n[p]
  BY <1>1, ReturnRest DEF PublishProd
<1>4. pos[p] = gPT /\ copied[p] = n[p]
  BY <1>1, PublishesAtTail DEF ObjInv, CopyInv
<1>5. CopyInv'
  <2> SUFFICES ASSUME NEW u \in Threads
               PROVE /\ pc'[u] \notin HoldingPc => copied'[u] = 0 /\ table'[u] = <<>>
                     /\ pc'[u] = "copy" => copied'[u] < n'[u]
                     /\ pc'[u] = "wait" => copied'[u] = n'[u]
    BY DEF CopyInv
  <2>1. CASE u = p
    BY <1>3, <2>1
  <2>2. CASE u # p
    BY <1>3, <2>2 DEF ObjInv, CopyInv, Rest
  <2> QED
    BY <2>1, <2>2
<1>6. QuotaInv' /\ TableInv'
  BY <1>1, <1>3 DEF ObjInv, QuotaInv, TableInv, Rest, Threads, HoldingPc
<1>7. WrittenInv'
  <2>1. ASSUME NEW k \in gCT'..(gPT' - 1) PROVE ring'[Slot(k)] = k + 1
    <3>1. k \in gCT..(gPT - 1) \/ k \in pos[p]..(pos[p] + copied[p] - 1)
      BY <1>2, <1>3, <1>4
    <3> QED
      BY <1>1, <1>3, <3>1 DEF ObjInv, WrittenInv, HoldingPc
  <2>2. ASSUME NEW q \in Producers, pc'[q] \in HoldingPc,
               NEW k \in pos'[q]..(pos'[q] + copied'[q] - 1)
        PROVE  ring'[Slot(k)] = k + 1
    <3>1. q # p
      BY <1>3, <2>2 DEF HoldingPc
    <3> QED
      BY <1>3, <2>2, <3>1 DEF ObjInv, WrittenInv, Rest, Threads
  <2> QED
    BY <2>1, <2>2 DEF WrittenInv
<1> QED
  BY <1>5, <1>6, <1>7 DEF ObjInv

\* A consumer gives its slots back: the producers get room.
LEMMA ObjPublishCons ==
  ASSUME ObjInv, RingInv', NEW c \in Consumers, PublishCons(c)
  PROVE  ObjInv'
<1>1. TypeOK /\ RingInv /\ c \in Threads /\ c \notin Producers /\ pc[c] = "wait"
  BY ThreadFacts DEF ObjInv, RingInv, PublishCons
<1>2. /\ pos[c] \in Nat /\ n[c] \in Nat /\ gPT \in Nat /\ gCT \in Nat /\ mask \in Nat
  BY <1>1, ThreadFacts, Constants
<1>3. /\ Rest(c) /\ pc'[c] = "idle" /\ copied'[c] = 0 /\ table'[c] = <<>>
      /\ ring' = ring /\ gPT' = gPT /\ gCT' = pos[c] + n[c]
  BY <1>1, ReturnRest DEF PublishCons
<1>4. gCT' \in Nat /\ gCT <= gCT'
  BY <1>1, <1>2, <1>3, ReleasesAtTail
<1>5. CopyInv'
  <2> SUFFICES ASSUME NEW u \in Threads
               PROVE /\ pc'[u] \notin HoldingPc => copied'[u] = 0 /\ table'[u] = <<>>
                     /\ pc'[u] = "copy" => copied'[u] < n'[u]
                     /\ pc'[u] = "wait" => copied'[u] = n'[u]
    BY DEF CopyInv
  <2>1. CASE u = c
    BY <1>3, <2>1
  <2>2. CASE u # c
    BY <1>3, <2>2 DEF ObjInv, CopyInv, Rest
  <2> QED
    BY <2>1, <2>2
<1>6. TableInv'
  <2> SUFFICES ASSUME NEW d \in Consumers, pc'[d] \in HoldingPc
               PROVE  /\ Len(table'[d]) = copied'[d]
                      /\ \A i \in 1..copied'[d] : table'[d][i] = pos'[d] + i
    BY DEF TableInv
  <2>1. d # c
    BY <1>3 DEF HoldingPc
  <2> QED
    BY <1>3, <2>1 DEF ObjInv, TableInv, Rest, Threads
<1>7. QuotaInv'
  <2> SUFFICES ASSUME NEW p \in Producers, pc'[p] \in {"cas"} \cup HoldingPc
               PROVE  pos'[p] + avail'[p] <= gCT' + mask
    BY DEF QuotaInv
  <2>1. p # c /\ p \in Threads
    BY <1>1 DEF Threads
  <2>2. /\ pc[p] \in {"cas"} \cup HoldingPc /\ pos'[p] = pos[p] /\ avail'[p] = avail[p]
        /\ pos[p] \in Nat /\ avail[p] \in Nat
    BY <1>1, <1>3, <2>1, ThreadFacts, ObjFacts DEF Rest
  <2>3. pos[p] + avail[p] <= gCT + mask
    BY <2>2 DEF ObjInv, QuotaInv
  <2> QED
    BY <1>2, <1>4, <2>2, <2>3
<1>8. WrittenInv'
  <2>1. ASSUME NEW k \in gCT'..(gPT - 1) PROVE ring[Slot(k)] = k + 1
    <3>1. k \in gCT..(gPT - 1)
      BY <1>2, <1>4
    <3> QED
      BY <3>1 DEF ObjInv, WrittenInv
  <2>2. ASSUME NEW q \in Producers, pc'[q] \in HoldingPc,
               NEW k \in pos'[q]..(pos'[q] + copied'[q] - 1)
        PROVE  ring'[Slot(k)] = k + 1
    BY <1>1, <1>3, <2>2 DEF ObjInv, WrittenInv, Rest, Threads
  <2> QED
    BY <1>3, <2>1, <2>2 DEF WrittenInv
<1> QED
  BY <1>5, <1>6, <1>7, <1>8 DEF ObjInv

\* Every step of the ring keeps the objects where their positions say.
LEMMA NextObj == ObjInv /\ [Next]_vars => ObjInv'
<1> SUFFICES ASSUME ObjInv, [Next]_vars PROVE ObjInv'
  OBVIOUS
<1>0. RingInv /\ RingInv' /\ Producers \subseteq Threads /\ Consumers \subseteq Threads
  BY NextRing DEF ObjInv, Threads
<1>1. ASSUME NEW p \in Producers, Enqueue(p) PROVE ObjInv'
  <2>0. p \in Threads
    BY <1>0
  <2>1. CASE ReadProdHead(p)
    BY <1>0, <2>0, <2>1, ObjReadHead DEF ReadProdHead
  <2>2. CASE ReadConsTail(p)
    <3>1. pc[p] = "readTail"
      BY <2>2 DEF ReadConsTail, TryEntries
    <3>2. /\ Wrap(mask + consTail - head[p]) \in Nat
          /\ pos[p] + Wrap(mask + consTail - head[p]) <= gCT + mask
      BY <1>0, <3>1, RoomBounded
    <3> QED
      BY <1>0, <2>0, <2>2, <3>2, ObjTryEntries DEF ReadConsTail
  <2>3. CASE MoveProdHead(p)
    BY <1>0, <2>0, <2>3, ObjRetry, ObjClaim DEF MoveProdHead
  <2>4. CASE WriteEntry(p)
    BY <1>0, <2>4, ObjWriteEntry
  <2>5. CASE PublishProd(p)
    BY <1>0, <2>5, ObjPublishProd
  <2> QED
    BY <1>1, <2>1, <2>2, <2>3, <2>4, <2>5 DEF Enqueue
<1>2. ASSUME NEW c \in Consumers, Dequeue(c) PROVE ObjInv'
  <2>0. c \in Threads /\ c \notin Producers
    BY <1>0, RteRingAssumption
  <2>1. CASE ReadConsHeadIndex(c)
    BY <1>0, <2>0, <2>1, ObjReadHead DEF ReadConsHeadIndex
  <2>2. CASE ReadProdTail(c)
    <3>1. prodTail \in Int /\ head[c] \in Int
      BY <1>0, <2>0, ThreadFacts DEF RingInv, TypeOK, Index
    <3>2. Wrap(prodTail - head[c]) \in Nat
      BY <3>1, WrapType, Constants DEF Index
    <3> QED
      BY <1>0, <2>0, <2>2, <3>2, ObjTryEntries DEF ReadProdTail
  <2>3. CASE MoveConsHead(c)
    BY <1>0, <2>0, <2>3, ObjRetry, ObjClaim DEF MoveConsHead
  <2>4. CASE ReadEntry(c)
    BY <1>0, <2>4, ObjReadEntry
  <2>5. CASE PublishCons(c)
    BY <1>0, <2>5, ObjPublishCons
  <2> QED
    BY <1>2, <2>1, <2>2, <2>3, <2>4, <2>5 DEF Dequeue
<1>3. ASSUME UNCHANGED <<ring, ghostVars, callVars>> PROVE ObjInv'
  <2>1. /\ ring' = ring /\ gPT' = gPT /\ gCT' = gCT /\ pc' = pc /\ pos' = pos /\ n' = n
        /\ avail' = avail /\ copied' = copied /\ table' = table
    BY <1>3 DEF ghostVars, callVars
  <2> QED
    BY <1>0, <2>1 DEF ObjInv, CopyInv, QuotaInv, WrittenInv, TableInv
<1>4. ASSUME NEW mark \in Watermarks, SetWaterMark(mark) PROVE ObjInv'
  BY <1>3, <1>4 DEF SetWaterMark
<1>5. CASE UNCHANGED vars
  BY <1>3, <1>5 DEF vars
<1> QED
  BY <1>1, <1>2, <1>4, <1>5 DEF Next

\* Every published slot holds the object of its position, and every call has
\* copied what it claimed.
THEOREM ObjectsInPlace == Spec => []ObjInv
  BY InitObj, NextObj, PTL DEF Spec

\* An enqueue that does not report the quota has left at most watermark
\* objects in the ring: rte_ring.h:486 and 572 test the mark with the room of
\* before the compare-and-set, and consumers can only have made more since.
THEOREM QuotaIsReported == Spec => []QuotaReported
<1>1. ObjInv => QuotaReported
  <2> SUFFICES ASSUME ObjInv, NEW p \in Producers, pc[p] \in {"copy", "wait"}, ~QuotaExceeded(p)
               PROVE  pos[p] + n[p] - gCT <= watermark
    BY DEF QuotaReported
  <2>1. TypeOK /\ p \in Threads
    BY DEF ObjInv, RingInv, Threads
  <2>2. /\ pos[p] \in Nat /\ n[p] \in Nat /\ avail[p] \in Nat /\ gCT \in Nat
        /\ watermark \in Nat /\ mask \in Nat /\ Size = mask + 1
    BY <2>1, ThreadFacts, ObjFacts, Constants DEF TypeOK
  <2>3. pos[p] + avail[p] <= gCT + mask
    BY DEF ObjInv, QuotaInv, HoldingPc
  <2>4. ~(Size - avail[p] + n[p] > watermark)
    BY DEF QuotaExceeded
  <2> QED
    BY <2>2, <2>3, <2>4
<1> QED
  BY <1>1, ObjectsInPlace, PTL

\* What a dequeue has copied out are the objects of the positions it claimed,
\* in order: no object is handed out twice and none is skipped, because the
\* claims of the consumers are disjoint and contiguous.
THEOREM DequeuedAsClaimed == Spec => []TableInv
<1>1. ObjInv => TableInv
  BY DEF ObjInv
<1> QED
  BY <1>1, ObjectsInPlace, PTL

------------------------------------------------------------------------------
(* The refinement of BoundedFifo.                                          *)

\* Objects in the order of their positions, from a to b.
Stretch(a, b) == [i \in 1..(b - a) |-> a + i]

\* The table holds exactly the objects between the consumers' head and the
\* producers' tail, in order.
ItemsOrdered == Items = Stretch(gCH, gPT)

\* Under the invariant it does.
LEMMA ItemsArePositions == ObjInv => ItemsOrdered
<1> SUFFICES ASSUME ObjInv PROVE Items = [i \in 1..(gPT - gCH) |-> gCH + i]
  BY DEF ItemsOrdered, Stretch
<1>1. RingInv /\ TypeOK
  BY DEF ObjInv, RingInv
<1>2. /\ gPT \in Nat /\ gCH \in Nat /\ gCT \in Nat /\ gPH \in Nat /\ mask \in Nat
      /\ gCT <= gCH /\ gCH <= gPT /\ gPT <= gPH /\ gPH <= gCT + mask
  BY <1>1, ThreadFacts, Constants DEF RingInv, IndexOrder
<1>3. Wrap(prodTail - consHead) = gPT - gCH
  <2>1. prodTail = Wrap(gPT) /\ consHead = Wrap(gCH)
    BY <1>1 DEF RingInv, IndexesWrap
  <2>2. Wrap(0 + Wrap(gPT) - Wrap(gCH)) = Wrap(0 + gPT - gCH)
    BY <1>2, WrapSub
  <2>3. Wrap(gPT) \in Int /\ Wrap(gCH) \in Int
    BY <1>2, WrapType, Constants DEF Index
  <2>4. 0 + Wrap(gPT) - Wrap(gCH) = Wrap(gPT) - Wrap(gCH) /\ 0 + gPT - gCH = gPT - gCH
    BY <1>2, <2>3
  <2>5. gPT - gCH \in 0..mask
    BY <1>2
  <2> QED
    BY <2>1, <2>2, <2>4, <2>5, WrapSmall, Zenon
<1>4. ASSUME NEW i \in 1..(gPT - gCH) PROVE ring[Slot(consHead + i - 1)] = gCH + i
  <2>1. consHead = Wrap(gCH) /\ consHead \in Int
    BY <1>1, Constants DEF RingInv, IndexesWrap, TypeOK, Index
  <2>2. gCH \in Int /\ i - 1 \in Int
    BY <1>2
  <2>3. Slot(Wrap(gCH) + (i - 1)) = Slot(gCH + (i - 1))
    BY <2>2, SlotOfWrap
  <2>4. consHead + i - 1 = consHead + (i - 1)
    BY <2>1, <2>2
  <2>5. gCH + (i - 1) \in gCT..(gPT - 1) /\ gCH + (i - 1) + 1 = gCH + i
    BY <1>2
  <2>6. ring[Slot(gCH + (i - 1))] = gCH + (i - 1) + 1
    BY <2>5 DEF ObjInv, WrittenInv
  <2> QED
    BY <2>1, <2>3, <2>4, <2>5, <2>6, Zenon
<1> QED
  BY <1>3, <1>4 DEF Items

\* The elements of one sequence followed by another.
LEMMA Joined ==
  ASSUME NEW s \in Seq(Nat), NEW t \in Seq(Nat)
  PROVE  /\ s \o t \in Seq(Nat) /\ Len(s \o t) = Len(s) + Len(t)
         /\ \A i \in 1..(Len(s) + Len(t)) :
              (s \o t)[i] = IF i <= Len(s) THEN s[i] ELSE t[i - Len(s)]
  OBVIOUS

\* More objects at the end of a stretch.
LEMMA StretchPut ==
  ASSUME NEW a \in Nat, NEW b \in Nat, NEW k \in Nat, a <= b
  PROVE  /\ Len(Stretch(a, b)) = b - a
         /\ Stretch(a, b + k) = Stretch(a, b) \o [i \in 1..k |-> b + i]
<1>1. b - a \in Nat /\ (b + k) - a \in Nat /\ (b + k) - a = (b - a) + k
  OBVIOUS
<1>2. /\ Stretch(a, b) \in Seq(Nat) /\ Len(Stretch(a, b)) = b - a
      /\ \A i \in 1..(b - a) : Stretch(a, b)[i] = a + i
  BY <1>1 DEF Stretch
<1> DEFINE more == [i \in 1..k |-> b + i]
<1>3. more \in Seq(Nat) /\ Len(more) = k /\ \A i \in 1..k : more[i] = b + i
  OBVIOUS
<1>4. /\ Stretch(a, b + k) \in Seq(Nat) /\ Len(Stretch(a, b + k)) = (b - a) + k
      /\ \A i \in 1..((b - a) + k) : Stretch(a, b + k)[i] = a + i
  BY <1>1 DEF Stretch
<1> HIDE DEF more
<1> DEFINE both == Stretch(a, b) \o more
<1>5. /\ both \in Seq(Nat) /\ Len(both) = (b - a) + k
      /\ \A i \in 1..(b - a) : both[i] = Stretch(a, b)[i]
      /\ \A i \in ((b - a) + 1)..((b - a) + k) : both[i] = more[i - (b - a)]
  <2>1. /\ both \in Seq(Nat)
        /\ Len(both) = Len(Stretch(a, b)) + Len(more)
        /\ \A i \in 1..(Len(Stretch(a, b)) + Len(more)) :
             both[i] = IF i <= Len(Stretch(a, b)) THEN Stretch(a, b)[i]
                       ELSE more[i - Len(Stretch(a, b))]
    BY <1>2, <1>3, Joined
  <2> QED
    BY <1>1, <1>2, <1>3, <2>1
<1> HIDE DEF both
<1>6. ASSUME NEW i \in 1..((b - a) + k) PROVE both[i] = a + i
  <2>1. CASE i \in 1..(b - a)
    BY <1>2, <1>5, <2>1
  <2>2. CASE i \in ((b - a) + 1)..((b - a) + k)
    <3>1. i - (b - a) \in 1..k /\ b + (i - (b - a)) = a + i
      BY <1>1, <2>2
    <3> QED
      BY <1>3, <1>5, <2>2, <3>1
  <2> QED
    BY <1>1, <2>1, <2>2
<1>7. Stretch(a, b + k) = both
  BY <1>1, <1>4, <1>5, <1>6
<1> QED
  BY <1>2, <1>7 DEF both, more

\* Fewer objects at the front of a stretch.
LEMMA StretchTake ==
  ASSUME NEW a \in Nat, NEW b \in Nat, NEW k \in Nat, a + k <= b
  PROVE  Stretch(a + k, b) = SubSeq(Stretch(a, b), k + 1, Len(Stretch(a, b)))
<1>1. b - a \in Nat /\ b - (a + k) \in Nat /\ b - (a + k) = (b - a) - k
  OBVIOUS
<1>2. /\ Stretch(a, b) \in Seq(Nat) /\ Len(Stretch(a, b)) = b - a
      /\ \A i \in 1..(b - a) : Stretch(a, b)[i] = a + i
  BY <1>1 DEF Stretch
<1> DEFINE s == SubSeq(Stretch(a, b), k + 1, b - a)
<1>3. /\ s \in Seq(Nat) /\ Len(s) = (b - a) - k
      /\ \A i \in 1..((b - a) - k) : s[i] = Stretch(a, b)[k + i]
  BY <1>1, <1>2
<1>4. /\ Stretch(a + k, b) \in Seq(Nat) /\ Len(Stretch(a + k, b)) = (b - a) - k
      /\ \A i \in 1..((b - a) - k) : Stretch(a + k, b)[i] = (a + k) + i
  BY <1>1 DEF Stretch
<1> HIDE DEF s
<1>5. ASSUME NEW i \in 1..((b - a) - k) PROVE s[i] = (a + k) + i
  <2>1. k + i \in 1..(b - a) /\ a + (k + i) = (a + k) + i
    BY <1>1
  <2> QED
    BY <1>2, <1>3, <2>1
<1>6. Stretch(a + k, b) = s
  BY <1>1, <1>3, <1>4, <1>5
<1> QED
  BY <1>2, <1>6 DEF s

\* Every step of the ring is a step of the queue or leaves it alone.
LEMMA FifoStep ==
  ASSUME ObjInv, ObjInv', ItemsOrdered, ItemsOrdered', [Next]_vars
  PROVE  [Fifo!Next]_<<Items, gPT>>
<1>1. Items = Stretch(gCH, gPT) /\ Items' = Stretch(gCH', gPT')
  BY DEF ItemsOrdered, Stretch
<1>2. /\ gPT \in Nat /\ gCH \in Nat /\ gCT \in Nat /\ gPH \in Nat /\ mask \in Nat
      /\ gCT <= gCH /\ gCH <= gPT /\ gPT <= gPH /\ gPH <= gCT + mask
      /\ gPT' \in Nat /\ gCH' \in Nat /\ gCH' <= gPT'
  BY Constants DEF ObjInv, RingInv, TypeOK, IndexOrder
<1>3. CASE gCH' = gCH /\ gPT' = gPT
  BY <1>1, <1>3
<1>4. ASSUME NEW p \in Producers, PublishProd(p) PROVE \E k \in 1..mask : Fifo!Put(k)
  <2>1. /\ pos[p] = gPT /\ pos[p] + n[p] <= gPH
    BY <1>4, PublishesAtTail DEF ObjInv
  <2>2. n[p] \in Nat /\ n[p] >= 1
    BY <1>4, ThreadFacts DEF ObjInv, RingInv, ProdSide, SideInv, HoldingPc, PublishProd
  <2>3. gPT' = gPT + n[p] /\ gCH' = gCH
    BY <1>4, <2>1 DEF PublishProd
  <2>4. n[p] \in 1..mask /\ (gPT - gCH) + n[p] <= mask
    BY <1>2, <2>1, <2>2
  <2>5. /\ Len(Items) = gPT - gCH
        /\ Items' = Items \o [i \in 1..n[p] |-> gPT + i]
    BY <1>1, <1>2, <2>2, <2>3, StretchPut
  <2>6. Fifo!Put(n[p])
    BY <2>3, <2>4, <2>5 DEF Fifo!Put
  <2> QED
    BY <2>4, <2>6
<1>5. ASSUME NEW c \in Consumers, pc[c] = "cas", gCH' = gCH + n[c], gPT' = gPT
      PROVE  \E k \in 1..Len(Items) : Fifo!Take(k)
  <2>1. n[c] \in Nat /\ n[c] >= 1
    BY <1>5, ThreadFacts DEF ObjInv, RingInv, CallInv
  <2>2. gCH + n[c] <= gPT
    BY <1>2, <1>5
  <2>3. /\ Len(Items) = gPT - gCH
        /\ Items' = SubSeq(Items, n[c] + 1, Len(Items))
    <3>1. Len(Stretch(gCH, gPT)) = gPT - gCH
      BY <1>2, StretchPut
    <3>2. Stretch(gCH + n[c], gPT) = SubSeq(Stretch(gCH, gPT), n[c] + 1, Len(Stretch(gCH, gPT)))
      BY <1>2, <2>1, <2>2, StretchTake
    <3> QED
      BY <1>1, <1>5, <3>1, <3>2
  <2>4. Fifo!Take(n[c]) /\ n[c] \in 1..Len(Items)
    BY <1>2, <1>5, <2>1, <2>2, <2>3 DEF Fifo!Take
  <2> QED
    BY <2>4
<1>6. ASSUME NEW p \in Producers, Enqueue(p) PROVE [Fifo!Next]_<<Items, gPT>>
  <2>1. CASE PublishProd(p)
    BY <1>4, <2>1 DEF Fifo!Next
  <2>2. CASE ReadProdHead(p) \/ ReadConsTail(p) \/ MoveProdHead(p) \/ WriteEntry(p)
    <3>1. gCH' = gCH /\ gPT' = gPT
      BY <2>2
         DEF ReadProdHead, ReadHead, ReadConsTail, TryEntries, MoveProdHead,
             WriteEntry,
                  ghostVars
    <3> QED
      BY <1>3, <3>1
  <2> QED
    BY <1>6, <2>1, <2>2 DEF Enqueue
<1>7. ASSUME NEW c \in Consumers, Dequeue(c) PROVE [Fifo!Next]_<<Items, gPT>>
  <2>1. CASE MoveConsHead(c) /\ gCH' # gCH
    <3>1. pc[c] = "cas" /\ gCH' = gCH + n[c] /\ gPT' = gPT
      BY <2>1 DEF MoveConsHead
    <3> QED
      BY <1>5, <3>1 DEF Fifo!Next
  <2>2. CASE \/ ReadConsHeadIndex(c) \/ ReadProdTail(c) \/ ReadEntry(c) \/ PublishCons(c)
             \/ MoveConsHead(c) /\ gCH' = gCH
    <3>1. gCH' = gCH /\ gPT' = gPT
      BY <2>2
         DEF ReadConsHeadIndex, ReadHead, ReadProdTail, TryEntries, ReadEntry,
             PublishCons,
                  MoveConsHead, ghostVars
    <3> QED
      BY <1>3, <3>1
  <2> QED
    BY <1>7, <2>1, <2>2 DEF Dequeue
<1>8. ASSUME NEW mark \in Watermarks, SetWaterMark(mark) PROVE [Fifo!Next]_<<Items, gPT>>
  BY <1>3, <1>8 DEF SetWaterMark, ghostVars
<1>9. CASE UNCHANGED vars
  BY <1>3, <1>9 DEF vars, ghostVars
<1> QED
  BY <1>6, <1>7, <1>8, <1>9 DEF Next

\* The ring, with any number of producers and consumers and bulks and bursts
\* of any size, is a bounded queue: objects leave in the order their tails
\* were published, each once, and never more than count-1 are inside.
THEOREM RingIsFifo == Spec => ImplementsFifo
<1>1. Init => Fifo!Init
  <2> SUFFICES ASSUME Init PROVE Items = <<>> /\ gPT = 0
    BY DEF Fifo!Init
  <2>1. Items = [i \in 1..(gPT - gCH) |-> gCH + i]
    BY InitObj, ItemsArePositions DEF ItemsOrdered, Stretch
  <2>2. gPT = 0 /\ gCH = 0
    BY DEF Init
  <2> QED
    BY <2>1, <2>2
<1>2. ObjInv /\ ObjInv' /\ ItemsOrdered /\ ItemsOrdered' /\ [Next]_vars
        => [Fifo!Next]_<<Items, gPT>>
  BY FifoStep
<1> QED
  BY <1>1, <1>2, ItemsArePositions, ObjectsInPlace, PTL
     DEF Spec, ImplementsFifo, Fifo!Spec


------------------------------------------------------------------------------
(* Sequences                                                               *)

\* The first m numbers in order.
Numbers(m) == [i \in 1..m |-> i]

\* The sequence 1, ..., m, and its extension by the next number.
LEMMA NumbersAppend ==
  ASSUME NEW m \in Nat
  PROVE  /\ Numbers(m) \in Seq(Nat) /\ Len(Numbers(m)) = m
         /\ Append(Numbers(m), m + 1) = Numbers(m + 1)
<1>1. Numbers(m) \in Seq(Nat) /\ Len(Numbers(m)) = m
  BY DEF Numbers
<1>2. Numbers(m + 1) \in Seq(Nat) /\ Len(Numbers(m + 1)) = m + 1
  BY DEF Numbers
<1>3. \A i \in 1..m + 1 : Append(Numbers(m), m + 1)[i] = Numbers(m + 1)[i]
  BY <1>1 DEF Numbers
<1> QED
  BY <1>1, <1>2, <1>3, SeqEqual, AppendProperties

\* What moves from the front of one sequence to the end of the one before it.
LEMMA MoveFirst ==
  ASSUME NEW s \in Seq(Nat), NEW t \in Seq(Nat), t # <<>>
  PROVE  /\ Head(t) \in Nat /\ Tail(t) \in Seq(Nat)
         /\ Append(s, Head(t)) \in Seq(Nat)
         /\ Append(s, Head(t)) \o Tail(t) = s \o t
<1>1. Head(t) \in Nat /\ Tail(t) \in Seq(Nat) /\ <<Head(t)>> \in Seq(Nat)
  BY HeadTailProperties
<1>2. t = <<Head(t)>> \o Tail(t)
  BY <1>1, HeadTailProperties, SeqEqual, ConcatProperties
<1>3. Append(s, Head(t)) = s \o <<Head(t)>>
  BY <1>1, AppendIsConcat
<1>4. (s \o <<Head(t)>>) \o Tail(t) = s \o (<<Head(t)>> \o Tail(t))
  BY <1>1, ConcatAssociative
<1> QED
  BY <1>1, <1>2, <1>3, <1>4, AppendProperties

\* An element added to the last of two sequences.
LEMMA AddLast ==
  ASSUME NEW s \in Seq(Nat), NEW t \in Seq(Nat), NEW x \in Nat
  PROVE  s \o Append(t, x) = Append(s \o t, x)
<1>1. <<x>> \in Seq(Nat) /\ s \o t \in Seq(Nat)
  BY ConcatProperties
<1>2. Append(t, x) = t \o <<x>> /\ Append(s \o t, x) = (s \o t) \o <<x>>
  BY <1>1, AppendIsConcat
<1>3. s \o (t \o <<x>>) = (s \o t) \o <<x>>
  BY <1>1, ConcatAssociative
<1> QED
  BY <1>2, <1>3

\* Concatenation is associative.
LEMMA Associative ==
  ASSUME NEW s \in Seq(Nat), NEW t \in Seq(Nat), NEW u \in Seq(Nat)
  PROVE  (s \o t) \o u = s \o (t \o u)
  BY ConcatAssociative, SMTT(30)

------------------------------------------------------------------------------
(* LockedQueue                                                             *)

\* The items are in order, and what peek referred to is still at the front.
LockedInv ==
  /\ added \in Nat /\ queue \in Seq(Nat) /\ taken \in Seq(Nat) /\ handled \in Seq(Nat)
  /\ (handled \o taken) \o queue = Numbers(added)
  /\ lockedPc # "idle" => taken = <<>> /\ queue # <<>> /\ front = Head(queue)

\* The empty LockedQueue.
LEMMA LockedInit == Locked!Init => LockedInv
<1> SUFFICES ASSUME Locked!Init PROVE LockedInv
  OBVIOUS
<1>1. <<>> \in Seq(Nat) /\ (<<>> \o <<>>) \o <<>> = <<>>
  BY EmptySeq
<1>2. Numbers(0) = <<>>
  BY DEF Numbers
<1> QED
  BY <1>1, <1>2 DEF Locked!Init, LockedInv

\* Every step of LockedQueue, of a thread that adds or of the one that takes, keeps
\* the items in order.
LEMMA LockedNext == LockedInv /\ [Locked!Next]_lockedVars => LockedInv'
<1> SUFFICES ASSUME LockedInv, [Locked!Next]_lockedVars PROVE LockedInv'
  OBVIOUS
<1>0. /\ added \in Nat /\ queue \in Seq(Nat) /\ taken \in Seq(Nat) /\ handled \in Seq(Nat)
      /\ handled \o taken \in Seq(Nat) /\ <<>> \in Seq(Nat)
      /\ (handled \o taken) \o queue = Numbers(added)
  BY ConcatProperties, EmptySeq DEF LockedInv
<1>1. CASE Locked!add
  <2>1. added + 1 \in Nat /\ Append(queue, added + 1) \in Seq(Nat)
    BY AppendProperties DEF LockedInv
  <2>2a. (handled \o taken) \o Append(queue, added + 1) = Append((handled \o taken) \o queue, added + 1)
    BY <1>0, <2>1, AddLast, Zenon
  <2>2. (handled \o taken) \o Append(queue, added + 1) = Append(Numbers(added), added + 1)
    BY <1>0, <2>2a, Zenon
  <2>3. Append(Numbers(added), added + 1) = Numbers(added + 1)
    BY NumbersAppend DEF LockedInv
  <2>4. queue # <<>> => Append(queue, added + 1) # <<>> /\ Head(Append(queue, added + 1)) = Head(queue)
    BY <2>1, HeadTailAppend, AppendProperties, ZenonT(30) DEF LockedInv
  <2> QED
    BY <1>1, <2>1, <2>2, <2>3, <2>4 DEF Locked!add, LockedInv
<1>2. CASE Locked!cancel
  BY <1>2 DEF Locked!cancel, LockedInv
<1>3. CASE Locked!next
  <2>1. CASE queue # <<>> /\ taken' = Append(taken, Head(queue)) /\ queue' = Tail(queue)
    <3>1. /\ Head(queue) \in Nat /\ Tail(queue) \in Seq(Nat) /\ Append(taken, Head(queue)) \in Seq(Nat)
          /\ Append(handled \o taken, Head(queue)) \o Tail(queue) = (handled \o taken) \o queue
      BY <1>0, <2>1, MoveFirst, Zenon
    <3>2. handled \o Append(taken, Head(queue)) = Append(handled \o taken, Head(queue))
      BY <1>0, <3>1, AddLast, Zenon
    <3> QED
      BY <1>3, <2>1, <3>1, <3>2 DEF Locked!next, LockedInv
  <2>2. CASE UNCHANGED <<queue, taken>>
    BY <1>3, <2>2 DEF Locked!next, LockedInv
  <2> QED
    BY <1>3, <2>1, <2>2 DEF Locked!next
<1>4. CASE Locked!Handle
  <2>1. taken # <<>>
    BY <1>4 DEF Locked!Handle
  <2>2. /\ Tail(taken) \in Seq(Nat) /\ Append(handled, Head(taken)) \in Seq(Nat)
        /\ Append(handled, Head(taken)) \o Tail(taken) = handled \o taken
    BY <1>0, <2>1, MoveFirst, Zenon
  <2> QED
    BY <1>4, <2>2 DEF Locked!Handle, LockedInv
<1>5. CASE Locked!readd
  <2>1. taken \o queue \in Seq(Nat)
    BY <1>0, ConcatProperties, Zenon
  <2>2. handled \o <<>> = handled
    BY <1>0, ConcatEmptySeq, Zenon
  <2>3. (handled \o taken) \o queue = handled \o (taken \o queue)
    BY <1>0, Associative, Zenon
  <2> QED
    BY <1>0, <1>5, <2>1, <2>2, <2>3 DEF Locked!readd, LockedInv
<1>6. ASSUME NEW autoUnlock \in BOOLEAN, Locked!peek(autoUnlock) PROVE LockedInv'
  BY <1>6 DEF Locked!peek, LockedInv
<1>7. CASE Locked!unlock
  BY <1>7 DEF Locked!unlock, LockedInv
<1>8. CASE Locked!pop_front
  <2>0. lockedPc = "peeked" /\ lockedPc' = "idle" /\ UNCHANGED <<taken, added>>
    BY <1>8 DEF Locked!pop_front
  <2>1. CASE handled' = Append(handled, front) /\ queue' = Tail(queue)
    <3>1. taken = <<>> /\ queue # <<>> /\ front = Head(queue)
      BY <2>0 DEF LockedInv
    <3>2. handled \o taken = handled
      BY <3>1, ConcatEmptySeq DEF LockedInv
    <3>3. /\ Tail(queue) \in Seq(Nat) /\ Append(handled, front) \in Seq(Nat)
          /\ Append(handled, front) \o Tail(queue) = handled \o queue
      BY <3>1, MoveFirst DEF LockedInv
    <3>4. Append(handled, front) \o <<>> = Append(handled, front)
      BY <3>3, ConcatEmptySeq
    <3> QED
      BY <2>0, <2>1, <3>1, <3>2, <3>3, <3>4 DEF LockedInv
  <2>2. CASE UNCHANGED <<handled, queue>>
    BY <2>0, <2>2 DEF LockedInv
  <2> QED
    BY <1>8, <2>1, <2>2 DEF Locked!pop_front
<1>9. CASE UNCHANGED lockedVars
  BY <1>9 DEF lockedVars, LockedInv
<1> QED
  BY <1>1, <1>2, <1>3, <1>4, <1>5, <1>6, <1>7, <1>8, <1>9 DEF Locked!Next

\* What the invariant says of the items.
LEMMA LockedSound == LockedInv => Locked!ItemsInOrder
  BY ConcatAssociative DEF LockedInv, Locked!ItemsInOrder, Numbers

------------------------------------------------------------------------------
(* BlockingQueuePro                                                        *)

\* One consumer holds cons_mutex_ while it is in Pop; until it has exchanged the
\* queues the consumers' is empty, and it sleeps only without a reason to wake.
ProInv ==
  /\ proPushed \in Nat /\ prodQueue \in Seq(Nat) /\ consQueue \in Seq(Nat) /\ proPopped \in Seq(Nat)
  /\ proPc \in [ProConsumers -> {"idle", "locked", "asleep", "woken", "swapped"}]
  /\ (proPopped \o consQueue) \o prodQueue = Numbers(proPushed)
  /\ \A c \in ProConsumers : proPc[c] # "idle" => consMutex = {c}
  /\ \A c \in ProConsumers : proPc[c] \in {"locked", "asleep", "woken"} => consQueue = <<>>
  /\ Pro!SleeperHasNoReason

\* The two empty queues of BlockingQueuePro.
LEMMA ProInit == Pro!Init => ProInv
<1> SUFFICES ASSUME Pro!Init PROVE ProInv
  OBVIOUS
<1>1. <<>> \in Seq(Nat) /\ (<<>> \o <<>>) \o <<>> = <<>>
  BY EmptySeq
<1>2. Numbers(0) = <<>>
  BY DEF Numbers
<1> QED
  BY <1>1, <1>2 DEF Pro!Init, ProInv, Pro!SleeperHasNoReason

\* Pushing, swapping the queues and popping keep the values in order, and a push or
\* a cancel wakes the sleeper.
LEMMA ProNext == ProInv /\ [Pro!Next]_proVars => ProInv'
<1> SUFFICES ASSUME ProInv, [Pro!Next]_proVars PROVE ProInv'
  OBVIOUS
<1>0. /\ proPushed \in Nat /\ prodQueue \in Seq(Nat) /\ consQueue \in Seq(Nat) /\ proPopped \in Seq(Nat)
      /\ proPopped \o consQueue \in Seq(Nat) /\ <<>> \in Seq(Nat)
      /\ (proPopped \o consQueue) \o prodQueue = Numbers(proPushed)
  BY ConcatProperties, EmptySeq DEF ProInv
<1>1. CASE Pro!Push
  <2>1. proPushed + 1 \in Nat /\ Append(prodQueue, proPushed + 1) \in Seq(Nat)
    BY <1>0, AppendProperties
  <2>2. (proPopped \o consQueue) \o Append(prodQueue, proPushed + 1)
          = Append((proPopped \o consQueue) \o prodQueue, proPushed + 1)
    BY <1>0, <2>1, AddLast, Zenon
  <2>3. Append(Numbers(proPushed), proPushed + 1) = Numbers(proPushed + 1)
    BY <1>0, NumbersAppend
  <2>4. (proPopped' \o consQueue') \o prodQueue' = Numbers(proPushed')
    BY <1>0, <1>1, <2>2, <2>3, Zenon DEF Pro!Push
  <2> QED
    BY <1>1, <2>1, <2>4 DEF Pro!Push, Pro!Wake, ProInv, Pro!SleeperHasNoReason
<1>2. CASE Pro!Cancel
  BY <1>2 DEF Pro!Cancel, Pro!Wake, ProInv, Pro!SleeperHasNoReason
<1>3. ASSUME NEW c \in ProConsumers, Pro!PopLock(c) PROVE ProInv'
  BY <1>3 DEF Pro!PopLock, ProInv, Pro!SleeperHasNoReason
<1>4. ASSUME NEW c \in ProConsumers, Pro!SwapQueue_(c) PROVE ProInv'
  <2>0. /\ proPc[c] \in {"locked", "woken"} /\ consQueue = <<>> /\ consMutex = {c}
        /\ UNCHANGED <<nonblock, consMutex, proPushed, proPopped>>
    BY <1>4 DEF Pro!SwapQueue_, ProInv
  <2>1. CASE proPc' = [proPc EXCEPT ![c] = "asleep"] /\ prodQueue = <<>> /\ ~nonblock
               /\ UNCHANGED <<prodQueue, consQueue>>
    BY <2>0, <2>1 DEF ProInv, Pro!SleeperHasNoReason
  <2>2. CASE /\ proPc' = [proPc EXCEPT ![c] = "swapped"]
             /\ prodQueue' = consQueue /\ consQueue' = prodQueue
    <3>1. proPopped \o <<>> = proPopped
      BY <1>0, ConcatEmptySeq
    <3>2. (proPopped \o prodQueue) \o <<>> = proPopped \o prodQueue
      BY <1>0, ConcatEmptySeq, ConcatProperties
    <3>3. (proPopped' \o consQueue') \o prodQueue' = Numbers(proPushed')
      BY <1>0, <2>0, <2>2, <3>1, <3>2, Zenon
    <3>4. \A d \in ProConsumers : proPc'[d] \notin {"locked", "asleep", "woken"}
      BY <2>0, <2>2 DEF ProInv
    <3> QED
      BY <2>0, <2>2, <3>3, <3>4 DEF ProInv, Pro!SleeperHasNoReason
  <2> QED
    BY <1>4, <2>1, <2>2 DEF Pro!SwapQueue_
<1>5. ASSUME NEW c \in ProConsumers, Pro!SpuriousWake(c) PROVE ProInv'
  BY <1>5 DEF Pro!SpuriousWake, ProInv, Pro!SleeperHasNoReason
<1>6. ASSUME NEW c \in ProConsumers, Pro!PopReturn(c) PROVE ProInv'
  <2>0. /\ proPc[c] = "swapped" /\ consMutex' = {} /\ proPc' = [proPc EXCEPT ![c] = "idle"]
        /\ UNCHANGED <<prodQueue, nonblock, proPushed>>
        /\ \A d \in ProConsumers : proPc'[d] = "idle"
    BY <1>6 DEF Pro!PopReturn, ProInv
  <2>1. CASE UNCHANGED <<consQueue, proPopped>>
    BY <2>0, <2>1 DEF ProInv, Pro!SleeperHasNoReason
  <2>2. CASE consQueue # <<>> /\ proPopped' = Append(proPopped, Head(consQueue)) /\ consQueue' = Tail(consQueue)
    <3>1. /\ Tail(consQueue) \in Seq(Nat) /\ Append(proPopped, Head(consQueue)) \in Seq(Nat)
          /\ Append(proPopped, Head(consQueue)) \o Tail(consQueue) = proPopped \o consQueue
      BY <1>0, <2>2, MoveFirst, Zenon
    <3>2. (proPopped' \o consQueue') \o prodQueue' = Numbers(proPushed')
      BY <1>0, <2>0, <2>2, <3>1, Zenon
    <3> QED
      BY <2>0, <2>2, <3>1, <3>2 DEF ProInv, Pro!SleeperHasNoReason
  <2> QED
    BY <1>6, <2>1, <2>2 DEF Pro!PopReturn
<1>7. CASE UNCHANGED proVars
  BY <1>7 DEF proVars, ProInv, Pro!SleeperHasNoReason
<1> QED
  BY <1>1, <1>2, <1>3, <1>4, <1>5, <1>6, <1>7 DEF Pro!Next, Pro!Pop

\* What the invariant says of the values and of the sleeper.
LEMMA ProSound == ProInv => Pro!ValuesInOrder /\ Pro!SleeperHasNoReason
  BY DEF ProInv, Pro!ValuesInOrder, Numbers

------------------------------------------------------------------------------
(* RingBuffer                                                              *)

\* Masking an index before or after adding one is the same.
LEMMA MaskedNext ==
  ASSUME NEW x \in Int
  PROVE  Spsc!Masked(x) \in Spsc!Slots /\ Spsc!Masked(Spsc!Masked(x) + 1) = Spsc!Masked(x + 1)
<1> DEFINE q == x \div Capacity
           r == x % Capacity
<1>1. q \in Int /\ r \in 0..(Capacity - 1) /\ x = Capacity * q + r
  BY DivMod, QueuesAssumption
<1> HIDE DEF q, r
<1>2. r + 1 \in Int /\ x + 1 = (r + 1) + Capacity * q
  BY <1>1, QueuesAssumption
<1>3. ((r + 1) + Capacity * q) % Capacity = (r + 1) % Capacity
  BY <1>1, <1>2, ModShift, QueuesAssumption
<1> QED
  BY <1>1, <1>2, <1>3 DEF Spsc!Masked, Spsc!Slots, r

\* A whole round of the buffer masks to the same slot.
LEMMA MaskedRound ==
  ASSUME NEW x \in Int
  PROVE  Spsc!Masked(x + Capacity) = Spsc!Masked(x)
<1> DEFINE q == x \div Capacity
           r == x % Capacity
<1>1. q \in Int /\ r \in 0..(Capacity - 1) /\ x = Capacity * q + r
  BY DivMod, QueuesAssumption
<1> HIDE DEF q, r
<1>2. q + 1 \in Int /\ x + Capacity = Capacity * (q + 1) + r
  BY <1>1, QueuesAssumption
<1>3. (Capacity * (q + 1) + r) % Capacity = r
  BY <1>1, <1>2, ModOfSum, QueuesAssumption
<1> QED
  BY <1>2, <1>3 DEF Spsc!Masked, r

\* The distance of two indexes, on the circle and as Size computes it.
LEMMA MaskedDistance ==
  ASSUME NEW x \in Int, NEW y \in Int, y <= x, x - y < Capacity
  PROVE  /\ Spsc!Masked(Spsc!Masked(x) - Spsc!Masked(y)) = x - y
         /\ x - y = IF Spsc!Masked(x) >= Spsc!Masked(y) THEN Spsc!Masked(x) - Spsc!Masked(y)
                    ELSE Capacity - Spsc!Masked(y) + Spsc!Masked(x)
         /\ Spsc!Masked(x) = Spsc!Masked(y) => x = y
<1> DEFINE a == x \div Capacity
           b == y \div Capacity
           r == x % Capacity
           s == y % Capacity
<1>0. Capacity \in Nat \ {0}
  BY QueuesAssumption
<1>1. a \in Int /\ r \in 0..(Capacity - 1) /\ x = Capacity * a + r
  BY DivMod, <1>0
<1>2. b \in Int /\ s \in 0..(Capacity - 1) /\ y = Capacity * b + s
  BY DivMod, <1>0
<1> HIDE DEF a, b, r, s
<1>3. Capacity * a \in Int /\ Capacity * b \in Int /\ Capacity * (a - b) = Capacity * a - Capacity * b
  BY <1>0, <1>1, <1>2
<1>4. x - y = Capacity * (a - b) + (r - s)
  BY <1>1, <1>2, <1>3
<1>5. a - b \in {0, 1}
  <2>1. Capacity * (a - b) < 2 * Capacity /\ Capacity * (a - b) > -Capacity
    BY <1>0, <1>1, <1>2, <1>3, <1>4
  <2>2. a - b < 2 /\ a - b > -1
    BY <1>0, <1>1, <1>2, <2>1
  <2> QED
    BY <1>1, <1>2, <2>2
<1>6. x - y = IF a - b = 0 THEN r - s ELSE Capacity + (r - s)
  BY <1>0, <1>4, <1>5, <1>1, <1>2
<1>7. x - y \in 0..(Capacity - 1) /\ (x - y) % Capacity = x - y
  BY <1>0, ModSmall
<1>8. (r - s) % Capacity = x - y
  <2> DEFINE d == r - s
             k == a - b
  <2>0. d \in Int /\ k \in Int
    BY <1>1, <1>2
  <2> HIDE DEF d, k
  <2>1a. (d + Capacity * k) % Capacity = d % Capacity
    BY <1>0, <2>0, ModShift
  <2>1. ((r - s) + Capacity * (a - b)) % Capacity = (r - s) % Capacity
    BY <2>1a DEF d, k
  <2>2. (r - s) + Capacity * (a - b) = x - y
    BY <1>0, <1>1, <1>2, <1>3, <1>4
  <2> QED
    BY <1>7, <2>1, <2>2
<1>9. Spsc!Masked(x) = r /\ Spsc!Masked(y) = s
  BY DEF Spsc!Masked, r, s
<1>10. Spsc!Masked(r - s) = x - y
  BY <1>8 DEF Spsc!Masked
<1>11. x - y = IF r >= s THEN r - s ELSE Capacity - s + r
  BY <1>0, <1>1, <1>2, <1>6, <1>7, <1>5
<1> QED
  BY <1>0, <1>1, <1>2, <1>9, <1>10, <1>11

\* How many slots the consumer has given back, and the last object constructed.
Freed == Len(spscPopped) - (IF spscPc["consumer"] = "store" THEN 1 ELSE 0)
Last == spscPushed + (IF spscPc["producer"] = "store" THEN 1 ELSE 0)

\* The two indexes, the slots and the places of the two threads.
SpscType ==
  /\ spscPushed \in Nat /\ spscPopped \in Seq(Nat) /\ canPop \in Int /\ canPush \in Int
  /\ spscPc \in [Spsc!Sides -> {"idle", "access", "store", "size", "gone"}]
  /\ sizeR \in [Spsc!Sides -> Int] /\ buffer \in [Spsc!Slots -> Nat]

\* The indexes are the counts of the two sides, which stay within a capacity of
\* each other, one slot apart when a push is under way.
SpscIndexes ==
  /\ read = Spsc!Masked(Freed) /\ write = Spsc!Masked(spscPushed)
  /\ Len(spscPopped) <= spscPushed /\ spscPushed - Freed < Capacity
  /\ spscPc["producer"] \in {"access", "store"} => spscPushed + 1 - Freed < Capacity
  /\ spscPc["producer"] # "gone"
  /\ spscPc["consumer"] = "access" => Len(spscPopped) < spscPushed
  /\ spscPc["consumer"] = "store" => Len(spscPopped) > 0
  /\ spscPc["consumer"] = "gone" => spscPc["producer"] = "idle"

\* The objects constructed and not popped are in the slots of their numbers, and
\* nothing else is in the buffer.
SpscBuffer ==
  /\ \A i \in 1..Len(spscPopped) : spscPopped[i] = i
  /\ spscPc["consumer"] # "gone" =>
       \A k \in (Len(spscPopped) + 1)..Last : buffer[Spsc!Masked(k - 1)] = k
  /\ \A s \in Spsc!Slots : buffer[s] # 0 =>
       /\ spscPc["consumer"] # "gone"
       /\ buffer[s] \in (Len(spscPopped) + 1)..Last /\ Spsc!Masked(buffer[s] - 1) = s

\* What Size has loaded is the index of a read count within reach of the write
\* count, which for the consumer is its own.
SpscSizes ==
  /\ spscPc["consumer"] = "size" => sizeR["consumer"] = read
  /\ spscPc["producer"] = "size" =>
       \E r \in Int : sizeR["producer"] = Spsc!Masked(r) /\ r <= Freed /\ spscPushed - r < Capacity
  /\ Spsc!SizeIsSafe

\* The inductive invariant of RingBuffer.
SpscInv == SpscType /\ SpscIndexes /\ SpscBuffer /\ SpscSizes

\* The empty RingBuffer.
LEMMA SpscInit == Spsc!Init => SpscInv
<1> SUFFICES ASSUME Spsc!Init PROVE SpscInv
  OBVIOUS
<1>1. <<>> \in Seq(Nat) /\ Len(<<>>) = 0 /\ Spsc!Masked(0) = 0
  BY QueuesAssumption, EmptySeq, ModSmall DEF Spsc!Masked
<1>2. Capacity \in Nat \ {0}
  BY QueuesAssumption
<1>3. SpscType
  BY <1>1 DEF Spsc!Init, SpscType, Spsc!Sides, Spsc!Slots, Spsc!Raw
<1>4. SpscIndexes
  BY <1>1, <1>2 DEF Spsc!Init, SpscIndexes, Freed, Spsc!Sides
<1>5. SpscBuffer
  BY <1>1 DEF Spsc!Init, SpscBuffer, Last, Spsc!Sides, Spsc!Raw
<1>6. SpscSizes
  BY <1>1, <1>2 DEF Spsc!Init, SpscSizes, Spsc!SizeIsSafe, Spsc!Sides
<1> QED
  BY <1>3, <1>4, <1>5, <1>6 DEF SpscInv

\* Push, Pop, Size and the destructor of RingBuffer keep the indexes, the slots and
\* the sizes a side relies on.
LEMMA SpscNext == SpscInv /\ [Spsc!Next]_spscVars => SpscInv'
<1> SUFFICES ASSUME SpscInv, [Spsc!Next]_spscVars PROVE SpscInv'
  OBVIOUS
<1>0. /\ SpscType /\ SpscIndexes /\ SpscBuffer /\ SpscSizes
      /\ Capacity \in Nat \ {0} /\ Len(spscPopped) \in Nat
      /\ "producer" \in Spsc!Sides /\ "consumer" \in Spsc!Sides
      /\ Freed \in Nat /\ Freed <= Len(spscPopped)
  BY QueuesAssumption, LenProperties DEF SpscInv, Spsc!Sides, Freed, SpscIndexes, SpscType
<1>1. CASE Spsc!PushTest
  <2>1. /\ spscPc["producer"] = "idle"
        /\ spscPc' = [spscPc EXCEPT !["producer"] = IF Spsc!Masked(write + 1) = read THEN "idle" ELSE "access"]
        /\ UNCHANGED <<read, write, buffer, sizeR, spscPushed, spscPopped, canPop, canPush>>
        /\ spscPc["consumer"] # "gone"
    BY <1>1 DEF Spsc!PushTest, Spsc!Goto, Spsc!history
  <2>2. spscPc'["producer"] = "access" => spscPushed + 1 - Freed < Capacity
    <3>1. Spsc!Masked(write + 1) = Spsc!Masked(spscPushed + 1)
      BY <1>0, MaskedNext DEF SpscIndexes, SpscType
    <3>2. spscPushed + 1 - Freed = Capacity => Spsc!Masked(spscPushed + 1) = Spsc!Masked(Freed)
      <4>1. spscPushed + 1 - Freed = Capacity => spscPushed + 1 = Freed + Capacity
        BY <1>0 DEF SpscType
      <4> QED
        BY <1>0, <4>1, MaskedRound
    <3> QED
      BY <1>0, <2>1, <3>1, <3>2 DEF SpscIndexes, SpscType
  <2>3. Freed' = Freed /\ Last' = Last /\ spscPc'["consumer"] = spscPc["consumer"]
    BY <1>0, <2>1 DEF Freed, Last, SpscType
  <2>4. SpscType'
    BY <1>0, <2>1 DEF SpscType
  <2>5. SpscIndexes'
    BY <1>0, <2>1, <2>2, <2>3 DEF SpscIndexes, SpscType
  <2>6. SpscBuffer'
    BY <1>0, <2>1, <2>3 DEF SpscBuffer
  <2>7. SpscSizes'
    BY <1>0, <2>1, <2>3 DEF SpscSizes, Spsc!SizeIsSafe, SpscType
  <2> QED
    BY <2>4, <2>5, <2>6, <2>7 DEF SpscInv
<1>2. CASE Spsc!Construct
  <2>1. /\ spscPc["producer"] = "access"
        /\ buffer' = [buffer EXCEPT ![write] = spscPushed + 1]
        /\ spscPc' = [spscPc EXCEPT !["producer"] = "store"]
        /\ UNCHANGED <<read, write, sizeR, spscPushed, spscPopped, canPop, canPush>>
    BY <1>2 DEF Spsc!Construct, Spsc!Goto, Spsc!history
  <2>2. /\ Freed' = Freed /\ spscPc'["consumer"] = spscPc["consumer"]
        /\ Last = spscPushed /\ Last' = spscPushed + 1
    BY <1>0, <2>1 DEF Freed, Last, SpscType
  <2>3. SpscType'
    <3>1. spscPushed + 1 \in Nat
      BY <1>0 DEF SpscType
    <3> QED
      BY <1>0, <2>1, <3>1 DEF SpscType
  <2>4. SpscIndexes'
    BY <1>0, <2>1, <2>2 DEF SpscIndexes, SpscType
  <2>5. write = Spsc!Masked(spscPushed) /\ write \in Spsc!Slots
    BY <1>0, MaskedNext DEF SpscIndexes, SpscType
  <2>6. \A k \in (Len(spscPopped) + 1)..spscPushed : Spsc!Masked(k - 1) # write /\ Spsc!Masked(k - 1) \in Spsc!Slots
    <3> SUFFICES ASSUME NEW k \in (Len(spscPopped) + 1)..spscPushed
                 PROVE  Spsc!Masked(k - 1) # write /\ Spsc!Masked(k - 1) \in Spsc!Slots
      OBVIOUS
    <3>1. k - 1 \in Int /\ k - 1 < spscPushed /\ spscPushed - (k - 1) < Capacity
      BY <1>0 DEF SpscIndexes, SpscType
    <3>2. Spsc!Masked(k - 1) # Spsc!Masked(spscPushed)
      BY <1>0, <3>1, MaskedDistance DEF SpscType
    <3> QED
      BY <2>5, <3>1, <3>2, MaskedNext
  <2>7. SpscBuffer'
    <3>1. \A k \in (Len(spscPopped) + 1)..(spscPushed + 1) : spscPc["consumer"] # "gone" => buffer'[Spsc!Masked(k - 1)] = k
      <4> SUFFICES ASSUME NEW k \in (Len(spscPopped) + 1)..(spscPushed + 1), spscPc["consumer"] # "gone"
                   PROVE  buffer'[Spsc!Masked(k - 1)] = k
        OBVIOUS
      <4>1. CASE k = spscPushed + 1
        <5>1. k - 1 = spscPushed
          BY <1>0, <4>1 DEF SpscType
        <5> QED
          BY <1>0, <2>1, <2>5, <4>1, <5>1 DEF SpscType
      <4>2. CASE k # spscPushed + 1
        <5>1. k \in (Len(spscPopped) + 1)..spscPushed
          BY <1>0, <4>2 DEF SpscType
        <5> QED
          BY <1>0, <2>1, <2>2, <2>6, <5>1 DEF SpscBuffer, SpscType
      <4> QED
        BY <4>1, <4>2
    <3>2. \A s \in Spsc!Slots : buffer'[s] # 0 =>
             /\ spscPc["consumer"] # "gone"
             /\ buffer'[s] \in (Len(spscPopped) + 1)..(spscPushed + 1) /\ Spsc!Masked(buffer'[s] - 1) = s
      <4> SUFFICES ASSUME NEW s \in Spsc!Slots, buffer'[s] # 0
                   PROVE  /\ spscPc["consumer"] # "gone"
                          /\ buffer'[s] \in (Len(spscPopped) + 1)..(spscPushed + 1)
                          /\ Spsc!Masked(buffer'[s] - 1) = s
        OBVIOUS
      <4>1. CASE s = write
        <5>1. buffer'[s] = spscPushed + 1 /\ spscPushed + 1 - 1 = spscPushed
          BY <1>0, <2>1, <4>1 DEF SpscType
        <5> QED
          BY <1>0, <2>1, <2>5, <4>1, <5>1 DEF SpscIndexes, SpscType
      <4>2. CASE s # write
        <5>1. buffer'[s] = buffer[s]
          BY <1>0, <2>1, <4>2 DEF SpscType
        <5>2. /\ spscPc["consumer"] # "gone"
              /\ buffer[s] \in (Len(spscPopped) + 1)..spscPushed /\ Spsc!Masked(buffer[s] - 1) = s
          BY <1>0, <2>2, <5>1 DEF SpscBuffer
        <5> QED
          BY <1>0, <5>1, <5>2 DEF SpscType
      <4> QED
        BY <4>1, <4>2
    <3> QED
      BY <1>0, <2>1, <2>2, <3>1, <3>2 DEF SpscBuffer
  <2>8. SpscSizes'
    BY <1>0, <2>1, <2>2 DEF SpscSizes, Spsc!SizeIsSafe, SpscType
  <2> QED
    BY <2>3, <2>4, <2>7, <2>8 DEF SpscInv
<1>3. CASE Spsc!PushStore
  <2>1. /\ spscPc["producer"] = "store" /\ write' = Spsc!Masked(write + 1) /\ spscPushed' = spscPushed + 1
        /\ spscPc' = [spscPc EXCEPT !["producer"] = "idle"]
        /\ UNCHANGED <<read, buffer, sizeR, spscPopped, canPop, canPush>>
    BY <1>3 DEF Spsc!PushStore, Spsc!Goto
  <2>2. /\ Freed' = Freed /\ spscPc'["consumer"] = spscPc["consumer"] /\ Last' = Last
        /\ spscPc'["producer"] = "idle" /\ spscPushed + 1 \in Nat
    BY <1>0, <2>1 DEF Freed, Last, SpscType
  <2>3. SpscType'
    BY <1>0, <2>1, <2>2 DEF SpscType
  <2>4. SpscIndexes'
    <3>1. write' = Spsc!Masked(spscPushed + 1)
      BY <1>0, <2>1, MaskedNext DEF SpscIndexes, SpscType
    <3> QED
      BY <1>0, <2>1, <2>2, <3>1 DEF SpscIndexes, SpscType
  <2>5. SpscBuffer'
    BY <1>0, <2>1, <2>2 DEF SpscBuffer
  <2>6. SpscSizes'
    BY <1>0, <2>1, <2>2 DEF SpscSizes, Spsc!SizeIsSafe, SpscType
  <2> QED
    BY <2>3, <2>4, <2>5, <2>6 DEF SpscInv
<1>4. CASE Spsc!PopTest
  <2>1. /\ spscPc["consumer"] = "idle"
        /\ spscPc' = [spscPc EXCEPT !["consumer"] = IF read = write THEN "idle" ELSE "access"]
        /\ UNCHANGED <<read, write, buffer, sizeR, spscPushed, spscPopped, canPop, canPush>>
    BY <1>4 DEF Spsc!PopTest, Spsc!Goto, Spsc!history
  <2>2. /\ spscPc'["producer"] = spscPc["producer"] /\ spscPc'["consumer"] \in {"idle", "access"}
        /\ Last' = Last /\ Freed' = Freed /\ Freed = Len(spscPopped)
    BY <1>0, <2>1 DEF Freed, Last, SpscType
  <2>3. spscPc'["consumer"] = "access" => Len(spscPopped) < spscPushed
    BY <1>0, <2>1, <2>2 DEF SpscIndexes, SpscType
  <2>4. SpscType'
    BY <1>0, <2>1 DEF SpscType
  <2>5. SpscIndexes'
    BY <1>0, <2>1, <2>2, <2>3 DEF SpscIndexes, SpscType
  <2>6. SpscBuffer'
    BY <1>0, <2>1, <2>2 DEF SpscBuffer
  <2>7. SpscSizes'
    BY <1>0, <2>1, <2>2 DEF SpscSizes, Spsc!SizeIsSafe, SpscType
  <2> QED
    BY <2>4, <2>5, <2>6, <2>7 DEF SpscInv
<1>5. CASE Spsc!MoveOut
  <2>1. /\ spscPc["consumer"] = "access" /\ spscPopped' = Append(spscPopped, buffer[read])
        /\ buffer' = [buffer EXCEPT ![read] = 0]
        /\ spscPc' = [spscPc EXCEPT !["consumer"] = "store"]
        /\ UNCHANGED <<read, write, sizeR, spscPushed, canPop, canPush>>
    BY <1>5 DEF Spsc!MoveOut, Spsc!Goto, Spsc!Raw
  <2>2. /\ spscPc'["producer"] = spscPc["producer"] /\ spscPc'["consumer"] = "store"
        /\ Last' = Last /\ Freed = Len(spscPopped) /\ Len(spscPopped) < spscPushed
        /\ spscPushed <= Last /\ Last - Freed < Capacity /\ Last \in Nat
    BY <1>0, <2>1 DEF Freed, Last, SpscType, SpscIndexes
  <2>3. read = Spsc!Masked(Len(spscPopped)) /\ read \in Spsc!Slots /\ buffer[read] = Len(spscPopped) + 1
    <3>1. read = Spsc!Masked(Len(spscPopped)) /\ read \in Spsc!Slots
      BY <1>0, <2>2, MaskedNext DEF SpscIndexes
    <3>2. Len(spscPopped) + 1 \in (Len(spscPopped) + 1)..Last /\ Len(spscPopped) + 1 - 1 = Len(spscPopped)
      BY <1>0, <2>2 DEF SpscType
    <3>3. buffer[Spsc!Masked(Len(spscPopped) + 1 - 1)] = Len(spscPopped) + 1
      BY <1>0, <2>1, <3>2 DEF SpscBuffer
    <3> QED
      BY <3>1, <3>2, <3>3
  <2>4. /\ spscPopped' \in Seq(Nat) /\ Len(spscPopped') = Len(spscPopped) + 1
        /\ \A i \in 1..Len(spscPopped') : spscPopped'[i] = i
    <3>1. buffer[read] \in Nat
      BY <1>0, <2>3
    <3>2. /\ spscPopped' \in Seq(Nat) /\ Len(spscPopped') = Len(spscPopped) + 1
          /\ \A i \in 1..Len(spscPopped) : spscPopped'[i] = spscPopped[i]
          /\ spscPopped'[Len(spscPopped) + 1] = buffer[read]
      BY <1>0, <2>1, <3>1, AppendProperties DEF SpscType
    <3> QED
      BY <1>0, <2>3, <3>2, SMTT(30) DEF SpscBuffer
  <2>5. Freed' = Freed
    BY <1>0, <2>2, <2>4 DEF Freed
  <2>6. SpscType'
    BY <1>0, <2>1, <2>4 DEF SpscType
  <2>7. SpscIndexes'
    BY <1>0, <2>1, <2>2, <2>4, <2>5 DEF SpscIndexes, SpscType
  <2>8. \A k \in (Len(spscPopped) + 2)..Last : buffer'[Spsc!Masked(k - 1)] = k
    <3> SUFFICES ASSUME NEW k \in (Len(spscPopped) + 2)..Last PROVE buffer'[Spsc!Masked(k - 1)] = k
      OBVIOUS
    <3>1. /\ k - 1 \in Int /\ Len(spscPopped) < k - 1 /\ (k - 1) - Len(spscPopped) < Capacity
          /\ k \in (Len(spscPopped) + 1)..Last
      BY <1>0, <2>2
    <3>2. Spsc!Masked(k - 1) # Spsc!Masked(Len(spscPopped))
      BY <1>0, <3>1, MaskedDistance
    <3>3. Spsc!Masked(k - 1) \in Spsc!Slots
      BY <3>1, MaskedNext
    <3>4. buffer[Spsc!Masked(k - 1)] = k
      BY <1>0, <2>1, <3>1 DEF SpscBuffer
    <3> QED
      BY <1>0, <2>1, <2>3, <3>2, <3>3, <3>4 DEF SpscType
  <2>9. \A s \in Spsc!Slots : buffer'[s] # 0 =>
           buffer'[s] \in (Len(spscPopped) + 2)..Last /\ Spsc!Masked(buffer'[s] - 1) = s
    <3> SUFFICES ASSUME NEW s \in Spsc!Slots, buffer'[s] # 0
                 PROVE  buffer'[s] \in (Len(spscPopped) + 2)..Last /\ Spsc!Masked(buffer'[s] - 1) = s
      OBVIOUS
    <3>1. s # read /\ buffer'[s] = buffer[s]
      BY <1>0, <2>1 DEF SpscType
    <3>2. buffer[s] \in (Len(spscPopped) + 1)..Last /\ Spsc!Masked(buffer[s] - 1) = s
      BY <1>0, <3>1 DEF SpscBuffer
    <3>3. buffer[s] # Len(spscPopped) + 1
      <4>1. Len(spscPopped) + 1 - 1 = Len(spscPopped)
        BY <1>0
      <4> QED
        BY <2>3, <3>1, <3>2, <4>1
    <3> QED
      BY <1>0, <2>2, <3>1, <3>2, <3>3
  <2>10. SpscBuffer'
    <3>1. Len(spscPopped') + 1 = Len(spscPopped) + 2
      BY <1>0, <2>4
    <3> QED
      BY <1>0, <2>2, <2>4, <2>8, <2>9, <3>1 DEF SpscBuffer
  <2>11. SpscSizes'
    BY <1>0, <2>1, <2>2, <2>4, <2>5 DEF SpscSizes, Spsc!SizeIsSafe, SpscType
  <2> QED
    BY <2>6, <2>7, <2>10, <2>11 DEF SpscInv
<1>6. CASE Spsc!PopStore
  <2>1. /\ spscPc["consumer"] = "store" /\ read' = Spsc!Masked(read + 1)
        /\ spscPc' = [spscPc EXCEPT !["consumer"] = "idle"]
        /\ UNCHANGED <<write, buffer, sizeR, spscPushed, spscPopped, canPop, canPush>>
    BY <1>6 DEF Spsc!PopStore, Spsc!Goto, Spsc!history
  <2>2. /\ spscPc'["producer"] = spscPc["producer"] /\ spscPc'["consumer"] = "idle"
        /\ Last' = Last /\ Freed' = Freed + 1 /\ Freed' = Len(spscPopped)
    BY <1>0, <2>1 DEF Freed, Last, SpscType
  <2>3. read' = Spsc!Masked(Freed')
    BY <1>0, <2>1, <2>2, MaskedNext DEF SpscIndexes
  <2>4. SpscType'
    BY <1>0, <2>1 DEF SpscType
  <2>5. SpscIndexes'
    BY <1>0, <2>1, <2>2, <2>3 DEF SpscIndexes, SpscType
  <2>6. SpscBuffer'
    BY <1>0, <2>1, <2>2 DEF SpscBuffer
  <2>7. SpscSizes'
    <3>1. spscPc["producer"] = "size" =>
            \E r \in Int : sizeR["producer"] = Spsc!Masked(r) /\ r <= Freed' /\ spscPushed - r < Capacity
      <4> SUFFICES ASSUME spscPc["producer"] = "size"
                   PROVE  \E r \in Int : sizeR["producer"] = Spsc!Masked(r) /\ r <= Freed' /\ spscPushed - r < Capacity
        OBVIOUS
      <4>1. PICK r \in Int : sizeR["producer"] = Spsc!Masked(r) /\ r <= Freed /\ spscPushed - r < Capacity
        BY <1>0 DEF SpscSizes
      <4>2. r <= Freed'
        BY <1>0, <2>2, <4>1
      <4> QED
        BY <4>1, <4>2
    <3> QED
      BY <1>0, <2>1, <2>2, <3>1 DEF SpscSizes, Spsc!SizeIsSafe, SpscType
  <2> QED
    BY <2>4, <2>5, <2>6, <2>7 DEF SpscInv
<1>7. ASSUME NEW side \in Spsc!Sides, Spsc!SizeLoad(side) PROVE SpscInv'
  <2>1. /\ spscPc[side] = "idle" /\ spscPc["consumer"] # "gone"
        /\ sizeR' = [sizeR EXCEPT ![side] = read]
        /\ spscPc' = [spscPc EXCEPT ![side] = "size"]
        /\ UNCHANGED <<read, write, buffer, spscPushed, spscPopped, canPop, canPush>>
    BY <1>7 DEF Spsc!SizeLoad, Spsc!Goto, Spsc!history
  <2>2. /\ spscPc'[side] = "size" /\ sizeR'[side] = read
        /\ \A o \in Spsc!Sides : o # side => spscPc'[o] = spscPc[o] /\ sizeR'[o] = sizeR[o]
    BY <1>0, <2>1 DEF SpscType
  <2>3. Freed' = Freed /\ Last' = Last
    BY <1>0, <2>1, <2>2 DEF Freed, Last, Spsc!Sides
  <2>4. SpscType'
    <3>1. read \in Int
      BY <1>0, MaskedNext DEF SpscIndexes, Spsc!Slots
    <3> QED
      BY <1>0, <2>1, <3>1 DEF SpscType
  <2>5. SpscIndexes'
    BY <1>0, <2>1, <2>2, <2>3 DEF SpscIndexes, Spsc!Sides
  <2>6. SpscBuffer'
    BY <1>0, <2>1, <2>2, <2>3 DEF SpscBuffer, Spsc!Sides
  <2>7. SpscSizes'
    <3>1. read = Spsc!Masked(Freed) /\ Freed <= Freed /\ spscPushed - Freed < Capacity
      BY <1>0 DEF SpscIndexes
    <3> QED
      BY <1>0, <2>1, <2>2, <2>3, <3>1 DEF SpscSizes, Spsc!SizeIsSafe, Spsc!Sides
  <2> QED
    BY <2>4, <2>5, <2>6, <2>7 DEF SpscInv
<1>8. ASSUME NEW side \in Spsc!Sides, Spsc!SizeReturn(side) PROVE SpscInv'
  <2> DEFINE size == IF write >= sizeR[side] THEN write - sizeR[side] ELSE Capacity - sizeR[side] + write
  <2>1. /\ spscPc[side] = "size"
        /\ canPop' = IF side = "consumer" THEN Len(spscPopped) + size ELSE canPop
        /\ canPush' = IF side = "producer" THEN spscPushed + Capacity - 1 - size ELSE canPush
        /\ spscPc' = [spscPc EXCEPT ![side] = "idle"]
        /\ UNCHANGED <<read, write, buffer, sizeR, spscPushed, spscPopped>>
    BY <1>8 DEF Spsc!SizeReturn, Spsc!Goto
  <2>2. /\ spscPc'[side] = "idle"
        /\ \A o \in Spsc!Sides : o # side => spscPc'[o] = spscPc[o]
    BY <1>0, <2>1 DEF SpscType
  <2>3. Freed' = Freed /\ Last' = Last
    BY <1>0, <2>1, <2>2 DEF Freed, Last, Spsc!Sides
  <2>4. side = "consumer" => size = spscPushed - Len(spscPopped)
    <3> SUFFICES ASSUME side = "consumer" PROVE size = spscPushed - Len(spscPopped)
      OBVIOUS
    <3>1. sizeR[side] = Spsc!Masked(Freed) /\ write = Spsc!Masked(spscPushed) /\ Freed = Len(spscPopped)
      BY <1>0, <2>1 DEF SpscSizes, SpscIndexes, Freed
    <3>2. Freed <= spscPushed /\ spscPushed - Freed < Capacity /\ spscPushed \in Int /\ Freed \in Int
      BY <1>0 DEF SpscIndexes, SpscType
    <3> QED
      BY <3>1, <3>2, MaskedDistance
  <2>5. side = "producer" => size \in Int /\ spscPushed - size <= Freed
    <3> SUFFICES ASSUME side = "producer" PROVE size \in Int /\ spscPushed - size <= Freed
      OBVIOUS
    <3>1. PICK r \in Int : sizeR[side] = Spsc!Masked(r) /\ r <= Freed /\ spscPushed - r < Capacity
      BY <1>0, <2>1 DEF SpscSizes
    <3>2. write = Spsc!Masked(spscPushed) /\ r <= spscPushed /\ spscPushed \in Int
      BY <1>0, <3>1 DEF SpscIndexes, SpscType
    <3>3. size = spscPushed - r
      BY <3>1, <3>2, MaskedDistance
    <3> QED
      BY <1>0, <3>1, <3>2, <3>3
  <2> HIDE DEF size
  <2>6. SpscType'
    BY <1>0, <2>1, <2>4, <2>5 DEF SpscType, Spsc!Sides
  <2>7. SpscIndexes'
    BY <1>0, <2>1, <2>2, <2>3 DEF SpscIndexes, Spsc!Sides
  <2>8. SpscBuffer'
    BY <1>0, <2>1, <2>2, <2>3 DEF SpscBuffer, Spsc!Sides
  <2>9. Spsc!SizeIsSafe'
    BY <1>0, <2>1, <2>4, <2>5 DEF SpscSizes, Spsc!SizeIsSafe, SpscType
  <2>10. SpscSizes'
    BY <1>0, <2>1, <2>2, <2>3, <2>9 DEF SpscSizes, Spsc!Sides
  <2> QED
    BY <2>6, <2>7, <2>8, <2>10 DEF SpscInv
<1>9. CASE Spsc!Destroy
  <2>1. /\ spscPc["producer"] = "idle" /\ spscPc["consumer"] = "idle"
        /\ buffer' = [s \in Spsc!Slots |-> IF Spsc!Masked(s - read) < Spsc!Masked(write - read) THEN 0 ELSE buffer[s]]
        /\ spscPc' = [spscPc EXCEPT !["consumer"] = "gone"]
        /\ UNCHANGED <<read, write, sizeR, spscPushed, spscPopped, canPop, canPush>>
    BY <1>0, <1>9 DEF Spsc!Destroy, Spsc!Goto, Spsc!history, Spsc!Raw
  <2>2. /\ spscPc'["producer"] = "idle" /\ spscPc'["consumer"] = "gone"
        /\ Last' = Last /\ Freed' = Freed /\ Freed = Len(spscPopped) /\ Last = spscPushed
    BY <1>0, <2>1 DEF Freed, Last, SpscType
  <2>3. Spsc!Masked(write - read) = spscPushed - Len(spscPopped)
    BY <1>0, <2>2, MaskedDistance DEF SpscIndexes, SpscType
  <2>4. \A s \in Spsc!Slots : buffer'[s] = 0
    <3> SUFFICES ASSUME NEW s \in Spsc!Slots, buffer[s] # 0
                 PROVE  Spsc!Masked(s - read) < Spsc!Masked(write - read)
      BY <2>1
    <3>1. buffer[s] \in (Len(spscPopped) + 1)..spscPushed /\ Spsc!Masked(buffer[s] - 1) = s
      BY <1>0, <2>2 DEF SpscBuffer
    <3>2. /\ buffer[s] - 1 \in Int /\ Len(spscPopped) <= buffer[s] - 1
          /\ (buffer[s] - 1) - Len(spscPopped) < spscPushed - Len(spscPopped)
          /\ (buffer[s] - 1) - Len(spscPopped) < Capacity
      BY <1>0, <2>2, <3>1 DEF SpscIndexes, SpscType
    <3>3. Spsc!Masked(s - read) = (buffer[s] - 1) - Len(spscPopped)
      BY <1>0, <2>2, <3>1, <3>2, MaskedDistance DEF SpscIndexes
    <3> QED
      BY <2>3, <3>2, <3>3
  <2>5. SpscType'
    BY <1>0, <2>1 DEF SpscType
  <2>6. SpscIndexes'
    BY <1>0, <2>1, <2>2 DEF SpscIndexes, SpscType
  <2>7. SpscBuffer'
    BY <1>0, <2>1, <2>2, <2>4 DEF SpscBuffer
  <2>8. SpscSizes'
    BY <1>0, <2>1, <2>2 DEF SpscSizes, Spsc!SizeIsSafe, SpscType
  <2> QED
    BY <2>5, <2>6, <2>7, <2>8 DEF SpscInv
<1>10. CASE UNCHANGED spscVars
  BY <1>0, <1>10 DEF spscVars, SpscInv, SpscType, SpscIndexes, SpscBuffer, SpscSizes, Freed, Last, Spsc!SizeIsSafe
<1> QED
  BY <1>1, <1>2, <1>3, <1>4, <1>5, <1>6, <1>7, <1>8, <1>9, <1>10 DEF Spsc!Next

\* What the invariant says of the objects and of Size.
LEMMA SpscSound == SpscInv => Spsc!ObjectsInOrder /\ Spsc!SizeIsSafe
<1> SUFFICES ASSUME SpscInv PROVE Spsc!ObjectsInOrder /\ Spsc!SizeIsSafe
  OBVIOUS
<1>0. /\ SpscType /\ SpscIndexes /\ SpscBuffer /\ SpscSizes /\ Capacity \in Nat \ {0}
      /\ Len(spscPopped) \in Nat /\ DOMAIN spscPopped = 1..Len(spscPopped)
  BY QueuesAssumption, LenProperties DEF SpscInv, SpscType
<1>1. spscPc["producer"] = "access" => buffer[write] = 0
  <2> SUFFICES ASSUME spscPc["producer"] = "access", buffer[write] # 0 PROVE FALSE
    OBVIOUS
  <2>1. /\ write = Spsc!Masked(spscPushed) /\ write \in Spsc!Slots /\ Last = spscPushed
        /\ spscPushed + 1 - Freed < Capacity /\ Freed <= Len(spscPopped) /\ Freed \in Int
    <3>1. Freed <= Len(spscPopped) /\ Freed \in Int /\ Last = spscPushed
      BY <1>0 DEF Freed, Last, SpscType
    <3>2. write = Spsc!Masked(spscPushed) /\ spscPushed + 1 - Freed < Capacity
      BY <1>0 DEF SpscIndexes
    <3> QED
      BY <1>0, <3>1, <3>2, MaskedNext DEF SpscType
  <2>2. buffer[write] \in (Len(spscPopped) + 1)..spscPushed /\ Spsc!Masked(buffer[write] - 1) = write
    BY <1>0, <2>1 DEF SpscBuffer
  <2>3. /\ buffer[write] - 1 \in Int /\ buffer[write] - 1 < spscPushed /\ spscPushed - (buffer[write] - 1) < Capacity
        /\ spscPushed \in Int
    BY <1>0, <2>1, <2>2 DEF SpscType
  <2> QED
    BY <2>1, <2>2, <2>3, MaskedDistance
<1>2. \A s \in Spsc!Slots : buffer[s] # 0 => buffer[s] > Len(spscPopped)
  BY <1>0 DEF SpscBuffer, SpscType
<1> QED
  BY <1>0, <1>1, <1>2 DEF Spsc!ObjectsInOrder, Spsc!Raw, SpscBuffer, SpscSizes

------------------------------------------------------------------------------
(* MpscQueue                                                               *)

\* Nodes with the dummy, and what a pointer may be.
Memory == Nodes \cup {Mpsc!Dummy}
Bytes == Memory \cup {Mpsc!Null}
MpscPlaces == {"idle", "exchange", "link", "storeTail", "skipDummy", "behind", "reload", "delete", "gone"}

\* The null pointer, the dummy and the nodes are distinct, and so are the consumer
\* and the producers.
LEMMA MpscConstants ==
  /\ Mpsc!Dummy \notin Nodes /\ Mpsc!Null \notin Memory /\ Mpsc!Consumer \notin MpscProducers
  /\ Mpsc!Enqueuers = MpscProducers \cup {Mpsc!Consumer}
  BY QueuesAssumption DEF Mpsc!Dummy, Mpsc!Null, Mpsc!Consumer, Mpsc!Enqueuers, Memory

\* The list, the threads and the messages counted.
MpscType ==
  /\ intrusive \in BOOLEAN /\ destroying \in BOOLEAN /\ enqueued \in Nat /\ dequeued \in Seq(Nat)
  /\ order \in Seq(Memory) /\ Len(order) >= 1
  /\ next \in [Memory -> Bytes] /\ data \in [Memory -> Nat]
  /\ mpscPc \in [Mpsc!Enqueuers -> MpscPlaces]
  /\ node \in [Mpsc!Enqueuers -> Bytes] /\ prevHead \in [Mpsc!Enqueuers -> Bytes]

\* The list: its nodes differ, and _tail and _head are its ends.
MpscOrder ==
  /\ \A i, j \in 1..Len(order) : order[i] = order[j] => i = j
  /\ tail = order[1] /\ mpscHead = order[Len(order)]
  /\ ~intrusive => \A i \in 1..Len(order) : i # 1 => order[i] # Mpsc!Dummy

\* A link is set, or the thread that is to set it is known: one for each.
MpscLinks ==
  /\ next[order[Len(order)]] = Mpsc!Null
  /\ \A i \in 1..(Len(order) - 1) :
       \/ next[order[i]] = order[i + 1]
       \/ next[order[i]] = Mpsc!Null
          /\ \E t \in Mpsc!Enqueuers : mpscPc[t] = "link" /\ prevHead[t] = order[i]
  /\ \A t \in Mpsc!Enqueuers : mpscPc[t] = "link" =>
       \E i \in 1..(Len(order) - 1) :
          prevHead[t] = order[i] /\ node[t] = order[i + 1] /\ next[order[i]] = Mpsc!Null
  /\ \A t, u \in Mpsc!Enqueuers :
       mpscPc[t] = "link" /\ mpscPc[u] = "link" /\ prevHead[t] = prevHead[u] => t = u

\* A node that is about to be exchanged in is in nobody else's hands.
MpscNew ==
  \A t \in Mpsc!Enqueuers : mpscPc[t] = "exchange" =>
    /\ node[t] \in (IF t = Mpsc!Consumer THEN {Mpsc!Dummy} ELSE Nodes)
    /\ next[node[t]] = Mpsc!Null /\ node[t] \in alive
    /\ \A i \in 1..Len(order) : order[i] # node[t]
    /\ \A u \in Mpsc!Enqueuers : mpscPc[u] = "exchange" /\ node[u] = node[t] => u = t

\* What exists is in the list or about to be.
MpscAlive ==
  /\ mpscPc[Mpsc!Consumer] # "gone" \/ intrusive => \A i \in 1..Len(order) : order[i] \in alive
  /\ intrusive => Mpsc!Dummy \in alive
  /\ \A m \in alive :
       \/ \E i \in 1..Len(order) : order[i] = m /\ (mpscPc[Mpsc!Consumer] = "gone" => intrusive)
       \/ \E t \in Mpsc!Enqueuers : mpscPc[t] = "exchange" /\ node[t] = m
       \/ intrusive /\ m = Mpsc!Dummy

\* The messages that wait are those not dequeued, in order.
MpscMessages ==
  /\ \A i \in 1..Len(dequeued) : dequeued[i] = i
  /\ \A i \in 1..Len(order) : Mpsc!MessageAt(i) => data[order[i]] \in (Len(dequeued) + 1)..enqueued
  /\ \A k \in (Len(dequeued) + 1)..enqueued :
       \E i \in 1..Len(order) : Mpsc!MessageAt(i) /\ data[order[i]] = k
  /\ \A i, j \in 1..Len(order) : Mpsc!MessageAt(i) /\ Mpsc!MessageAt(j) /\ i < j =>
       data[order[i]] < data[order[j]]
  /\ Len(dequeued) <= enqueued

\* What the consumer knows at each place of Dequeue.
MpscConsumer ==
  /\ \A p \in MpscProducers : mpscPc[p] \in {"idle", "exchange", "link"}
  /\ mpscPc[Mpsc!Consumer] \in
       (IF intrusive THEN {"idle", "skipDummy", "behind", "exchange", "link", "reload", "gone"}
        ELSE {"idle", "storeTail", "delete", "gone"})
  /\ destroying => \A p \in MpscProducers : mpscPc[p] = "idle"
  /\ mpscPc[Mpsc!Consumer] \in {"delete", "gone"} =>
       destroying /\ Len(order) = 1 /\ (intrusive => tail = Mpsc!Dummy)
  /\ mpscPc[Mpsc!Consumer] \in {"storeTail", "skipDummy"} =>
       cTail = tail /\ cNext # Mpsc!Null /\ cNext = next[tail]
  /\ mpscPc[Mpsc!Consumer] = "skipDummy" => tail = Mpsc!Dummy
  /\ mpscPc[Mpsc!Consumer] \in {"behind", "exchange", "link", "reload"} =>
       cTail = tail /\ tail # Mpsc!Dummy
  /\ mpscPc[Mpsc!Consumer] = "behind" /\ cNext # Mpsc!Null => cNext = next[tail]

\* The inductive invariant of MPSCQueue.
MpscInv ==
  MpscType /\ MpscOrder /\ MpscLinks /\ MpscNew /\ MpscAlive /\ MpscMessages /\ MpscConsumer

\* The list that holds the dummy alone.
LEMMA MpscInit == Mpsc!Init => MpscInv
<1> SUFFICES ASSUME Mpsc!Init PROVE MpscInv
  OBVIOUS
<1>1. /\ order = <<Mpsc!Dummy>> /\ Len(order) = 1 /\ order[1] = Mpsc!Dummy /\ order \in Seq(Memory)
      /\ dequeued = <<>> /\ Len(dequeued) = 0 /\ dequeued \in Seq(Nat)
  BY DEF Mpsc!Init, Memory
<1>2. /\ next \in [Memory -> Bytes] /\ next[Mpsc!Dummy] = Mpsc!Null /\ data \in [Memory -> Nat]
      /\ node \in [Mpsc!Enqueuers -> Bytes] /\ prevHead \in [Mpsc!Enqueuers -> Bytes]
  BY DEF Mpsc!Init, Memory, Bytes
<1>3. \A t \in Mpsc!Enqueuers : mpscPc[t] = "idle"
  BY DEF Mpsc!Init
<1>4. mpscPc \in [Mpsc!Enqueuers -> MpscPlaces]
  BY DEF Mpsc!Init, MpscPlaces
<1>5. intrusive \in BOOLEAN /\ destroying = FALSE /\ enqueued = 0 /\ alive = {Mpsc!Dummy}
      /\ mpscHead = Mpsc!Dummy /\ tail = Mpsc!Dummy
  BY DEF Mpsc!Init
<1>6. MpscType
  <2>1. enqueued \in Nat /\ Len(order) >= 1
    BY <1>1, <1>5
  <2>2. destroying \in BOOLEAN
    BY <1>5, Zenon
  <2> QED
    BY <1>1, <1>2, <1>4, <1>5, <2>1, <2>2, Zenon DEF MpscType
<1>7. MpscOrder
  BY <1>1, <1>5 DEF MpscOrder
<1>8. MpscLinks
  BY <1>1, <1>2, <1>3 DEF MpscLinks
<1>9. MpscNew
  BY <1>3 DEF MpscNew
<1>10. MpscAlive
  BY <1>1, <1>5, <1>3, MpscConstants DEF MpscAlive
<1>11. MpscMessages
  BY <1>1, <1>5 DEF MpscMessages, Mpsc!MessageAt
<1>12. MpscConsumer
  BY <1>3, <1>5, MpscConstants DEF MpscConsumer
<1> QED
  BY <1>6, <1>7, <1>8, <1>9, <1>10, <1>11, <1>12 DEF MpscInv

\* The first message that waits is the next one.
LEMMA TakeFirst ==
  ASSUME MpscType, MpscType', MpscMessages, UNCHANGED <<data, enqueued>>,
         Len(order') = Len(order) - 1, \A i \in 1..(Len(order) - 1) : order'[i] = order[i + 1],
         NEW f \in 1..Len(order), Mpsc!MessageAt(f),
         \A i \in 1..Len(order) : Mpsc!MessageAt(i) => f <= i,
         \A i \in 1..(Len(order) - 1) : Mpsc!MessageAt(i)' <=> i + 1 # f /\ Mpsc!MessageAt(i + 1),
         dequeued' = Append(dequeued, data[order[f]])
  PROVE  MpscMessages'
<1>0. /\ Len(dequeued) \in Nat /\ Len(order) \in Nat /\ enqueued \in Nat
      /\ \A i \in 1..Len(order) : order[i] \in Memory /\ data[order[i]] \in Nat
  BY LenProperties, ElementOfSeq DEF MpscType
<1>1. data[order[f]] = Len(dequeued) + 1
  <2>1. data[order[f]] \in (Len(dequeued) + 1)..enqueued
    BY DEF MpscMessages
  <2>2. Len(dequeued) + 1 \in (Len(dequeued) + 1)..enqueued
    BY <1>0, <2>1
  <2>3. PICK i \in 1..Len(order) : Mpsc!MessageAt(i) /\ data[order[i]] = Len(dequeued) + 1
    BY <2>2 DEF MpscMessages
  <2>4. CASE i = f
    BY <2>3, <2>4
  <2>5. CASE i # f
    <3>1. f < i
      BY <2>3, <2>5, <1>0
    <3>2. data[order[f]] < data[order[i]]
      BY <2>3, <3>1 DEF MpscMessages
    <3> QED
      BY <1>0, <2>1, <2>3, <3>2
  <2> QED
    BY <2>4, <2>5
<1>2. /\ Len(dequeued') = Len(dequeued) + 1
      /\ \A i \in 1..Len(dequeued) : dequeued'[i] = dequeued[i]
      /\ dequeued'[Len(dequeued) + 1] = Len(dequeued) + 1
  BY <1>0, <1>1, AppendProperties DEF MpscType
<1>3. \A i \in 1..Len(dequeued') : dequeued'[i] = i
  BY <1>0, <1>2 DEF MpscMessages
<1>4. ASSUME NEW i \in 1..Len(order'), Mpsc!MessageAt(i)'
      PROVE  data'[order'[i]] \in (Len(dequeued') + 1)..enqueued'
  <2>1. /\ i + 1 \in 1..Len(order) /\ i + 1 # f /\ Mpsc!MessageAt(i + 1) /\ order'[i] = order[i + 1]
    BY <1>0, <1>4
  <2>2. data[order[f]] < data[order[i + 1]]
    BY <1>0, <2>1 DEF MpscMessages
  <2>3. data[order[i + 1]] \in (Len(dequeued) + 1)..enqueued
    BY <2>1 DEF MpscMessages
  <2> QED
    BY <1>0, <1>1, <1>2, <2>1, <2>2, <2>3
<1>5. ASSUME NEW k \in (Len(dequeued') + 1)..enqueued'
      PROVE  \E i \in 1..Len(order') : Mpsc!MessageAt(i)' /\ data'[order'[i]] = k
  <2>1. k \in (Len(dequeued) + 1)..enqueued /\ k # Len(dequeued) + 1
    BY <1>0, <1>2
  <2>2. PICK i \in 1..Len(order) : Mpsc!MessageAt(i) /\ data[order[i]] = k
    BY <2>1 DEF MpscMessages
  <2>3. i # f /\ f <= i
    BY <1>1, <2>1, <2>2
  <2>4. i - 1 \in 1..(Len(order) - 1) /\ (i - 1) + 1 = i
    BY <1>0, <2>3
  <2>5. Mpsc!MessageAt(i - 1)' /\ order'[i - 1] = order[i]
    <3>1. order'[i - 1] = order[(i - 1) + 1] /\ (Mpsc!MessageAt(i - 1)' <=> (i - 1) + 1 # f /\ Mpsc!MessageAt((i - 1) + 1))
      BY <2>4
    <3> QED
      BY <2>2, <2>3, <2>4, <3>1
  <2> QED
    BY <1>0, <2>2, <2>4, <2>5
<1>6. ASSUME NEW i \in 1..Len(order'), NEW j \in 1..Len(order'), Mpsc!MessageAt(i)', Mpsc!MessageAt(j)', i < j
      PROVE  data'[order'[i]] < data'[order'[j]]
  <2>1. /\ i + 1 \in 1..Len(order) /\ Mpsc!MessageAt(i + 1) /\ order'[i] = order[i + 1]
        /\ j + 1 \in 1..Len(order) /\ Mpsc!MessageAt(j + 1) /\ order'[j] = order[j + 1]
        /\ i + 1 < j + 1
    BY <1>0, <1>6
  <2>2. data[order[i + 1]] < data[order[j + 1]]
    BY <2>1 DEF MpscMessages
  <2> QED
    BY <2>1, <2>2
<1>7. Len(dequeued') <= enqueued'
  BY <1>0, <1>1, <1>2 DEF MpscMessages
<1> QED
  BY <1>3, <1>4, <1>5, <1>6, <1>7 DEF MpscMessages

\* The consumer moves _tail to the next node.
LEMMA MoveTail ==
  ASSUME MpscInv, order' = Tail(order), tail' = next[tail], next[tail] # Mpsc!Null,
         UNCHANGED <<intrusive, mpscHead, next, node, prevHead>>,
         mpscPc[Mpsc!Consumer] \notin {"exchange", "link"},
         mpscPc'[Mpsc!Consumer] \notin {"exchange", "link"},
         \A p \in MpscProducers : mpscPc'[p] = mpscPc[p]
  PROVE  /\ Len(order) >= 2 /\ order[2] = next[tail] /\ Len(order) \in Nat
         /\ order' \in Seq(Memory) /\ Len(order') = Len(order) - 1 /\ Len(order') >= 1
         /\ \A i \in 1..(Len(order) - 1) : order'[i] = order[i + 1]
         /\ MpscOrder' /\ MpscLinks'
<1>0. /\ MpscType /\ MpscOrder /\ MpscLinks /\ MpscConsumer /\ order # <<>>
      /\ Len(order) \in Nat /\ Len(order) >= 1
  BY LenProperties, EmptySeq DEF MpscInv, MpscType
<1>1. Len(order) >= 2
  <2>1. Len(order) # 1
    BY <1>0 DEF MpscLinks, MpscOrder
  <2>2. Len(order) \in Nat /\ Len(order) >= 1
    BY <1>0
  <2>3. \A m \in Nat : m >= 1 /\ m # 1 => m >= 2
    OBVIOUS
  <2> QED
    BY <2>1, <2>2, <2>3, Zenon
<1>2. 1 \in 1..(Len(order) - 1) /\ 1 + 1 = 2
  BY <1>0, <1>1
<1>3. order[2] = next[tail]
  BY <1>0, <1>2 DEF MpscLinks, MpscOrder
<1>4. /\ order' \in Seq(Memory) /\ Len(order') = Len(order) - 1 /\ Len(order') >= 1
      /\ \A i \in 1..(Len(order) - 1) : order'[i] = order[i + 1]
  BY <1>0, <1>1, HeadTailProperties DEF MpscType
<1>5. MpscOrder'
  <2>1. order'[1] = order[2] /\ order'[Len(order')] = order[Len(order)]
    <3>1. Len(order') \in 1..(Len(order) - 1) /\ Len(order') + 1 = Len(order)
      BY <1>0, <1>1, <1>4
    <3> QED
      BY <1>2, <1>4, <3>1
  <2>2. \A i, j \in 1..Len(order') : order'[i] = order'[j] => i = j
    <3> SUFFICES ASSUME NEW i \in 1..Len(order'), NEW j \in 1..Len(order'), order'[i] = order'[j] PROVE i = j
      OBVIOUS
    <3>1. i + 1 \in 1..Len(order) /\ j + 1 \in 1..Len(order) /\ order[i + 1] = order[j + 1]
      BY <1>0, <1>4
    <3>2. i + 1 = j + 1
      BY <1>0, <3>1 DEF MpscOrder
    <3> QED
      BY <3>2
  <2>3. ~intrusive => \A i \in 1..Len(order') : order'[i] # Mpsc!Dummy
    <3> SUFFICES ASSUME ~intrusive, NEW i \in 1..Len(order') PROVE order'[i] # Mpsc!Dummy
      OBVIOUS
    <3>1. i + 1 \in 1..Len(order) /\ i + 1 # 1 /\ order'[i] = order[i + 1]
      BY <1>0, <1>4
    <3> QED
      BY <1>0, <3>1 DEF MpscOrder
  <2>4. tail' = order'[1] /\ mpscHead' = order'[Len(order')]
    BY <1>0, <1>3, <2>1 DEF MpscOrder
  <2> QED
    BY <2>2, <2>3, <2>4 DEF MpscOrder
<1>6. \A t \in Mpsc!Enqueuers : mpscPc'[t] = "link" <=> mpscPc[t] = "link"
  BY MpscConstants
<1>7. next'[order'[Len(order')]] = Mpsc!Null
  <2>1. Len(order') \in 1..(Len(order) - 1) /\ Len(order') + 1 = Len(order)
    BY <1>0, <1>1, <1>4
  <2> QED
    BY <1>0, <1>4, <2>1 DEF MpscLinks
<1>8. ASSUME NEW i \in 1..(Len(order') - 1)
      PROVE  \/ next'[order'[i]] = order'[i + 1]
             \/ next'[order'[i]] = Mpsc!Null
                /\ \E t \in Mpsc!Enqueuers : mpscPc'[t] = "link" /\ prevHead'[t] = order'[i]
  <2>1. /\ i + 1 \in 1..(Len(order) - 1) /\ order'[i] = order[i + 1] /\ order'[i + 1] = order[(i + 1) + 1]
    BY <1>0, <1>4
  <2>2. \/ next[order[i + 1]] = order[(i + 1) + 1]
        \/ next[order[i + 1]] = Mpsc!Null
           /\ \E t \in Mpsc!Enqueuers : mpscPc[t] = "link" /\ prevHead[t] = order[i + 1]
    BY <1>0, <2>1 DEF MpscLinks
  <2> QED
    BY <1>6, <2>1, <2>2
<1>9. ASSUME NEW t \in Mpsc!Enqueuers, mpscPc'[t] = "link"
      PROVE  \E i \in 1..(Len(order') - 1) :
               prevHead'[t] = order'[i] /\ node'[t] = order'[i + 1] /\ next'[order'[i]] = Mpsc!Null
  <2>1. PICK i \in 1..(Len(order) - 1) :
               prevHead[t] = order[i] /\ node[t] = order[i + 1] /\ next[order[i]] = Mpsc!Null
    BY <1>0, <1>6, <1>9 DEF MpscLinks
  <2>2. i # 1
    BY <1>0, <2>1 DEF MpscOrder
  <2>3. /\ i - 1 \in 1..(Len(order') - 1) /\ (i - 1) + 1 = i
        /\ order'[i - 1] = order[(i - 1) + 1] /\ order'[(i - 1) + 1] = order[i + 1]
    BY <1>0, <1>4, <2>2
  <2>4. prevHead'[t] = order'[i - 1] /\ node'[t] = order'[(i - 1) + 1] /\ next'[order'[i - 1]] = Mpsc!Null
    BY <2>1, <2>3
  <2> QED
    BY <2>3, <2>4
<1>10. \A t, u \in Mpsc!Enqueuers :
         mpscPc'[t] = "link" /\ mpscPc'[u] = "link" /\ prevHead'[t] = prevHead'[u] => t = u
  BY <1>0, <1>6 DEF MpscLinks
<1>11. MpscLinks'
  BY <1>7, <1>8, <1>9, <1>10 DEF MpscLinks
<1> QED
  BY <1>0, <1>1, <1>3, <1>4, <1>5, <1>11

\* _tail, with what it gives up: a message is taken, or the dummy is skipped.
LEMMA MoveTailRest ==
  ASSUME MpscInv, NEW x, x = order[1], Len(order) \in Nat, Len(order') = Len(order) - 1, Len(order) >= 2,
         \A i \in 1..(Len(order) - 1) : order'[i] = order[i + 1],
         UNCHANGED <<intrusive, next, node>>,
         mpscPc[Mpsc!Consumer] \notin {"exchange", "gone"},
         mpscPc'[Mpsc!Consumer] \notin {"exchange", "gone"},
         \A p \in MpscProducers : mpscPc'[p] = mpscPc[p],
         \/ alive' = alive \ {x} /\ (intrusive => x # Mpsc!Dummy)
         \/ alive' = alive /\ intrusive /\ x = Mpsc!Dummy
  PROVE  MpscNew' /\ MpscAlive'
<1>0. MpscType /\ MpscOrder /\ MpscNew /\ MpscAlive
  BY DEF MpscInv
<1>1. \A t \in Mpsc!Enqueuers : mpscPc'[t] = "exchange" <=> mpscPc[t] = "exchange"
  BY MpscConstants
<1>2. \A i \in 1..Len(order') : i + 1 \in 1..Len(order) /\ order'[i] = order[i + 1]
  OBVIOUS
<1>3. \A t \in Mpsc!Enqueuers : mpscPc[t] = "exchange" => node[t] # x /\ node[t] \in alive
  BY <1>0 DEF MpscNew
<1>4. MpscNew'
  <2> SUFFICES ASSUME NEW t \in Mpsc!Enqueuers, mpscPc'[t] = "exchange"
               PROVE  /\ node'[t] \in (IF t = Mpsc!Consumer THEN {Mpsc!Dummy} ELSE Nodes)
                      /\ next'[node'[t]] = Mpsc!Null /\ node'[t] \in alive'
                      /\ \A i \in 1..Len(order') : order'[i] # node'[t]
                      /\ \A u \in Mpsc!Enqueuers : mpscPc'[u] = "exchange" /\ node'[u] = node'[t] => u = t
    BY DEF MpscNew
  <2>1. mpscPc[t] = "exchange" /\ node'[t] \in alive'
    BY <1>1, <1>3
  <2>2. \A i \in 1..Len(order') : order'[i] # node'[t]
    BY <1>0, <1>2, <2>1 DEF MpscNew
  <2> QED
    BY <1>0, <1>1, <2>1, <2>2 DEF MpscNew
<1>5. \A i \in 1..Len(order') : order'[i] \in alive'
  <2> SUFFICES ASSUME NEW i \in 1..Len(order') PROVE order'[i] \in alive'
    OBVIOUS
  <2>1. i + 1 \in 1..Len(order) /\ order'[i] = order[i + 1] /\ i + 1 # 1
    BY <1>2
  <2>2. order[i + 1] # x
    BY <1>0, <2>1 DEF MpscOrder
  <2> QED
    BY <1>0, <2>1, <2>2 DEF MpscAlive
<1>6. intrusive' => Mpsc!Dummy \in alive'
  BY <1>0 DEF MpscAlive
<1>7. ASSUME NEW m \in alive'
      PROVE  \/ \E i \in 1..Len(order') : order'[i] = m
             \/ \E t \in Mpsc!Enqueuers : mpscPc'[t] = "exchange" /\ node'[t] = m
             \/ intrusive' /\ m = Mpsc!Dummy
  <2>1. \/ \E i \in 1..Len(order) : order[i] = m
        \/ \E t \in Mpsc!Enqueuers : mpscPc[t] = "exchange" /\ node[t] = m
        \/ intrusive /\ m = Mpsc!Dummy
    BY <1>0 DEF MpscAlive
  <2>2. CASE \E i \in 1..Len(order) : order[i] = m
    <3>1. PICK i \in 1..Len(order) : order[i] = m
      BY <2>2
    <3>2. CASE i = 1
      BY <3>1, <3>2
    <3>3. CASE i # 1
      <4>1. i - 1 \in 1..Len(order') /\ order'[i - 1] = order[(i - 1) + 1] /\ (i - 1) + 1 = i
        BY <3>3
      <4> QED
        BY <3>1, <4>1
    <3> QED
      BY <3>2, <3>3
  <2> QED
    BY <1>1, <2>1, <2>2
<1>8. MpscAlive'
  BY <1>5, <1>6, <1>7 DEF MpscAlive
<1> QED
  BY <1>4, <1>8

\* A producer takes memory that is not in the list.
LEMMA MpscBegin ==
  ASSUME MpscInv, NEW p \in MpscProducers, NEW m \in Nodes, Mpsc!Begin(p, m)
  PROVE  MpscInv'
<1>0. /\ MpscType /\ MpscOrder /\ MpscLinks /\ MpscNew /\ MpscAlive /\ MpscMessages /\ MpscConsumer
      /\ p \in Mpsc!Enqueuers /\ p # Mpsc!Consumer /\ m # Mpsc!Dummy /\ m \in Memory
      /\ Len(order) \in Nat /\ Len(order) >= 1 /\ \A i \in 1..Len(order) : order[i] \in Memory
      /\ Mpsc!Consumer \in Mpsc!Enqueuers
  BY MpscConstants, LenProperties, ElementOfSeq DEF MpscInv, MpscType, Memory
<1>1. /\ mpscPc[p] = "idle" /\ ~destroying /\ m \notin alive /\ alive' = alive \cup {m}
      /\ next' = [next EXCEPT ![m] = Mpsc!Null] /\ node' = [node EXCEPT ![p] = m]
      /\ mpscPc' = [mpscPc EXCEPT ![p] = "exchange"]
      /\ UNCHANGED <<intrusive, mpscHead, tail, data, prevHead, cTail, cNext, destroying, order, enqueued, dequeued>>
  BY DEF Mpsc!Begin
<1>2. mpscPc[Mpsc!Consumer] \notin {"delete", "gone"} /\ mpscPc'[Mpsc!Consumer] = mpscPc[Mpsc!Consumer]
  BY <1>0, <1>1 DEF MpscConsumer, MpscType
<1>3. \A i \in 1..Len(order) : order[i] # m /\ next'[order[i]] = next[order[i]]
  BY <1>0, <1>1, <1>2 DEF MpscAlive, MpscType
<1>4. /\ node'[p] = m /\ mpscPc'[p] = "exchange"
      /\ \A t \in Mpsc!Enqueuers : t # p => node'[t] = node[t] /\ mpscPc'[t] = mpscPc[t]
  BY <1>0, <1>1 DEF MpscType
<1>5. MpscType'
  <2>1. m \in Bytes /\ Mpsc!Null \in Bytes /\ "exchange" \in MpscPlaces
    BY <1>0 DEF Bytes, MpscPlaces
  <2>2. next' \in [Memory -> Bytes] /\ node' \in [Mpsc!Enqueuers -> Bytes] /\ mpscPc' \in [Mpsc!Enqueuers -> MpscPlaces]
    BY <1>0, <1>1, <2>1 DEF MpscType
  <2> QED
    BY <1>0, <1>1, <2>2, Zenon DEF MpscType
<1>6. MpscOrder'
  BY <1>0, <1>1 DEF MpscOrder
<1>7. MpscLinks'
  <2>1. next'[order'[Len(order')]] = Mpsc!Null
    BY <1>0, <1>1, <1>3 DEF MpscLinks
  <2>2. ASSUME NEW i \in 1..(Len(order') - 1)
        PROVE  \/ next'[order'[i]] = order'[i + 1]
               \/ next'[order'[i]] = Mpsc!Null
                  /\ \E t \in Mpsc!Enqueuers : mpscPc'[t] = "link" /\ prevHead'[t] = order'[i]
    BY <1>0, <1>1, <1>3, <1>4 DEF MpscLinks
  <2>3. ASSUME NEW t \in Mpsc!Enqueuers, mpscPc'[t] = "link"
        PROVE  \E i \in 1..(Len(order') - 1) :
                 prevHead'[t] = order'[i] /\ node'[t] = order'[i + 1] /\ next'[order'[i]] = Mpsc!Null
    <3>1. t # p /\ mpscPc[t] = "link"
      BY <1>4, <2>3
    <3> QED
      BY <1>0, <1>1, <1>3, <1>4, <3>1 DEF MpscLinks
  <2>4. \A t, u \in Mpsc!Enqueuers :
         mpscPc'[t] = "link" /\ mpscPc'[u] = "link" /\ prevHead'[t] = prevHead'[u] => t = u
    BY <1>0, <1>1, <1>4 DEF MpscLinks
  <2> QED
    BY <2>1, <2>2, <2>3, <2>4 DEF MpscLinks
<1>8. MpscNew'
  <2> SUFFICES ASSUME NEW t \in Mpsc!Enqueuers, mpscPc'[t] = "exchange"
               PROVE  /\ node'[t] \in (IF t = Mpsc!Consumer THEN {Mpsc!Dummy} ELSE Nodes)
                      /\ next'[node'[t]] = Mpsc!Null /\ node'[t] \in alive'
                      /\ \A i \in 1..Len(order') : order'[i] # node'[t]
                      /\ \A u \in Mpsc!Enqueuers : mpscPc'[u] = "exchange" /\ node'[u] = node'[t] => u = t
    BY DEF MpscNew
  <2>1. CASE t = p
    <3>1. \A u \in Mpsc!Enqueuers : u # p /\ mpscPc'[u] = "exchange" => node'[u] # m
      BY <1>0, <1>1, <1>4 DEF MpscNew
    <3>2. next'[m] = Mpsc!Null
      BY <1>0, <1>1 DEF MpscType
    <3> QED
      BY <1>0, <1>1, <1>3, <1>4, <2>1, <3>1, <3>2
  <2>2. CASE t # p
    <3>1. /\ mpscPc[t] = "exchange" /\ node'[t] = node[t] /\ node[t] # m /\ node[t] \in alive'
          /\ node[t] \in Memory /\ next'[node[t]] = Mpsc!Null
      <4>1. mpscPc[t] = "exchange" /\ node'[t] = node[t] /\ node[t] \in alive /\ node[t] \in Memory /\ next[node[t]] = Mpsc!Null
        BY <1>0, <1>4, <2>2 DEF MpscNew, Memory
      <4> QED
        BY <1>0, <1>1, <4>1 DEF MpscType
    <3> QED
      BY <1>0, <1>1, <1>4, <3>1 DEF MpscNew
  <2> QED
    BY <2>1, <2>2
<1>9. MpscAlive'
  BY <1>0, <1>1, <1>2, <1>4 DEF MpscAlive
<1>10. MpscMessages'
  BY <1>0, <1>1 DEF MpscMessages, Mpsc!MessageAt
<1>11. MpscConsumer'
  <2>1. tail' = tail /\ next'[tail] = next[tail]
    <3>1. 1 \in 1..Len(order) /\ tail = order[1]
      BY <1>0 DEF MpscOrder
    <3> QED
      BY <1>1, <1>3, <3>1
  <2> QED
    BY <1>0, <1>1, <1>2, <1>4, <2>1 DEF MpscConsumer, Mpsc!Enqueuers
<1> QED
  BY <1>5, <1>6, <1>7, <1>8, <1>9, <1>10, <1>11 DEF MpscInv

\* The exchange of _head appends the node; the list is cut before it.
LEMMA MpscExchange ==
  ASSUME MpscInv, NEW t \in Mpsc!Enqueuers, Mpsc!Exchange(t)
  PROVE  MpscInv'
<1>0. /\ MpscType /\ MpscOrder /\ MpscLinks /\ MpscNew /\ MpscAlive /\ MpscMessages /\ MpscConsumer
      /\ Len(order) \in Nat /\ Len(order) >= 1 /\ \A i \in 1..Len(order) : order[i] \in Memory
      /\ Mpsc!Consumer \in Mpsc!Enqueuers /\ Len(dequeued) \in Nat
  BY MpscConstants, LenProperties, ElementOfSeq DEF MpscInv, MpscType
<1>1. /\ mpscPc[t] = "exchange" /\ prevHead' = [prevHead EXCEPT ![t] = mpscHead] /\ mpscHead' = node[t]
      /\ order' = Append(order, node[t]) /\ mpscPc' = [mpscPc EXCEPT ![t] = "link"]
      /\ IF t = Mpsc!Consumer THEN UNCHANGED <<enqueued, data>>
         ELSE enqueued' = enqueued + 1 /\ data' = [data EXCEPT ![node[t]] = enqueued + 1]
      /\ UNCHANGED <<intrusive, next, tail, alive, node, cTail, cNext, destroying, dequeued>>
  BY DEF Mpsc!Exchange
<1>2. /\ node[t] \in (IF t = Mpsc!Consumer THEN {Mpsc!Dummy} ELSE Nodes)
      /\ node[t] \in Memory /\ next[node[t]] = Mpsc!Null /\ node[t] \in alive
      /\ \A i \in 1..Len(order) : order[i] # node[t]
      /\ \A u \in Mpsc!Enqueuers : mpscPc[u] = "exchange" /\ node[u] = node[t] => u = t
  BY <1>0, <1>1 DEF MpscNew, Memory
<1>3. /\ order' \in Seq(Memory) /\ Len(order') = Len(order) + 1
      /\ \A i \in 1..Len(order) : order'[i] = order[i]
      /\ order'[Len(order) + 1] = node[t]
  BY <1>0, <1>1, <1>2, AppendProperties DEF MpscType
<1>4. /\ mpscPc'[t] = "link" /\ prevHead'[t] = order[Len(order)]
      /\ \A u \in Mpsc!Enqueuers : u # t => mpscPc'[u] = mpscPc[u] /\ prevHead'[u] = prevHead[u]
  BY <1>0, <1>1 DEF MpscType, MpscOrder
<1>5. /\ mpscPc[Mpsc!Consumer] \notin {"delete", "gone"}
      /\ t = Mpsc!Consumer => intrusive
      /\ t # Mpsc!Consumer => t \in MpscProducers /\ ~destroying /\ mpscPc'[Mpsc!Consumer] = mpscPc[Mpsc!Consumer]
      /\ t # Mpsc!Consumer => node[t] # Mpsc!Dummy
  <2>1. t # Mpsc!Consumer => t \in MpscProducers
    BY MpscConstants
  <2>2. t = Mpsc!Consumer => intrusive
    BY <1>0, <1>1 DEF MpscConsumer
  <2>3. t # Mpsc!Consumer => ~destroying /\ mpscPc'[Mpsc!Consumer] = mpscPc[Mpsc!Consumer]
    BY <1>0, <1>1, <1>4, <2>1 DEF MpscConsumer
  <2>4. mpscPc[Mpsc!Consumer] \notin {"delete", "gone"}
    BY <1>0, <1>1, <2>3 DEF MpscConsumer
  <2>5. t # Mpsc!Consumer => node[t] # Mpsc!Dummy
    BY <1>2, MpscConstants
  <2> QED
    BY <2>1, <2>2, <2>3, <2>4, <2>5
<1>6. MpscType'
  <2>1. mpscHead \in Bytes /\ "link" \in MpscPlaces
    BY <1>0 DEF MpscOrder, Bytes, MpscPlaces
  <2>2. prevHead' \in [Mpsc!Enqueuers -> Bytes] /\ mpscPc' \in [Mpsc!Enqueuers -> MpscPlaces]
    BY <1>0, <1>1, <2>1 DEF MpscType
  <2>3. enqueued' \in Nat /\ data' \in [Memory -> Nat] /\ Len(order') >= 1
    BY <1>0, <1>1, <1>2, <1>3 DEF MpscType
  <2> QED
    BY <1>0, <1>1, <1>3, <2>2, <2>3, Zenon DEF MpscType
<1>7. MpscOrder'
  <2>1. \A i, j \in 1..Len(order') : order'[i] = order'[j] => i = j
    BY <1>0, <1>2, <1>3 DEF MpscOrder
  <2>2. tail' = order'[1] /\ mpscHead' = order'[Len(order')]
    BY <1>0, <1>1, <1>3 DEF MpscOrder
  <2>3. ~intrusive' => \A i \in 1..Len(order') : i # 1 => order'[i] # Mpsc!Dummy
    <3> SUFFICES ASSUME ~intrusive, NEW i \in 1..Len(order'), i # 1 PROVE order'[i] # Mpsc!Dummy
      BY <1>1
    <3>1. CASE i = Len(order) + 1
      BY <1>3, <1>5, <3>1
    <3>2. CASE i # Len(order) + 1
      <4>1. i \in 1..Len(order)
        BY <1>0, <1>3, <3>2
      <4> QED
        BY <1>0, <1>3, <4>1 DEF MpscOrder
    <3> QED
      BY <3>1, <3>2
  <2> QED
    BY <2>1, <2>2, <2>3 DEF MpscOrder
<1>8. MpscLinks'
  <2>1. next'[order'[Len(order')]] = Mpsc!Null
    BY <1>1, <1>2, <1>3
  <2>2. ASSUME NEW i \in 1..(Len(order') - 1)
        PROVE  \/ next'[order'[i]] = order'[i + 1]
               \/ next'[order'[i]] = Mpsc!Null
                  /\ \E u \in Mpsc!Enqueuers : mpscPc'[u] = "link" /\ prevHead'[u] = order'[i]
    <3>1. CASE i = Len(order)
      <4>1. next'[order'[i]] = Mpsc!Null /\ mpscPc'[t] = "link" /\ prevHead'[t] = order'[i]
        BY <1>0, <1>1, <1>3, <1>4, <3>1 DEF MpscLinks
      <4> QED
        BY <4>1
    <3>2. CASE i # Len(order)
      <4>1. i \in 1..(Len(order) - 1) /\ order'[i] = order[i] /\ order'[i + 1] = order[i + 1]
        BY <1>0, <1>3, <3>2
      <4>2. CASE next[order[i]] = order[i + 1]
        BY <1>1, <4>1, <4>2
      <4>3. CASE next[order[i]] = Mpsc!Null /\ \E u \in Mpsc!Enqueuers : mpscPc[u] = "link" /\ prevHead[u] = order[i]
        <5>1. PICK u \in Mpsc!Enqueuers : mpscPc[u] = "link" /\ prevHead[u] = order[i]
          BY <4>3
        <5>2. mpscPc'[u] = "link" /\ prevHead'[u] = order'[i]
          BY <1>1, <1>4, <4>1, <5>1
        <5> QED
          BY <1>1, <4>1, <4>3, <5>2
      <4> QED
        BY <1>0, <4>1, <4>2, <4>3 DEF MpscLinks
    <3> QED
      BY <3>1, <3>2
  <2>3. ASSUME NEW u \in Mpsc!Enqueuers, mpscPc'[u] = "link"
        PROVE  \E i \in 1..(Len(order') - 1) :
                 prevHead'[u] = order'[i] /\ node'[u] = order'[i + 1] /\ next'[order'[i]] = Mpsc!Null
    <3>1. CASE u = t
      <4>1. /\ Len(order) \in 1..(Len(order') - 1) /\ prevHead'[u] = order'[Len(order)]
            /\ node'[u] = order'[Len(order) + 1] /\ next'[order'[Len(order)]] = Mpsc!Null
        BY <1>0, <1>1, <1>3, <1>4, <3>1 DEF MpscLinks
      <4> QED
        BY <4>1
    <3>2. CASE u # t
      <4>1. PICK i \in 1..(Len(order) - 1) :
                 prevHead[u] = order[i] /\ node[u] = order[i + 1] /\ next[order[i]] = Mpsc!Null
        <5>1. mpscPc[u] = "link"
          BY <1>4, <2>3, <3>2
        <5> QED
          BY <1>0, <5>1 DEF MpscLinks
      <4>2. i \in 1..(Len(order') - 1) /\ order'[i] = order[i] /\ order'[i + 1] = order[i + 1]
        BY <1>0, <1>3
      <4>3. prevHead'[u] = order'[i] /\ node'[u] = order'[i + 1] /\ next'[order'[i]] = Mpsc!Null
        BY <1>1, <1>4, <3>2, <4>1, <4>2
      <4> QED
        BY <4>2, <4>3
    <3> QED
      BY <3>1, <3>2
  <2>4. \A u, v \in Mpsc!Enqueuers :
         mpscPc'[u] = "link" /\ mpscPc'[v] = "link" /\ prevHead'[u] = prevHead'[v] => u = v
    <3>1. ASSUME NEW u \in Mpsc!Enqueuers, u # t, mpscPc[u] = "link"
          PROVE  prevHead[u] # order[Len(order)]
      <4>1. PICK i \in 1..(Len(order) - 1) : prevHead[u] = order[i]
        BY <1>0, <3>1 DEF MpscLinks
      <4>2. i \in 1..Len(order) /\ Len(order) \in 1..Len(order) /\ i # Len(order)
        BY <1>0
      <4> QED
        BY <1>0, <4>1, <4>2 DEF MpscOrder
    <3> QED
      BY <1>0, <1>4, <3>1 DEF MpscLinks
  <2> QED
    BY <2>1, <2>2, <2>3, <2>4 DEF MpscLinks
<1>9. MpscNew'
  <2> SUFFICES ASSUME NEW u \in Mpsc!Enqueuers, mpscPc'[u] = "exchange"
               PROVE  /\ node'[u] \in (IF u = Mpsc!Consumer THEN {Mpsc!Dummy} ELSE Nodes)
                      /\ next'[node'[u]] = Mpsc!Null /\ node'[u] \in alive'
                      /\ \A i \in 1..Len(order') : order'[i] # node'[u]
                      /\ \A v \in Mpsc!Enqueuers : mpscPc'[v] = "exchange" /\ node'[v] = node'[u] => v = u
    BY DEF MpscNew
  <2>1. u # t /\ mpscPc[u] = "exchange" /\ node[u] # node[t]
    BY <1>2, <1>4
  <2>2. \A i \in 1..Len(order') : order'[i] # node'[u]
    BY <1>0, <1>1, <1>3, <2>1 DEF MpscNew
  <2> QED
    BY <1>0, <1>1, <1>4, <2>1, <2>2 DEF MpscNew
<1>10. MpscAlive'
  <2>1. \A i \in 1..Len(order') : order'[i] \in alive'
    BY <1>0, <1>1, <1>2, <1>3, <1>5 DEF MpscAlive
  <2>2. ASSUME NEW m \in alive'
        PROVE  \/ \E i \in 1..Len(order') : order'[i] = m
               \/ \E u \in Mpsc!Enqueuers : mpscPc'[u] = "exchange" /\ node'[u] = m
               \/ intrusive' /\ m = Mpsc!Dummy
    <3>1. \/ \E i \in 1..Len(order) : order[i] = m
          \/ \E u \in Mpsc!Enqueuers : mpscPc[u] = "exchange" /\ node[u] = m
          \/ intrusive /\ m = Mpsc!Dummy
      BY <1>0, <1>1 DEF MpscAlive
    <3>2. CASE \E i \in 1..Len(order) : order[i] = m
      BY <1>0, <1>3, <3>2
    <3>3. CASE \E u \in Mpsc!Enqueuers : mpscPc[u] = "exchange" /\ node[u] = m
      <4>1. PICK u \in Mpsc!Enqueuers : mpscPc[u] = "exchange" /\ node[u] = m
        BY <3>3
      <4>2. CASE u = t
        <5>1. Len(order) + 1 \in 1..Len(order') /\ order'[Len(order) + 1] = m
          BY <1>0, <1>3, <4>1, <4>2
        <5> QED
          BY <5>1
      <4>3. CASE u # t
        BY <1>1, <1>4, <4>1, <4>3
      <4> QED
        BY <4>2, <4>3
    <3> QED
      BY <1>1, <3>1, <3>2, <3>3
  <2>3. mpscPc'[Mpsc!Consumer] # "gone"
    BY <1>0, <1>4, <1>5
  <2> QED
    BY <1>0, <1>1, <2>1, <2>2, <2>3 DEF MpscAlive
<1>11. MpscMessages'
  <2>1. \A i \in 1..Len(order) : /\ Mpsc!MessageAt(i)' <=> Mpsc!MessageAt(i)
                                 /\ data'[order'[i]] = data[order[i]]
    BY <1>0, <1>1, <1>2, <1>3 DEF Mpsc!MessageAt, MpscType
  <2>2. CASE t = Mpsc!Consumer
    <3>1. node[t] = Mpsc!Dummy
      BY <1>2, <2>2
    <3>2. \A i \in 1..Len(order') : i = Len(order) + 1 => ~Mpsc!MessageAt(i)'
      BY <1>3, <3>1 DEF Mpsc!MessageAt
    <3>3. \A i \in 1..Len(order') : Mpsc!MessageAt(i)' => i \in 1..Len(order)
      BY <1>0, <1>3, <3>2
    <3>4. \A i \in 1..Len(order) : i \in 1..Len(order')
      BY <1>0, <1>3
    <3>5. UNCHANGED <<enqueued, dequeued>>
      BY <1>1, <2>2
    <3>6. \A i \in 1..Len(order') : Mpsc!MessageAt(i)' => data'[order'[i]] \in (Len(dequeued') + 1)..enqueued'
      BY <1>0, <2>1, <3>3, <3>5 DEF MpscMessages
    <3>7. ASSUME NEW k \in (Len(dequeued') + 1)..enqueued'
          PROVE  \E i \in 1..Len(order') : Mpsc!MessageAt(i)' /\ data'[order'[i]] = k
      <4>1. PICK i \in 1..Len(order) : Mpsc!MessageAt(i) /\ data[order[i]] = k
        BY <1>0, <3>5 DEF MpscMessages
      <4> QED
        BY <2>1, <3>4, <4>1
    <3>8. ASSUME NEW i \in 1..Len(order'), NEW j \in 1..Len(order'),
                 Mpsc!MessageAt(i)', Mpsc!MessageAt(j)', i < j
          PROVE  data'[order'[i]] < data'[order'[j]]
      BY <1>0, <2>1, <3>3, <3>8 DEF MpscMessages
    <3>9. (\A i \in 1..Len(dequeued) : dequeued[i] = i) /\ Len(dequeued) <= enqueued
      BY <1>0 DEF MpscMessages
    <3> QED
      BY <3>5, <3>6, <3>7, <3>8, <3>9 DEF MpscMessages
  <2>3. CASE t # Mpsc!Consumer
    <3>1. enqueued' = enqueued + 1 /\ data'[order'[Len(order) + 1]] = enqueued + 1 /\ enqueued \in Nat
      BY <1>0, <1>1, <1>2, <1>3, <2>3 DEF MpscType
    <3>2. \A i \in 1..Len(order') : i = Len(order) + 1 => Mpsc!MessageAt(i)'
      BY <1>0, <1>3, <1>5, <2>3 DEF Mpsc!MessageAt
    <3>3. \A i \in 1..Len(order') : Mpsc!MessageAt(i)' => data'[order'[i]] \in (Len(dequeued') + 1)..enqueued'
      <4> SUFFICES ASSUME NEW i \in 1..Len(order'), Mpsc!MessageAt(i)'
                   PROVE  data'[order'[i]] \in (Len(dequeued') + 1)..enqueued'
        OBVIOUS
      <4>1. dequeued' = dequeued /\ Len(dequeued) \in Nat /\ Len(dequeued) <= enqueued
        BY <1>0, <1>1 DEF MpscMessages
      <4>2. CASE i = Len(order) + 1
        BY <3>1, <4>1, <4>2
      <4>3. CASE i # Len(order) + 1
        <5>1. i \in 1..Len(order)
          BY <1>0, <1>3, <4>3
        <5>2. data[order[i]] \in (Len(dequeued) + 1)..enqueued /\ data'[order'[i]] = data[order[i]]
          BY <1>0, <2>1, <5>1 DEF MpscMessages
        <5> QED
          BY <3>1, <4>1, <5>2
      <4> QED
        BY <4>2, <4>3
    <3>4. ASSUME NEW k \in (Len(dequeued') + 1)..enqueued'
          PROVE  \E i \in 1..Len(order') : Mpsc!MessageAt(i)' /\ data'[order'[i]] = k
      <4>1. CASE k = enqueued + 1
        <5>1. PICK i \in 1..Len(order') : i = Len(order) + 1
          BY <1>0, <1>3
        <5> QED
          BY <3>1, <3>2, <4>1, <5>1
      <4>2. CASE k # enqueued + 1
        <5>1. k \in (Len(dequeued) + 1)..enqueued
          BY <1>0, <1>1, <3>1, <4>2
        <5>2. PICK i \in 1..Len(order) : Mpsc!MessageAt(i) /\ data[order[i]] = k
          BY <1>0, <5>1 DEF MpscMessages
        <5>3. i \in 1..Len(order')
          BY <1>0, <1>3
        <5> QED
          BY <2>1, <5>2, <5>3
      <4> QED
        BY <4>1, <4>2
    <3>5. ASSUME NEW i \in 1..Len(order'), NEW j \in 1..Len(order'),
                 Mpsc!MessageAt(i)', Mpsc!MessageAt(j)', i < j
          PROVE  data'[order'[i]] < data'[order'[j]]
      <4>1. i \in 1..Len(order) /\ Mpsc!MessageAt(i) /\ data'[order'[i]] = data[order[i]]
        BY <1>0, <1>3, <2>1, <3>5
      <4>2. data[order[i]] \in (Len(dequeued) + 1)..enqueued
        BY <1>0, <4>1 DEF MpscMessages
      <4>3. CASE j = Len(order) + 1
        BY <1>0, <3>1, <4>1, <4>2, <4>3
      <4>4. CASE j # Len(order) + 1
        <5>1. j \in 1..Len(order) /\ Mpsc!MessageAt(j) /\ data'[order'[j]] = data[order[j]]
          BY <1>0, <1>3, <2>1, <3>5, <4>4
        <5> QED
          BY <1>0, <3>5, <4>1, <5>1 DEF MpscMessages
      <4> QED
        BY <4>3, <4>4
    <3>6. (\A i \in 1..Len(dequeued) : dequeued[i] = i) /\ Len(dequeued') <= enqueued' /\ dequeued' = dequeued
      BY <1>0, <1>1, <3>1 DEF MpscMessages
    <3> QED
      BY <3>3, <3>4, <3>5, <3>6 DEF MpscMessages
  <2> QED
    BY <2>2, <2>3
<1>12. MpscConsumer'
  <2>1. \A p \in MpscProducers : mpscPc'[p] \in {"idle", "exchange", "link"} /\ (destroying => mpscPc'[p] = "idle")
    <3> SUFFICES ASSUME NEW p \in MpscProducers
                 PROVE  mpscPc'[p] \in {"idle", "exchange", "link"} /\ (destroying => mpscPc'[p] = "idle")
      OBVIOUS
    <3>1. p \in Mpsc!Enqueuers /\ p # Mpsc!Consumer
      BY MpscConstants
    <3>2. CASE p = t
      BY <1>4, <1>5, <3>1, <3>2
    <3>3. CASE p # t
      BY <1>0, <1>4, <3>1, <3>3 DEF MpscConsumer
    <3> QED
      BY <3>2, <3>3
  <2>2. CASE t = Mpsc!Consumer
    BY <1>0, <1>1, <1>4, <1>5, <2>1, <2>2 DEF MpscConsumer
  <2>3. CASE t # Mpsc!Consumer
    BY <1>0, <1>1, <1>4, <1>5, <2>1, <2>3 DEF MpscConsumer
  <2> QED
    BY <2>2, <2>3
<1> QED
  BY <1>6, <1>7, <1>8, <1>9, <1>10, <1>11, <1>12 DEF MpscInv

\* The store of the link closes the cut.
LEMMA MpscLink ==
  ASSUME MpscInv, NEW t \in Mpsc!Enqueuers, Mpsc!Link(t)
  PROVE  MpscInv'
<1>0. /\ MpscType /\ MpscOrder /\ MpscLinks /\ MpscNew /\ MpscAlive /\ MpscMessages /\ MpscConsumer
      /\ Len(order) \in Nat /\ Len(order) >= 1 /\ \A i \in 1..Len(order) : order[i] \in Memory
      /\ Mpsc!Consumer \in Mpsc!Enqueuers
  BY MpscConstants, LenProperties, ElementOfSeq DEF MpscInv, MpscType
<1>1. /\ mpscPc[t] = "link" /\ next' = [next EXCEPT ![prevHead[t]] = node[t]]
      /\ mpscPc' = [mpscPc EXCEPT ![t] = IF t = Mpsc!Consumer THEN "reload" ELSE "idle"]
      /\ UNCHANGED <<intrusive, mpscHead, data, tail, alive, node, prevHead, cTail, cNext, destroying,
                     order, enqueued, dequeued>>
  BY DEF Mpsc!Link
<1>2. PICK at \in 1..(Len(order) - 1) :
        prevHead[t] = order[at] /\ node[t] = order[at + 1] /\ next[order[at]] = Mpsc!Null
  BY <1>0, <1>1 DEF MpscLinks
<1>3. /\ at \in 1..Len(order) /\ at + 1 \in 1..Len(order) /\ at # Len(order)
      /\ order[at] \in Memory /\ order[at + 1] \in Memory
  BY <1>0
<1>4. /\ next'[order[at]] = order[at + 1]
      /\ \A m \in Memory : m # order[at] => next'[m] = next[m]
  BY <1>0, <1>1, <1>2, <1>3 DEF MpscType
<1>5. \A i \in 1..Len(order) : i # at => next'[order[i]] = next[order[i]]
  BY <1>0, <1>3, <1>4 DEF MpscOrder
<1>6. /\ mpscPc'[t] = IF t = Mpsc!Consumer THEN "reload" ELSE "idle"
      /\ \A u \in Mpsc!Enqueuers : u # t => mpscPc'[u] = mpscPc[u]
  BY <1>0, <1>1 DEF MpscType
<1>7. MpscType'
  <2>1. node[t] \in Bytes /\ "idle" \in MpscPlaces /\ "reload" \in MpscPlaces
    BY <1>0 DEF MpscPlaces, MpscType
  <2>2. next' \in [Memory -> Bytes] /\ mpscPc' \in [Mpsc!Enqueuers -> MpscPlaces]
    BY <1>0, <1>1, <2>1 DEF MpscType
  <2> QED
    BY <1>0, <1>1, <2>2, Zenon DEF MpscType
<1>8. MpscOrder'
  BY <1>0, <1>1 DEF MpscOrder
<1>9. MpscLinks'
  <2>1. next'[order'[Len(order')]] = Mpsc!Null
    <3>1. Len(order) \in 1..Len(order)
      BY <1>0
    <3> QED
      BY <1>0, <1>1, <1>3, <1>5, <3>1 DEF MpscLinks
  <2>2. ASSUME NEW i \in 1..(Len(order') - 1)
        PROVE  \/ next'[order'[i]] = order'[i + 1]
               \/ next'[order'[i]] = Mpsc!Null
                  /\ \E u \in Mpsc!Enqueuers : mpscPc'[u] = "link" /\ prevHead'[u] = order'[i]
    <3>1. CASE i = at
      BY <1>1, <1>4, <3>1
    <3>2. CASE i # at
      <4>1. i \in 1..(Len(order) - 1) /\ i \in 1..Len(order) /\ order[i] # order[at]
        BY <1>0, <1>1, <1>3, <3>2 DEF MpscOrder
      <4>2. \A u \in Mpsc!Enqueuers : mpscPc[u] = "link" /\ prevHead[u] = order[i] => mpscPc'[u] = "link"
        BY <1>2, <1>6, <4>1
      <4> QED
        BY <1>0, <1>1, <1>5, <3>2, <4>1, <4>2 DEF MpscLinks
    <3> QED
      BY <3>1, <3>2
  <2>3. ASSUME NEW u \in Mpsc!Enqueuers, mpscPc'[u] = "link"
        PROVE  \E i \in 1..(Len(order') - 1) :
                 prevHead'[u] = order'[i] /\ node'[u] = order'[i + 1] /\ next'[order'[i]] = Mpsc!Null
    <3>1. u # t /\ mpscPc[u] = "link"
      BY <1>6, <2>3
    <3>2. PICK i \in 1..(Len(order) - 1) :
                 prevHead[u] = order[i] /\ node[u] = order[i + 1] /\ next[order[i]] = Mpsc!Null
      BY <1>0, <3>1 DEF MpscLinks
    <3>3. i # at
      BY <1>0, <1>1, <1>2, <3>1, <3>2 DEF MpscLinks
    <3>4. i \in 1..Len(order)
      BY <1>0
    <3> QED
      BY <1>1, <1>5, <3>2, <3>3, <3>4
  <2>4. \A u, v \in Mpsc!Enqueuers :
         mpscPc'[u] = "link" /\ mpscPc'[v] = "link" /\ prevHead'[u] = prevHead'[v] => u = v
    BY <1>0, <1>1, <1>6 DEF MpscLinks
  <2> QED
    BY <2>1, <2>2, <2>3, <2>4 DEF MpscLinks
<1>10. MpscNew'
  <2> SUFFICES ASSUME NEW u \in Mpsc!Enqueuers, mpscPc'[u] = "exchange"
               PROVE  /\ node'[u] \in (IF u = Mpsc!Consumer THEN {Mpsc!Dummy} ELSE Nodes)
                      /\ next'[node'[u]] = Mpsc!Null /\ node'[u] \in alive'
                      /\ \A i \in 1..Len(order') : order'[i] # node'[u]
                      /\ \A v \in Mpsc!Enqueuers : mpscPc'[v] = "exchange" /\ node'[v] = node'[u] => v = u
    BY DEF MpscNew
  <2>1. u # t /\ mpscPc[u] = "exchange"
    BY <1>6
  <2>2. node[u] \in Memory /\ node[u] # order[at]
    BY <1>0, <1>3, <2>1 DEF MpscNew, Memory
  <2> QED
    BY <1>0, <1>1, <1>4, <1>6, <2>1, <2>2 DEF MpscNew
<1>11. MpscAlive'
  <2>1. \A u \in Mpsc!Enqueuers : mpscPc'[u] = "exchange" <=> mpscPc[u] = "exchange"
    BY <1>1, <1>6
  <2>2. mpscPc'[Mpsc!Consumer] = "gone" <=> mpscPc[Mpsc!Consumer] = "gone"
    BY <1>0, <1>1, <1>6
  <2> QED
    BY <1>0, <1>1, <2>1, <2>2 DEF MpscAlive
<1>12. MpscMessages'
  BY <1>0, <1>1 DEF MpscMessages, Mpsc!MessageAt
<1>13. MpscConsumer'
  <2>1. next[tail] # Mpsc!Null => next'[tail] = next[tail]
    <3>1. 1 \in 1..Len(order) /\ tail = order[1]
      BY <1>0 DEF MpscOrder
    <3> QED
      BY <1>2, <1>5, <3>1
  <2>2. \A p \in MpscProducers : mpscPc'[p] \in {"idle", "exchange", "link"} /\ (destroying => mpscPc'[p] = "idle")
    <3> SUFFICES ASSUME NEW p \in MpscProducers
                 PROVE  mpscPc'[p] \in {"idle", "exchange", "link"} /\ (destroying => mpscPc'[p] = "idle")
      OBVIOUS
    <3>1. p \in Mpsc!Enqueuers /\ p # Mpsc!Consumer
      BY MpscConstants
    <3> QED
      BY <1>0, <1>6, <3>1 DEF MpscConsumer
  <2>3. CASE t = Mpsc!Consumer
    BY <1>0, <1>1, <1>6, <2>2, <2>3 DEF MpscConsumer
  <2>4. CASE t # Mpsc!Consumer
    BY <1>0, <1>1, <1>6, <2>1, <2>2, <2>4 DEF MpscConsumer
  <2> QED
    BY <2>3, <2>4
<1> QED
  BY <1>7, <1>8, <1>9, <1>10, <1>11, <1>12, <1>13 DEF MpscInv

\* The consumer goes from one place to another and leaves the list as it is.
LEMMA ConsumerGoes ==
  ASSUME MpscInv, NEW place \in MpscPlaces \ {"exchange", "link"},
         mpscPc[Mpsc!Consumer] \notin {"exchange", "link", "gone"},
         mpscPc' = [mpscPc EXCEPT ![Mpsc!Consumer] = place], place = "gone" => intrusive,
         UNCHANGED <<intrusive, mpscHead, tail, next, data, alive, node, prevHead, destroying,
                     order, enqueued, dequeued>>
  PROVE  /\ MpscType' /\ MpscOrder' /\ MpscLinks' /\ MpscNew' /\ MpscAlive' /\ MpscMessages'
         /\ mpscPc'[Mpsc!Consumer] = place /\ \A p \in MpscProducers : mpscPc'[p] = mpscPc[p]
<1>0. /\ MpscType /\ MpscOrder /\ MpscLinks /\ MpscNew /\ MpscAlive /\ MpscMessages /\ MpscConsumer
      /\ Mpsc!Consumer \in Mpsc!Enqueuers
  BY MpscConstants DEF MpscInv
<1>1. /\ mpscPc'[Mpsc!Consumer] = place
      /\ \A u \in Mpsc!Enqueuers : u # Mpsc!Consumer => mpscPc'[u] = mpscPc[u]
  BY <1>0 DEF MpscType
<1>2. \A u \in Mpsc!Enqueuers : /\ mpscPc'[u] = "link" <=> mpscPc[u] = "link"
                                /\ mpscPc'[u] = "exchange" <=> mpscPc[u] = "exchange"
  BY <1>0, <1>1
<1>3. \A p \in MpscProducers : mpscPc'[p] = mpscPc[p]
  BY <1>1, MpscConstants
<1>4. MpscType'
  <2>1. mpscPc' \in [Mpsc!Enqueuers -> MpscPlaces]
    BY <1>0 DEF MpscType
  <2> QED
    BY <1>0, <2>1, Zenon DEF MpscType
<1>5. MpscOrder'
  BY <1>0 DEF MpscOrder
<1>6. MpscLinks'
  BY <1>0, <1>2 DEF MpscLinks
<1>7. MpscNew'
  BY <1>0, <1>2 DEF MpscNew
<1>8. MpscAlive'
  BY <1>0, <1>1, <1>2 DEF MpscAlive
<1>9. MpscMessages'
  BY <1>0 DEF MpscMessages, Mpsc!MessageAt
<1> QED
  BY <1>1, <1>3, <1>4, <1>5, <1>6, <1>7, <1>8, <1>9

\* Dequeue reads the link of the node at _tail.
LEMMA MpscLoadNext ==
  ASSUME MpscInv, Mpsc!LoadNext
  PROVE  MpscInv'
<1>0. /\ MpscType /\ MpscOrder /\ MpscLinks /\ MpscConsumer
      /\ Len(order) \in Nat /\ Len(order) >= 1 /\ Mpsc!Consumer \in Mpsc!Enqueuers
  BY MpscConstants, LenProperties DEF MpscInv, MpscType
<1>1. /\ mpscPc[Mpsc!Consumer] = "idle" /\ cTail' = tail /\ cNext' = next[tail]
      /\ UNCHANGED <<intrusive, mpscHead, tail, next, data, alive, node, prevHead, destroying, order, enqueued, dequeued>>
  BY DEF Mpsc!LoadNext, Mpsc!list
<1>2. PICK place \in {"delete", "idle", "storeTail", "behind", "skipDummy", "gone"} :
        /\ mpscPc' = [mpscPc EXCEPT ![Mpsc!Consumer] = place]
        /\ place = "delete" => ~intrusive /\ next[tail] = Mpsc!Null /\ destroying
        /\ place = "storeTail" => ~intrusive /\ next[tail] # Mpsc!Null
        /\ place = "behind" => intrusive /\ tail # Mpsc!Dummy
        /\ place = "skipDummy" => intrusive /\ tail = Mpsc!Dummy /\ next[tail] # Mpsc!Null
        /\ place = "gone" => intrusive /\ tail = Mpsc!Dummy /\ next[tail] = Mpsc!Null /\ destroying
  <2>1. CASE ~intrusive /\ next[tail] = Mpsc!Null
    BY <2>1 DEF Mpsc!LoadNext, Mpsc!Goto
  <2>2. CASE ~intrusive /\ next[tail] # Mpsc!Null
    BY <2>2 DEF Mpsc!LoadNext, Mpsc!Goto
  <2>3. CASE intrusive /\ tail # Mpsc!Dummy
    BY <2>3 DEF Mpsc!LoadNext, Mpsc!Goto
  <2>4. CASE intrusive /\ tail = Mpsc!Dummy /\ next[tail] # Mpsc!Null
    BY <2>4 DEF Mpsc!LoadNext, Mpsc!Goto
  <2>5. CASE intrusive /\ tail = Mpsc!Dummy /\ next[tail] = Mpsc!Null
    BY <2>5 DEF Mpsc!LoadNext, Mpsc!Goto
  <2> QED
    BY <1>0, <2>1, <2>2, <2>3, <2>4, <2>5 DEF MpscType
<1>3. /\ place \in MpscPlaces \ {"exchange", "link"} /\ (place = "gone" => intrusive)
      /\ mpscPc[Mpsc!Consumer] \notin {"exchange", "link", "gone"}
  BY <1>1, <1>2 DEF MpscPlaces
<1>4. /\ MpscType' /\ MpscOrder' /\ MpscLinks' /\ MpscNew' /\ MpscAlive' /\ MpscMessages'
      /\ mpscPc'[Mpsc!Consumer] = place /\ \A p \in MpscProducers : mpscPc'[p] = mpscPc[p]
  BY <1>1, <1>2, <1>3, ConsumerGoes
<1>5. destroying /\ next[tail] = Mpsc!Null => Len(order) = 1
  <2> SUFFICES ASSUME destroying, next[tail] = Mpsc!Null, Len(order) # 1 PROVE FALSE
    OBVIOUS
  <2>0. \A m \in Nat : m >= 1 /\ m # 1 => 1 \in 1..(m - 1) /\ 1 \in 1..m /\ 1 + 1 \in 1..m
    OBVIOUS
  <2>1. 1 \in 1..(Len(order) - 1) /\ 1 \in 1..Len(order) /\ 1 + 1 \in 1..Len(order)
    BY <1>0, <2>0, Zenon
  <2>2. \A t \in Mpsc!Enqueuers : mpscPc[t] # "link"
    BY <1>0, <1>1, MpscConstants DEF MpscConsumer
  <2>3. next[order[1]] = order[1 + 1]
    BY <1>0, <2>1, <2>2 DEF MpscLinks
  <2>4. order[1 + 1] \in Memory
    BY <1>0, <2>1, ElementOfSeq DEF MpscType
  <2> QED
    BY <1>0, <2>3, <2>4, MpscConstants DEF MpscOrder
<1>6. MpscConsumer'
  BY <1>0, <1>1, <1>2, <1>4, <1>5 DEF MpscConsumer
<1> QED
  BY <1>4, <1>6 DEF MpscInv

\* Dequeue of the non-intrusive form moves _tail and deletes the node it was at.
LEMMA MpscStoreTail ==
  ASSUME MpscInv, Mpsc!StoreTail
  PROVE  MpscInv'
<1>0. /\ MpscType /\ MpscOrder /\ MpscMessages /\ MpscConsumer /\ Mpsc!Consumer \in Mpsc!Enqueuers
  BY MpscConstants DEF MpscInv
<1>1. /\ mpscPc[Mpsc!Consumer] = "storeTail" /\ dequeued' = Append(dequeued, data[cNext])
      /\ tail' = cNext /\ order' = Tail(order) /\ alive' = alive \ {cTail}
      /\ mpscPc' = [mpscPc EXCEPT ![Mpsc!Consumer] = "idle"]
      /\ UNCHANGED <<intrusive, mpscHead, next, data, node, prevHead, cTail, cNext, destroying, enqueued>>
  BY DEF Mpsc!StoreTail, Mpsc!Goto, Mpsc!list
<1>2. cTail = tail /\ cNext = next[tail] /\ next[tail] # Mpsc!Null /\ ~intrusive
  BY <1>0, <1>1 DEF MpscConsumer
<1>3. mpscPc'[Mpsc!Consumer] = "idle" /\ \A p \in MpscProducers : mpscPc'[p] = mpscPc[p]
  BY <1>0, <1>1, MpscConstants DEF MpscType
<1>4. /\ Len(order) >= 2 /\ order[2] = next[tail] /\ Len(order) \in Nat
      /\ order' \in Seq(Memory) /\ Len(order') = Len(order) - 1 /\ Len(order') >= 1
      /\ \A i \in 1..(Len(order) - 1) : order'[i] = order[i + 1]
      /\ MpscOrder' /\ MpscLinks'
  BY <1>1, <1>2, <1>3, MoveTail
<1>5. MpscNew' /\ MpscAlive'
  <2>1. cTail = order[1]
    BY <1>0, <1>2 DEF MpscOrder
  <2> QED
    BY <1>1, <1>2, <1>3, <1>4, <2>1, MoveTailRest
<1>6. /\ 2 \in 1..Len(order) /\ order[2] \in Memory /\ order[2] # Mpsc!Dummy /\ data[order[2]] \in Nat
  BY <1>0, <1>2, <1>4, ElementOfSeq DEF MpscOrder, MpscType
<1>7. MpscType'
  <2>1. dequeued' \in Seq(Nat)
    BY <1>0, <1>1, <1>2, <1>4, <1>6, AppendProperties DEF MpscType
  <2>2. mpscPc' \in [Mpsc!Enqueuers -> MpscPlaces]
    BY <1>0, <1>1 DEF MpscType, MpscPlaces
  <2> QED
    BY <1>0, <1>1, <1>4, <2>1, <2>2, Zenon DEF MpscType
<1>8. MpscMessages'
  <2>1. Mpsc!MessageAt(2)
    BY <1>6 DEF Mpsc!MessageAt
  <2>2. \A i \in 1..Len(order) : Mpsc!MessageAt(i) => 2 <= i
    BY <1>2, <1>4 DEF Mpsc!MessageAt
  <2>3. \A i \in 1..(Len(order) - 1) : Mpsc!MessageAt(i)' <=> i + 1 # 2 /\ Mpsc!MessageAt(i + 1)
    BY <1>1, <1>2, <1>4 DEF Mpsc!MessageAt
  <2>4. dequeued' = Append(dequeued, data[order[2]]) /\ UNCHANGED <<data, enqueued>>
    BY <1>1, <1>2, <1>4
  <2> QED
    BY <1>0, <1>4, <1>6, <1>7, <2>1, <2>2, <2>3, <2>4, TakeFirst
<1>9. MpscConsumer'
  BY <1>0, <1>1, <1>3 DEF MpscConsumer
<1> QED
  BY <1>4, <1>5, <1>7, <1>8, <1>9 DEF MpscInv

\* Dequeue of the intrusive form passes the dummy.
LEMMA MpscSkipDummy ==
  ASSUME MpscInv, Mpsc!SkipDummy
  PROVE  MpscInv'
<1>0. /\ MpscType /\ MpscOrder /\ MpscMessages /\ MpscConsumer /\ Mpsc!Consumer \in Mpsc!Enqueuers
  BY MpscConstants DEF MpscInv
<1>1. /\ mpscPc[Mpsc!Consumer] = "skipDummy" /\ tail' = cNext /\ order' = Tail(order)
      /\ cTail' = cNext /\ cNext' = next[cNext]
      /\ mpscPc' = [mpscPc EXCEPT ![Mpsc!Consumer] = "behind"]
      /\ UNCHANGED <<intrusive, mpscHead, next, data, alive, node, prevHead, destroying, enqueued, dequeued>>
  BY DEF Mpsc!SkipDummy, Mpsc!Goto, Mpsc!list
<1>2. /\ cTail = tail /\ cNext = next[tail] /\ next[tail] # Mpsc!Null /\ intrusive
      /\ tail = Mpsc!Dummy /\ order[1] = Mpsc!Dummy
  BY <1>0, <1>1 DEF MpscConsumer, MpscOrder
<1>3. mpscPc'[Mpsc!Consumer] = "behind" /\ \A p \in MpscProducers : mpscPc'[p] = mpscPc[p]
  BY <1>0, <1>1, MpscConstants DEF MpscType
<1>4. /\ Len(order) >= 2 /\ order[2] = next[tail] /\ Len(order) \in Nat
      /\ order' \in Seq(Memory) /\ Len(order') = Len(order) - 1 /\ Len(order') >= 1
      /\ \A i \in 1..(Len(order) - 1) : order'[i] = order[i + 1]
      /\ MpscOrder' /\ MpscLinks'
  BY <1>1, <1>2, <1>3, MoveTail
<1>5. MpscNew' /\ MpscAlive'
  BY <1>1, <1>2, <1>3, <1>4, MoveTailRest
<1>6. MpscType'
  <2>1. mpscPc' \in [Mpsc!Enqueuers -> MpscPlaces]
    BY <1>0, <1>1 DEF MpscType, MpscPlaces
  <2> QED
    BY <1>0, <1>1, <1>4, <2>1, Zenon DEF MpscType
<1>7. MpscMessages'
  <2>1. ~Mpsc!MessageAt(1)
    BY <1>2 DEF Mpsc!MessageAt
  <2>2. \A i \in 1..(Len(order) - 1) : Mpsc!MessageAt(i)' <=> Mpsc!MessageAt(i + 1)
    BY <1>1, <1>2, <1>4 DEF Mpsc!MessageAt
  <2>3. \A i \in 1..Len(order') : i + 1 \in 1..Len(order) /\ i \in 1..(Len(order) - 1)
    BY <1>4
  <2>4. \A i \in 1..Len(order') : Mpsc!MessageAt(i)' => data'[order'[i]] \in (Len(dequeued') + 1)..enqueued'
    BY <1>0, <1>1, <1>4, <2>2, <2>3 DEF MpscMessages
  <2>5. ASSUME NEW k \in (Len(dequeued') + 1)..enqueued'
        PROVE  \E i \in 1..Len(order') : Mpsc!MessageAt(i)' /\ data'[order'[i]] = k
    <3>1. PICK i \in 1..Len(order) : Mpsc!MessageAt(i) /\ data[order[i]] = k
      BY <1>0, <1>1 DEF MpscMessages
    <3>2. i - 1 \in 1..Len(order') /\ i - 1 \in 1..(Len(order) - 1) /\ (i - 1) + 1 = i
      BY <1>4, <2>1, <3>1
    <3>3. order'[i - 1] = order[(i - 1) + 1] /\ (Mpsc!MessageAt(i - 1)' <=> Mpsc!MessageAt((i - 1) + 1))
      BY <1>4, <2>2, <3>2
    <3> QED
      BY <1>1, <3>1, <3>2, <3>3
  <2>6. ASSUME NEW i \in 1..Len(order'), NEW j \in 1..Len(order'),
               Mpsc!MessageAt(i)', Mpsc!MessageAt(j)', i < j
        PROVE  data'[order'[i]] < data'[order'[j]]
    <3>1. /\ i + 1 \in 1..Len(order) /\ j + 1 \in 1..Len(order) /\ i + 1 < j + 1
          /\ Mpsc!MessageAt(i + 1) /\ Mpsc!MessageAt(j + 1)
          /\ order'[i] = order[i + 1] /\ order'[j] = order[j + 1]
      BY <1>4, <2>2, <2>3, <2>6
    <3> QED
      BY <1>0, <1>1, <3>1 DEF MpscMessages
  <2>7. (\A i \in 1..Len(dequeued') : dequeued'[i] = i) /\ Len(dequeued') <= enqueued'
    BY <1>0, <1>1 DEF MpscMessages
  <2> QED
    BY <2>4, <2>5, <2>6, <2>7 DEF MpscMessages
<1>8. MpscConsumer'
  <2>1. tail' # Mpsc!Dummy
    <3>1. 1 \in 1..Len(order) /\ 2 \in 1..Len(order)
      BY <1>4
    <3> QED
      BY <1>0, <1>1, <1>2, <1>4, <3>1 DEF MpscOrder
  <2> QED
    BY <1>0, <1>1, <1>2, <1>3, <2>1 DEF MpscConsumer
<1> QED
  BY <1>4, <1>5, <1>6, <1>7, <1>8 DEF MpscInv

\* The end of an intrusive Dequeue with a message: by Return, and after Reload.
LEMMA MpscReturn ==
  ASSUME MpscInv, mpscPc[Mpsc!Consumer] \in {"behind", "reload"},
         next[tail] # Mpsc!Null, tail' = next[tail], order' = Tail(order),
         dequeued' = Append(dequeued, data[cTail]), alive' = alive \ {cTail},
         mpscPc' = [mpscPc EXCEPT ![Mpsc!Consumer] = "idle"],
         UNCHANGED <<intrusive, mpscHead, next, data, node, prevHead, cTail, destroying, enqueued>>
  PROVE  MpscInv'
<1>0. /\ MpscType /\ MpscOrder /\ MpscMessages /\ MpscConsumer /\ Mpsc!Consumer \in Mpsc!Enqueuers
  BY MpscConstants DEF MpscInv
<1>1. cTail = tail /\ intrusive /\ tail # Mpsc!Dummy /\ order[1] = tail
  BY <1>0 DEF MpscConsumer, MpscOrder
<1>2. mpscPc'[Mpsc!Consumer] = "idle" /\ \A p \in MpscProducers : mpscPc'[p] = mpscPc[p]
  BY <1>0, MpscConstants DEF MpscType
<1>3. /\ Len(order) >= 2 /\ order[2] = next[tail] /\ Len(order) \in Nat
      /\ order' \in Seq(Memory) /\ Len(order') = Len(order) - 1 /\ Len(order') >= 1
      /\ \A i \in 1..(Len(order) - 1) : order'[i] = order[i + 1]
      /\ MpscOrder' /\ MpscLinks'
  BY <1>1, <1>2, MoveTail
<1>4. MpscNew' /\ MpscAlive'
  BY <1>1, <1>2, <1>3, MoveTailRest
<1>5. 1 \in 1..Len(order) /\ order[1] \in Memory /\ data[order[1]] \in Nat
  BY <1>0, <1>3, ElementOfSeq DEF MpscType
<1>6. MpscType'
  <2>1. dequeued' \in Seq(Nat)
    BY <1>0, <1>1, <1>5, AppendProperties DEF MpscType
  <2>2. mpscPc' \in [Mpsc!Enqueuers -> MpscPlaces]
    BY <1>0 DEF MpscType, MpscPlaces
  <2> QED
    BY <1>0, <1>3, <2>1, <2>2, Zenon DEF MpscType
<1>7. MpscMessages'
  <2>1. Mpsc!MessageAt(1)
    BY <1>1 DEF Mpsc!MessageAt
  <2>2. \A i \in 1..Len(order) : Mpsc!MessageAt(i) => 1 <= i
    OBVIOUS
  <2>3. \A i \in 1..(Len(order) - 1) : Mpsc!MessageAt(i)' <=> i + 1 # 1 /\ Mpsc!MessageAt(i + 1)
    BY <1>1, <1>3 DEF Mpsc!MessageAt
  <2>4. dequeued' = Append(dequeued, data[order[1]]) /\ UNCHANGED <<data, enqueued>>
    BY <1>1
  <2> QED
    BY <1>0, <1>3, <1>5, <1>6, <2>1, <2>2, <2>3, <2>4, TakeFirst
<1>8. MpscConsumer'
  BY <1>0, <1>1, <1>2 DEF MpscConsumer
<1> QED
  BY <1>3, <1>4, <1>6, <1>7, <1>8 DEF MpscInv

\* Dequeue returns the message at _tail when another is behind it; otherwise it
\* gives up, or enqueues the dummy when that message is the last one.
LEMMA MpscBehind ==
  ASSUME MpscInv, Mpsc!Behind
  PROVE  MpscInv'
<1>0. /\ MpscType /\ MpscOrder /\ MpscLinks /\ MpscNew /\ MpscAlive /\ MpscMessages /\ MpscConsumer
      /\ Len(order) \in Nat /\ Len(order) >= 1 /\ \A i \in 1..Len(order) : order[i] \in Memory
      /\ Mpsc!Consumer \in Mpsc!Enqueuers
  BY MpscConstants, LenProperties, ElementOfSeq DEF MpscInv, MpscType
<1>1. mpscPc[Mpsc!Consumer] = "behind" /\ intrusive /\ cTail = tail /\ tail # Mpsc!Dummy
  BY <1>0 DEF Mpsc!Behind, MpscConsumer
<1>2. CASE cNext # Mpsc!Null /\ Mpsc!Return
  <2>1. next[tail] # Mpsc!Null /\ cNext = next[tail]
    BY <1>0, <1>1, <1>2 DEF MpscConsumer
  <2>2. /\ tail' = next[tail] /\ order' = Tail(order) /\ dequeued' = Append(dequeued, data[cTail])
        /\ alive' = alive \ {cTail} /\ mpscPc' = [mpscPc EXCEPT ![Mpsc!Consumer] = "idle"]
        /\ UNCHANGED <<intrusive, mpscHead, next, data, node, prevHead, cTail, destroying, enqueued>>
    BY <1>2, <2>1 DEF Mpsc!Return, Mpsc!Goto, Mpsc!list
  <2> QED
    BY <1>1, <2>1, <2>2, MpscReturn
<1>3. CASE mpscPc' = [mpscPc EXCEPT ![Mpsc!Consumer] = "idle"]
           /\ UNCHANGED <<intrusive, mpscHead, data, tail, alive, next, node, prevHead, cTail, cNext, destroying,
                          order, enqueued, dequeued>>
  <2>1. /\ MpscType' /\ MpscOrder' /\ MpscLinks' /\ MpscNew' /\ MpscAlive' /\ MpscMessages'
        /\ mpscPc'[Mpsc!Consumer] = "idle" /\ \A p \in MpscProducers : mpscPc'[p] = mpscPc[p]
    BY <1>1, <1>3, ConsumerGoes DEF MpscPlaces
  <2>2. MpscConsumer'
    BY <1>0, <1>3, <2>1 DEF MpscConsumer
  <2> QED
    BY <2>1, <2>2 DEF MpscInv
<1>4. CASE /\ cTail = mpscHead /\ mpscPc' = [mpscPc EXCEPT ![Mpsc!Consumer] = "exchange"]
           /\ next' = [next EXCEPT ![Mpsc!Dummy] = Mpsc!Null]
           /\ node' = [node EXCEPT ![Mpsc!Consumer] = Mpsc!Dummy]
           /\ UNCHANGED <<intrusive, mpscHead, data, tail, alive, prevHead, cTail, cNext, destroying,
                          order, enqueued, dequeued>>
  <2>1. Len(order) = 1
    <3>1. 1 \in 1..Len(order) /\ Len(order) \in 1..Len(order)
      BY <1>0
    <3> QED
      BY <1>0, <1>1, <1>4, <3>1 DEF MpscOrder
  <2>2. /\ \A i \in 1..Len(order) : order[i] # Mpsc!Dummy /\ next'[order[i]] = next[order[i]]
    BY <1>0, <1>1, <1>4, <2>1 DEF MpscOrder, MpscType
  <2>3. /\ node'[Mpsc!Consumer] = Mpsc!Dummy /\ mpscPc'[Mpsc!Consumer] = "exchange"
        /\ \A u \in Mpsc!Enqueuers : u # Mpsc!Consumer => node'[u] = node[u] /\ mpscPc'[u] = mpscPc[u]
        /\ \A p \in MpscProducers : mpscPc'[p] = mpscPc[p]
    BY <1>0, <1>4, MpscConstants DEF MpscType
  <2>4. Mpsc!Dummy \in Memory /\ Mpsc!Dummy \in Bytes /\ Mpsc!Null \in Bytes /\ "exchange" \in MpscPlaces
    BY DEF Memory, Bytes, MpscPlaces
  <2>5. MpscType'
    <3>1. next' \in [Memory -> Bytes] /\ node' \in [Mpsc!Enqueuers -> Bytes] /\ mpscPc' \in [Mpsc!Enqueuers -> MpscPlaces]
      BY <1>0, <1>4, <2>4 DEF MpscType
    <3> QED
      BY <1>0, <1>4, <3>1, Zenon DEF MpscType
  <2>6. MpscOrder'
    BY <1>0, <1>4 DEF MpscOrder
  <2>7. MpscLinks'
    <3>1. \A t \in Mpsc!Enqueuers : mpscPc'[t] # "link"
      <4>1. \A t \in Mpsc!Enqueuers : mpscPc[t] # "link"
        BY <1>0, <2>1 DEF MpscLinks
      <4> QED
        BY <2>3, <4>1
    <3>2. next'[order'[Len(order')]] = Mpsc!Null
      BY <1>0, <1>4, <2>1, <2>2 DEF MpscLinks
    <3>3. 1..(Len(order') - 1) = {}
      BY <1>4, <2>1
    <3> QED
      BY <3>1, <3>2, <3>3 DEF MpscLinks
  <2>8. MpscNew'
    <3> SUFFICES ASSUME NEW u \in Mpsc!Enqueuers, mpscPc'[u] = "exchange"
                 PROVE  /\ node'[u] \in (IF u = Mpsc!Consumer THEN {Mpsc!Dummy} ELSE Nodes)
                        /\ next'[node'[u]] = Mpsc!Null /\ node'[u] \in alive'
                        /\ \A i \in 1..Len(order') : order'[i] # node'[u]
                        /\ \A v \in Mpsc!Enqueuers : mpscPc'[v] = "exchange" /\ node'[v] = node'[u] => v = u
      BY DEF MpscNew
    <3>1. \A v \in Mpsc!Enqueuers : v # Mpsc!Consumer /\ mpscPc'[v] = "exchange" =>
             /\ mpscPc[v] = "exchange" /\ node'[v] = node[v] /\ node[v] \in Nodes /\ node[v] # Mpsc!Dummy
      BY <1>0, <2>3, MpscConstants DEF MpscNew
    <3>2. CASE u = Mpsc!Consumer
      <4>1. next'[Mpsc!Dummy] = Mpsc!Null /\ Mpsc!Dummy \in alive
        BY <1>0, <1>1, <1>4, <2>4 DEF MpscType, MpscAlive
      <4> QED
        BY <1>4, <2>2, <2>3, <3>1, <3>2, <4>1
    <3>3. CASE u # Mpsc!Consumer
      <4>1. next'[node[u]] = next[node[u]]
        BY <1>0, <1>4, <3>1, <3>3 DEF MpscType, Memory
      <4>2. \A v \in Mpsc!Enqueuers : mpscPc'[v] = "exchange" /\ node'[v] = node'[u] => v = u
        BY <1>0, <2>3, <3>1, <3>3 DEF MpscNew
      <4> QED
        BY <1>0, <1>4, <3>1, <3>3, <4>1, <4>2 DEF MpscNew
    <3> QED
      BY <3>2, <3>3
  <2>9. MpscAlive'
    BY <1>0, <1>1, <1>4, <2>3 DEF MpscAlive
  <2>10. MpscMessages'
    BY <1>0, <1>4 DEF MpscMessages, Mpsc!MessageAt
  <2>11. MpscConsumer'
    <3>1. \A p \in MpscProducers : mpscPc'[p] \in {"idle", "exchange", "link"} /\ (destroying' => mpscPc'[p] = "idle")
      BY <1>0, <1>4, <2>3 DEF MpscConsumer
    <3>2. mpscPc'[Mpsc!Consumer] = "exchange" /\ intrusive' /\ cTail' = tail' /\ tail' # Mpsc!Dummy
      BY <1>1, <1>4, <2>3
    <3> QED
      BY <3>1, <3>2 DEF MpscConsumer
  <2> QED
    BY <2>5, <2>6, <2>7, <2>8, <2>9, <2>10, <2>11 DEF MpscInv
<1> QED
  BY <1>2, <1>3, <1>4 DEF Mpsc!Behind, Mpsc!Goto

\* Dequeue reads the link again behind the dummy it enqueued; the destructor begins
\* and deletes the node that is left.
LEMMA MpscRest ==
  ASSUME MpscInv, Mpsc!Reload \/ Mpsc!Destroy \/ Mpsc!DeleteFront
  PROVE  MpscInv'
<1>0. /\ MpscType /\ MpscOrder /\ MpscLinks /\ MpscNew /\ MpscAlive /\ MpscMessages /\ MpscConsumer
      /\ Mpsc!Consumer \in Mpsc!Enqueuers /\ Len(order) \in Nat /\ Len(order) >= 1
  BY MpscConstants, LenProperties DEF MpscInv, MpscType
<1>1. CASE Mpsc!Reload
  <2>0. mpscPc[Mpsc!Consumer] = "reload" /\ cTail = tail
    BY <1>0, <1>1 DEF Mpsc!Reload, MpscConsumer
  <2>1. CASE next[cTail] # Mpsc!Null
    <3>1. /\ tail' = next[tail] /\ order' = Tail(order) /\ dequeued' = Append(dequeued, data[cTail])
          /\ alive' = alive \ {cTail} /\ mpscPc' = [mpscPc EXCEPT ![Mpsc!Consumer] = "idle"]
          /\ UNCHANGED <<intrusive, mpscHead, next, data, node, prevHead, cTail, destroying, enqueued>>
      BY <1>1, <2>0, <2>1 DEF Mpsc!Reload, Mpsc!Goto, Mpsc!list
    <3> QED
      BY <2>0, <2>1, <3>1, MpscReturn
  <2>2. CASE next[cTail] = Mpsc!Null
    <3>0. mpscPc' = [mpscPc EXCEPT ![Mpsc!Consumer] = "idle"]
           /\ UNCHANGED <<intrusive, mpscHead, data, tail, alive, next, node, prevHead, cTail, cNext, destroying,
                          order, enqueued, dequeued>>
      BY <1>1, <2>2 DEF Mpsc!Reload, Mpsc!Goto, Mpsc!list
    <3>1. /\ MpscType' /\ MpscOrder' /\ MpscLinks' /\ MpscNew' /\ MpscAlive' /\ MpscMessages'
          /\ mpscPc'[Mpsc!Consumer] = "idle" /\ \A p \in MpscProducers : mpscPc'[p] = mpscPc[p]
      <4>1. /\ "idle" \in MpscPlaces \ {"exchange", "link"} /\ "idle" # "gone"
            /\ mpscPc[Mpsc!Consumer] \notin {"exchange", "link", "gone"}
        BY <2>0 DEF MpscPlaces
      <4> QED
        BY <3>0, <4>1, ConsumerGoes
    <3>2. MpscConsumer'
      BY <1>0, <3>0, <3>1 DEF MpscConsumer
    <3> QED
      BY <3>1, <3>2 DEF MpscInv
  <2> QED
    BY <2>1, <2>2
<1>2. CASE Mpsc!Destroy
  <2>1. /\ \A t \in Mpsc!Enqueuers : mpscPc[t] = "idle"
        /\ destroying' = TRUE
        /\ UNCHANGED <<intrusive, mpscHead, next, data, tail, alive, mpscPc, node, prevHead, cTail, cNext,
                       order, enqueued, dequeued>>
    BY <1>2 DEF Mpsc!Destroy, Mpsc!list
  <2>2. MpscType'
    <3>1. destroying' \in BOOLEAN
      BY <2>1, Zenon
    <3> QED
      BY <1>0, <2>1, <3>1, Zenon DEF MpscType
  <2>3. MpscOrder' /\ MpscMessages'
    BY <1>0, <2>1 DEF MpscOrder, MpscMessages, Mpsc!MessageAt
  <2>4. MpscLinks' /\ MpscNew' /\ MpscAlive'
    BY <1>0, <2>1 DEF MpscLinks, MpscNew, MpscAlive
  <2>5. MpscConsumer'
    BY <1>0, <2>1, MpscConstants DEF MpscConsumer
  <2> QED
    BY <2>2, <2>3, <2>4, <2>5 DEF MpscInv
<1>3. CASE Mpsc!DeleteFront
  <2>1. /\ mpscPc[Mpsc!Consumer] = "delete" /\ alive' = alive \ {mpscHead}
        /\ mpscPc' = [mpscPc EXCEPT ![Mpsc!Consumer] = "gone"]
        /\ UNCHANGED <<intrusive, mpscHead, next, data, tail, node, prevHead, cTail, cNext, destroying,
                       order, enqueued, dequeued>>
    BY <1>3 DEF Mpsc!DeleteFront, Mpsc!Goto, Mpsc!list
  <2>2. /\ ~intrusive /\ destroying /\ Len(order) = 1 /\ \A p \in MpscProducers : mpscPc[p] = "idle"
    BY <1>0, <2>1 DEF MpscConsumer
  <2>3. /\ mpscPc'[Mpsc!Consumer] = "gone" /\ \A p \in MpscProducers : mpscPc'[p] = "idle"
        /\ \A u \in Mpsc!Enqueuers : mpscPc'[u] \notin {"exchange", "link"} /\ mpscPc[u] \notin {"exchange", "link"}
    BY <1>0, <2>1, <2>2, MpscConstants DEF MpscType
  <2>4. MpscType'
    <3>1. mpscPc' \in [Mpsc!Enqueuers -> MpscPlaces]
      BY <1>0, <2>1 DEF MpscType, MpscPlaces
    <3> QED
      BY <1>0, <2>1, <3>1, Zenon DEF MpscType
  <2>5. MpscOrder' /\ MpscMessages'
    BY <1>0, <2>1 DEF MpscOrder, MpscMessages, Mpsc!MessageAt
  <2>6. MpscLinks' /\ MpscNew'
    BY <1>0, <2>1, <2>3 DEF MpscLinks, MpscNew
  <2>7. alive' = {}
    BY <1>0, <2>1, <2>2, <2>3 DEF MpscAlive, MpscOrder
  <2>8. MpscAlive'
    BY <2>1, <2>2, <2>3, <2>7 DEF MpscAlive
  <2>9. MpscConsumer'
    BY <1>0, <2>1, <2>2, <2>3 DEF MpscConsumer
  <2> QED
    BY <2>4, <2>5, <2>6, <2>8, <2>9 DEF MpscInv
<1> QED
  BY <1>1, <1>2, <1>3

\* Every step of MPSCQueue keeps the invariant.
LEMMA MpscNext == MpscInv /\ [Mpsc!Next]_mpscVars => MpscInv'
<1> SUFFICES ASSUME MpscInv, [Mpsc!Next]_mpscVars PROVE MpscInv'
  OBVIOUS
<1>1. CASE UNCHANGED mpscVars
  <2>1. MpscType' /\ MpscOrder' /\ MpscLinks' /\ MpscNew'
    BY <1>1 DEF mpscVars, MpscInv, MpscType, MpscOrder, MpscLinks, MpscNew
  <2>2. MpscAlive' /\ MpscMessages' /\ MpscConsumer'
    BY <1>1 DEF mpscVars, MpscInv, MpscAlive, MpscMessages, MpscConsumer, Mpsc!MessageAt
  <2> QED
    BY <2>1, <2>2 DEF MpscInv
<1>2. CASE Mpsc!Next
  BY <1>2, MpscBegin, MpscExchange, MpscLink, MpscLoadNext, MpscStoreTail, MpscSkipDummy, MpscBehind, MpscRest
     DEF Mpsc!Next, Mpsc!Dequeue
<1> QED
  BY <1>1, <1>2

\* What the invariant says of the messages and of the nodes.
LEMMA MpscSound == MpscInv => Mpsc!MessagesInOrder /\ Mpsc!NothingDangles
<1> SUFFICES ASSUME MpscInv PROVE Mpsc!MessagesInOrder /\ Mpsc!NothingDangles
  OBVIOUS
<1>0. /\ MpscType /\ MpscOrder /\ MpscLinks /\ MpscAlive /\ MpscMessages /\ MpscConsumer
      /\ Mpsc!Consumer \in Mpsc!Enqueuers /\ Len(order) \in Nat /\ Len(order) >= 1
      /\ DOMAIN order = 1..Len(order) /\ Len(dequeued) \in Nat
      /\ \A i \in 1..Len(order) : order[i] \in Memory /\ data[order[i]] \in Nat
  BY MpscConstants, LenProperties, ElementOfSeq DEF MpscInv, MpscType
<1>1. dequeued = [i \in 1..Len(dequeued) |-> i]
  <2>1. [i \in 1..Len(dequeued) |-> i] \in Seq(Nat) /\ Len([i \in 1..Len(dequeued) |-> i]) = Len(dequeued)
    BY <1>0
  <2> QED
    BY <1>0, <2>1, SeqEqual DEF MpscMessages, MpscType
<1>2. {data[order[i]] : i \in Mpsc!Waiting} = (Len(dequeued) + 1)..enqueued
  <2>1. \A k : k \in {data[order[i]] : i \in Mpsc!Waiting} => k \in (Len(dequeued) + 1)..enqueued
    BY <1>0 DEF MpscMessages, Mpsc!Waiting
  <2>2. ASSUME NEW k \in (Len(dequeued) + 1)..enqueued
        PROVE  k \in {data[order[i]] : i \in Mpsc!Waiting}
    BY <1>0 DEF MpscMessages, Mpsc!Waiting
  <2> QED
    BY <2>1, <2>2
<1>3. \A i, j \in Mpsc!Waiting : i < j => data[order[i]] < data[order[j]]
  BY <1>0 DEF MpscMessages, Mpsc!Waiting
<1>4. (\A t \in Mpsc!Enqueuers : mpscPc[t] = "idle") => Mpsc!Linked
  BY <1>0 DEF MpscLinks, MpscOrder, Mpsc!Linked
<1>5. mpscPc[Mpsc!Consumer] = "gone" =>
        /\ Len(dequeued) = enqueued
        /\ alive \subseteq (IF intrusive THEN {Mpsc!Dummy} ELSE {})
  <2> SUFFICES ASSUME mpscPc[Mpsc!Consumer] = "gone"
               PROVE  Len(dequeued) = enqueued /\ alive \subseteq (IF intrusive THEN {Mpsc!Dummy} ELSE {})
    OBVIOUS
  <2>1. /\ destroying /\ Len(order) = 1 /\ (intrusive => order[1] = Mpsc!Dummy)
        /\ \A t \in Mpsc!Enqueuers : mpscPc[t] # "exchange"
    BY <1>0, MpscConstants DEF MpscConsumer, MpscOrder
  <2>2. \A i \in 1..Len(order) : ~Mpsc!MessageAt(i)
    BY <2>1 DEF Mpsc!MessageAt
  <2>3. Len(dequeued) = enqueued
    <3>1. (Len(dequeued) + 1)..enqueued = {}
      BY <1>0, <2>2 DEF MpscMessages
    <3>2. Len(dequeued) <= enqueued /\ enqueued \in Nat
      BY <1>0 DEF MpscMessages, MpscType
    <3>3. enqueued \notin (Len(dequeued) + 1)..enqueued
      BY <3>1
    <3> QED
      BY <1>0, <3>2, <3>3
  <2>4. alive \subseteq (IF intrusive THEN {Mpsc!Dummy} ELSE {})
    BY <1>0, <2>1 DEF MpscAlive
  <2> QED
    BY <2>3, <2>4
<1>6. Mpsc!MessagesInOrder
  BY <1>1, <1>2, <1>3, <1>4, <1>5 DEF Mpsc!MessagesInOrder
<1>7. Mpsc!NothingDangles
  <2>1. \A t \in Mpsc!Enqueuers : mpscPc[t] = "link" => prevHead[t] \in alive
    <3> SUFFICES ASSUME NEW t \in Mpsc!Enqueuers, mpscPc[t] = "link" PROVE prevHead[t] \in alive
      OBVIOUS
    <3>1. PICK i \in 1..(Len(order) - 1) : prevHead[t] = order[i]
      BY <1>0 DEF MpscLinks
    <3>2. i \in 1..Len(order)
      BY <1>0
    <3>3. mpscPc[Mpsc!Consumer] # "gone" \/ intrusive
      BY <1>0, MpscConstants DEF MpscConsumer
    <3> QED
      BY <1>0, <3>1, <3>2, <3>3 DEF MpscAlive
  <2>2. mpscPc[Mpsc!Consumer] # "gone" => {mpscHead, tail} \subseteq alive
    <3>1. 1 \in 1..Len(order) /\ Len(order) \in 1..Len(order)
      BY <1>0
    <3> QED
      BY <1>0, <3>1 DEF MpscAlive, MpscOrder
  <2>3. mpscPc[Mpsc!Consumer] \in {"storeTail", "skipDummy"} => {cTail, cNext} \subseteq alive
    <3> SUFFICES ASSUME mpscPc[Mpsc!Consumer] \in {"storeTail", "skipDummy"} PROVE {cTail, cNext} \subseteq alive
      OBVIOUS
    <3>1. cTail = tail /\ cNext = next[tail] /\ cNext # Mpsc!Null
      BY <1>0 DEF MpscConsumer
    <3>2. Len(order) # 1
      BY <1>0, <3>1 DEF MpscOrder, MpscLinks
    <3>3. \A m \in Nat : m >= 1 /\ m # 1 => 1 \in 1..(m - 1) /\ 1 + 1 \in 1..m
      OBVIOUS
    <3>4. 1 \in 1..(Len(order) - 1) /\ 1 + 1 \in 1..Len(order)
      BY <1>0, <3>2, <3>3, Zenon
    <3>5. cNext = order[1 + 1]
      BY <1>0, <3>1, <3>4 DEF MpscOrder, MpscLinks
    <3> QED
      BY <1>0, <2>2, <3>1, <3>4, <3>5 DEF MpscAlive
  <2>4. mpscPc[Mpsc!Consumer] \in {"behind", "exchange", "link", "reload"} => cTail \in alive
    BY <1>0, <2>2 DEF MpscConsumer
  <2> QED
    BY <2>1, <2>2, <2>3, <2>4 DEF Mpsc!NothingDangles
<1> QED
  BY <1>6, <1>7

------------------------------------------------------------------------------
(* The smaller queues together                                             *)

\* The inductive invariants of the four queues.
SmallQueuesInv == MpscInv /\ SpscInv /\ ProInv /\ LockedInv

\* A step of one queue leaves the others alone.
LEMMA SmallQueuesInvStep == SmallQueuesInv /\ [QueuesNext]_queuesVars => SmallQueuesInv'
<1> SUFFICES ASSUME SmallQueuesInv, [QueuesNext]_queuesVars PROVE SmallQueuesInv'
  OBVIOUS
<1>1. [Mpsc!Next]_mpscVars
  BY DEF QueuesNext, queuesVars
<1>2. [Spsc!Next]_spscVars
  BY DEF QueuesNext, queuesVars
<1>3. [Pro!Next]_proVars
  BY DEF QueuesNext, queuesVars
<1>4. [Locked!Next]_lockedVars
  BY DEF QueuesNext, queuesVars
<1> QED
  BY <1>1, <1>2, <1>3, <1>4, MpscNext, SpscNext, ProNext, LockedNext DEF SmallQueuesInv

\* Whatever the threads of MPSCQueue, RingBuffer, BlockingQueuePro and LockedQueue
\* do, and in whatever order, nothing is lost or taken twice, the order is kept,
\* no link of a node that is gone is followed, the sizes that Size of RingBuffer
\* returns are safe to use and the consumer that sleeps has no reason to be awake.
THEOREM SmallQueues == QueuesSpec => []SmallQueuesSound
<1>1. QueuesInit => SmallQueuesInv
  BY MpscInit, SpscInit, ProInit, LockedInit DEF QueuesInit, SmallQueuesInv
<1>2. SmallQueuesInv /\ [QueuesNext]_queuesVars => SmallQueuesInv'
  BY SmallQueuesInvStep
<1>3. SmallQueuesInv => SmallQueuesSound
  BY MpscSound, SpscSound, ProSound, LockedSound DEF SmallQueuesInv, SmallQueuesSound
<1> QED
  BY <1>1, <1>2, <1>3, PTL DEF QueuesSpec
==============================================================================
