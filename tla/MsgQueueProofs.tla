--------------------------- MODULE MsgQueueProofs ----------------------------
(***************************************************************************)
(* Theorems about MsgQueue, for any number of producers, consumers and     *)
(* controllers, every limit and every number of messages.                  *)
(***************************************************************************)
EXTENDS MsgQueue, FiniteSetTheorems, SequenceTheorems, TLAPS

------------------------------------------------------------------------------
(* Lists.                                                                  *)

\* What linking a message behind the last one does to a list.
LEMMA LinkLast ==
  ASSUME NEW s \in Seq(Nat), NEW m \in Nat
  PROVE  /\ SubSeq(s, 1, Len(s)) \o <<m>> = Append(s, m)
         /\ Append(s, m) \in Seq(Nat) /\ Append(s, m) # <<>>
         /\ Len(Append(s, m)) = Len(s) + 1
<1>1. SubSeq(s, 1, Len(s)) = s
  BY SubSeqFull
<1>2. Append(s, m) = s \o <<m>>
  BY AppendIsConcat
<1>3. /\ Append(s, m) \in Seq(Nat) /\ Append(s, m) # <<>>
      /\ Len(Append(s, m)) = Len(s) + 1
  BY AppendProperties
<1> QED
  BY <1>1, <1>2, <1>3

\* What unlinking the first message does to a list.
LEMMA UnlinkFirst ==
  ASSUME NEW s \in Seq(Nat), s # <<>>
  PROVE  /\ Tail(s) \in Seq(Nat) /\ Len(Tail(s)) = Len(s) - 1
         /\ Len(s) \in Nat \ {0}
  BY HeadTailProperties, EmptySeq

\* Linking behind the second of two lists is linking behind both.
LEMMA LinkBehindBoth ==
  ASSUME NEW g \in Seq(Nat), NEW s \in Seq(Nat), NEW m \in Nat
  PROVE  g \o Append(s, m) = (g \o s) \o <<m>>
<1>1. <<m>> \in Seq(Nat)
  OBVIOUS
<1>2. PICK t \in Seq(Nat) : t = <<m>>
  BY <1>1
<1>3. (g \o s) \o t = g \o (s \o t)
  BY <1>2, ConcatAssociative
<1>4. Append(s, m) = s \o t
  BY <1>2, AppendIsConcat
<1> QED
  BY <1>2, <1>3, <1>4

\* Unlinking the first of two lists' messages.
LEMMA UnlinkOfBoth ==
  ASSUME NEW g \in Seq(Nat), NEW s \in Seq(Nat), g # <<>>
  PROVE  /\ Tail(g) \o s = SubSeq(g \o s, 2, Len(g \o s))
         /\ Len(g \o s) \in Nat /\ Len(g \o s) >= 1
<1>1. /\ g \o s \in Seq(Nat) /\ Len(g \o s) = Len(g) + Len(s)
      /\ \A i \in 1 .. Len(g) + Len(s) : (g \o s)[i] = IF i <= Len(g) THEN g[i] ELSE s[i - Len(g)]
  BY ConcatProperties
<1>2. /\ Len(g) \in Nat \ {0} /\ Len(s) \in Nat
      /\ Tail(g) \in Seq(Nat) /\ Len(Tail(g)) = Len(g) - 1
      /\ \A i \in 1 .. Len(Tail(g)) : Tail(g)[i] = g[i + 1]
  BY UnlinkFirst, HeadTailProperties, LenProperties
<1> DEFINE t == Tail(g)
<1> HIDE DEF t
<1>3. /\ t \o s \in Seq(Nat) /\ Len(t \o s) = Len(t) + Len(s)
      /\ \A i \in 1 .. Len(t) + Len(s) : (t \o s)[i] = IF i <= Len(t) THEN t[i] ELSE s[i - Len(t)]
  BY <1>2, ConcatProperties DEF t
<1> DEFINE b == g \o s
           u == t \o s
<1> HIDE DEF b, u
<1>4. b # <<>> /\ b \in Seq(Nat)
  BY <1>1, <1>2, EmptySeq DEF b
<1>5. /\ Tail(b) = SubSeq(b, 2, Len(b)) /\ Tail(b) \in Seq(Nat) /\ Len(Tail(b)) = Len(b) - 1
      /\ \A i \in 1 .. Len(Tail(b)) : Tail(b)[i] = b[i + 1]
  BY <1>4, TailIsSubSeq, HeadTailProperties
<1> DEFINE v == Tail(b)
           n == Len(g)
           k == Len(s)
<1> HIDE DEF v, n, k
<1>6. /\ n \in Nat \ {0} /\ k \in Nat /\ Len(u) = n - 1 + k /\ Len(v) = n - 1 + k
  BY <1>1, <1>2, <1>3, <1>5 DEF b, u, v, n, k, t
<1>7. /\ \A i \in 1 .. n - 1 + k : u[i] = IF i <= n - 1 THEN g[i + 1] ELSE s[i - (n - 1)]
      /\ \A i \in 1 .. n - 1 + k : v[i] = IF i + 1 <= n THEN g[i + 1] ELSE s[i + 1 - n]
  <2>1. Len(t) = n - 1 /\ \A i \in 1 .. n - 1 : t[i] = g[i + 1]
    BY <1>2 DEF t, n
  <2>2. \A i \in 1 .. n - 1 + k : u[i] = IF i <= n - 1 THEN g[i + 1] ELSE s[i - (n - 1)]
    <3>1. \A i \in 1 .. n - 1 + k : u[i] = IF i <= n - 1 THEN t[i] ELSE s[i - (n - 1)]
      BY <1>3, <2>1 DEF u, k
    <3>2. \A i \in 1 .. n - 1 + k : i <= n - 1 => i \in 1 .. n - 1
      BY <1>6
    <3> QED
      BY <2>1, <3>1, <3>2, Zenon
  <2>3. \A i \in 1 .. n - 1 + k : v[i] = b[i + 1]
    BY <1>5, <1>6 DEF v
  <2>4. \A i \in 1 .. n + k : b[i] = IF i <= n THEN g[i] ELSE s[i - n]
    BY <1>1 DEF b, n, k
  <2> QED
    BY <1>6, <2>2, <2>3, <2>4
<1>8. ASSUME NEW i \in 1 .. Len(u) PROVE u[i] = v[i]
  <2>1. /\ i \in 1 .. n - 1 + k /\ (i <= n - 1 <=> i + 1 <= n) /\ i - (n - 1) = i + 1 - n
    BY <1>6
  <2>2. /\ u[i] = IF i <= n - 1 THEN g[i + 1] ELSE s[i - (n - 1)]
        /\ v[i] = IF i + 1 <= n THEN g[i + 1] ELSE s[i + 1 - n]
    BY <1>7, <2>1, Zenon
  <2>3. CASE i <= n - 1
    <3>1. u[i] = g[i + 1]
      BY <2>2, <2>3, Zenon
    <3>2. v[i] = g[i + 1]
      BY <2>1, <2>2, <2>3, Zenon
    <3> QED
      BY <3>1, <3>2, Zenon
  <2>4. CASE ~(i <= n - 1)
    <3>1. u[i] = s[i - (n - 1)]
      BY <2>2, <2>4, Zenon
    <3>2. v[i] = s[i + 1 - n]
      BY <2>1, <2>2, <2>4, Zenon
    <3> QED
      BY <2>1, <3>1, <3>2, Zenon
  <2> QED
    BY <2>3, <2>4, Zenon
<1>9. u = v
  BY <1>3, <1>5, <1>6, <1>8, SeqEqual DEF u, v
<1>10. Len(b) = n + k
  BY <1>1 DEF b, n, k
<1> QED
  BY <1>5, <1>6, <1>9, <1>10 DEF u, v, b, t

------------------------------------------------------------------------------
(* Mutexes: who is where in the code holds which.                          *)

PutHolding == {"putCheck", "putWait", "putLink", "swapCheck", "swapWait", "swap"}
Swapping == {"swapLock", "swapCheck", "swapWait", "getAsleep", "swap"}

\* A thread inside a section of put_mutex is its only holder, and a consumer
\* inside msgqueue_get, asleep or not, the only holder of get_mutex.
MutexInv ==
    /\ \A t \in Threads : pc[t] \in PutHolding => putMutex = {t}
    /\ \A c \in Consumers : pc[c] # "idle" => getMutex = {c}

\* While a consumer is inside msgqueue_get the others are outside.
LEMMA AloneInGet ==
  ASSUME MutexInv, NEW c \in Consumers, pc[c] # "idle"
  PROVE  \A d \in Consumers \ {c} : pc[d] = "idle"
  BY DEF MutexInv

\* The positions and the mutexes have their types.
PcType ==
    /\ pc \in [Threads -> ProducerPc \cup ConsumerPc \cup {"ctlLock"}]
    /\ \A p \in Producers : pc[p] \in ProducerPc
    /\ \A c \in Consumers : pc[c] \in ConsumerPc
    /\ \A k \in Controllers : pc[k] \in {"idle", "ctlLock"}
    /\ putMutex \in SUBSET Threads /\ getMutex \in SUBSET Consumers

\* Everybody is idle and holds nothing.
LEMMA PcInit == Init => PcType /\ MutexInv
  BY DEF Init, PcType, MutexInv, Threads, ProducerPc, ConsumerPc, PutHolding

\* Every step leaves every mutex with one holder, the one whose code says so.
LEMMA PcNext ==
  ASSUME PcType, MutexInv, [Next]_vars
  PROVE  PcType' /\ MutexInv'
<1> USE MsgQueueAssumption DEF Threads
<1>1. ASSUME NEW p \in Producers, PutCall(p) PROVE PcType' /\ MutexInv'
  BY <1>1 DEF PutCall, LockPut, Goto, PcType, MutexInv, ProducerPc, ConsumerPc, PutHolding
<1>2. ASSUME NEW p \in Producers, PutLock(p) PROVE PcType' /\ MutexInv'
  BY <1>2 DEF PutLock, LockPut, Goto, PcType, MutexInv, ProducerPc, ConsumerPc, PutHolding
<1>3. ASSUME NEW p \in Producers, PutCheck(p) PROVE PcType' /\ MutexInv'
  BY <1>3 DEF PutCheck, Goto, PcType, MutexInv, ProducerPc, ConsumerPc, PutHolding
<1>4. ASSUME NEW p \in Producers, PutWait(p) PROVE PcType' /\ MutexInv'
  BY <1>4
     DEF PutWait, CondWait, Goto, PcType, MutexInv, ProducerPc, ConsumerPc,
         PutHolding
<1>5. ASSUME NEW p \in Producers, PutLink(p) PROVE PcType' /\ MutexInv'
  BY <1>5 DEF PutLink, Goto, PcType, MutexInv, ProducerPc, ConsumerPc, PutHolding
<1>6. ASSUME NEW p \in Producers, PutSignal(p) PROVE PcType' /\ MutexInv'
  BY <1>6
     DEF PutSignal, Signalled, GetSleepers, Wake, Awake, PcType, MutexInv,
         ProducerPc, ConsumerPc, PutHolding
<1>7. ASSUME NEW p \in Producers, SpuriousWake(p) PROVE PcType' /\ MutexInv'
  BY <1>7
     DEF SpuriousWake, PutSleepers, GetSleepers, Goto, Awake, PcType, MutexInv,
         ProducerPc, ConsumerPc, PutHolding
<1>8. ASSUME NEW c \in Consumers, GetCall(c) PROVE PcType' /\ MutexInv'
  BY <1>8 DEF GetCall, Goto, PcType, MutexInv, ProducerPc, ConsumerPc, PutHolding
<1>9. ASSUME NEW c \in Consumers, GetTake(c) PROVE PcType' /\ MutexInv'
  BY <1>9 DEF GetTake, Goto, PcType, MutexInv, ProducerPc, ConsumerPc, PutHolding
<1>10. ASSUME NEW c \in Consumers, SwapBegin(c) PROVE PcType' /\ MutexInv'
  BY <1>10 DEF SwapBegin, Goto, PcType, MutexInv, ProducerPc, ConsumerPc, PutHolding
<1>11. ASSUME NEW c \in Consumers, SwapLock(c) PROVE PcType' /\ MutexInv'
  BY <1>11
     DEF SwapLock, LockPut, Goto, PcType, MutexInv, ProducerPc, ConsumerPc,
         PutHolding
<1>12. ASSUME NEW c \in Consumers, SwapCheck(c) PROVE PcType' /\ MutexInv'
  BY <1>12 DEF SwapCheck, Goto, PcType, MutexInv, ProducerPc, ConsumerPc, PutHolding
<1>13. ASSUME NEW c \in Consumers, SwapWait(c) PROVE PcType' /\ MutexInv'
  BY <1>13
     DEF SwapWait, CondWait, Goto, PcType, MutexInv, ProducerPc, ConsumerPc,
         PutHolding
<1>14. ASSUME NEW c \in Consumers, Swap(c) PROVE PcType' /\ MutexInv'
  BY <1>14
     DEF Swap, PutSleepers, Wake, Awake, PcType, MutexInv, ProducerPc, ConsumerPc,
         PutHolding
<1>15. ASSUME NEW c \in Consumers, GetNull(c) PROVE PcType' /\ MutexInv'
  BY <1>15 DEF GetNull, Goto, PcType, MutexInv, ProducerPc, ConsumerPc, PutHolding
<1>16. ASSUME NEW c \in Consumers, SpuriousWake(c) PROVE PcType' /\ MutexInv'
  BY <1>16
     DEF SpuriousWake, PutSleepers, GetSleepers, Goto, Awake, PcType, MutexInv,
         ProducerPc, ConsumerPc, PutHolding
<1>17. ASSUME NEW k \in Controllers, SetNonblock(k) PROVE PcType' /\ MutexInv'
  BY <1>17 DEF SetNonblock, Goto, PcType, MutexInv, ProducerPc, ConsumerPc, PutHolding
<1>18. ASSUME NEW k \in Controllers, SetNonblockWake(k) PROVE PcType' /\ MutexInv'
  BY <1>18
     DEF SetNonblockWake, Signalled, GetSleepers, PutSleepers, Wake, Awake, PcType,
         MutexInv, ProducerPc, ConsumerPc, PutHolding
<1>19. ASSUME NEW k \in Controllers, SetBlock(k) PROVE PcType' /\ MutexInv'
  BY <1>19 DEF SetBlock, PcType, MutexInv, ProducerPc, ConsumerPc, PutHolding
<1>20. CASE UNCHANGED vars
  BY <1>20 DEF vars, PcType, MutexInv, ProducerPc, ConsumerPc, PutHolding
<1> QED
  BY <1>1, <1>2, <1>3, <1>4, <1>5, <1>6, <1>7, <1>8, <1>9, <1>10, <1>11,
     <1>12, <1>13, <1>14, <1>15, <1>16, <1>17, <1>18, <1>19, <1>20
     DEF Next, PutStep, GetStep

------------------------------------------------------------------------------
(* The two lists, the counters and the mode.                               *)

\* The variables of the lists and of the mode have their types.
ListType ==
    /\ list \in [Heads -> Seq(Nat)]
    /\ getHead \in Heads /\ putHead \in Heads
    /\ putTail \in Nat /\ msgCnt \in Nat /\ linked \in Nat
    /\ nonblock \in BOOLEAN /\ wasNonblock \in BOOLEAN
    /\ oldHead \in [Consumers -> Heads]

\* While a consumer is between the two halves of a swap both heads are the put
\* list, and the one it has put aside is empty; at all other times they differ.
\* put_tail and msg_cnt are the length of the put list.
ListInv ==
    /\ getHead # putHead \/ \E c \in Consumers : pc[c] \in Swapping
    /\ \A c \in Consumers : pc[c] \in Swapping =>
          getHead = putHead /\ oldHead[c] # putHead /\ list[oldHead[c]] = <<>>
    /\ putTail = Len(list[putHead]) /\ msgCnt = putTail
    /\ \A c \in Consumers : pc[c] = "take" => list[getHead] # <<>>

\* A queue just created has two empty lists.
LEMMA ListInit == Init => ListType /\ ListInv
<1> SUFFICES ASSUME Init PROVE ListType /\ ListInv
  OBVIOUS
<1>1. <<>> \in Seq(Nat) /\ Len(<<>>) = 0
  BY EmptySeq
<1>2. ListType
  BY <1>1 DEF Init, ListType, Heads
<1>3. ListInv
  BY <1>1 DEF Init, ListInv, Heads, Threads, Swapping
<1> QED
  BY <1>2, <1>3

\* Linking keeps the lists, whoever is in the middle of a swap.
LEMMA ListPutLink ==
  ASSUME PcType, MutexInv, ListType, ListInv, NEW p \in Producers, PutLink(p)
  PROVE  /\ ListType' /\ ListInv'
         /\ list' = [list EXCEPT ![putHead] = Append(@, linked + 1)]
<1> DEFINE s == list[putHead]
<1>1. s \in Seq(Nat) /\ linked + 1 \in Nat /\ putTail = Len(s) /\ Len(s) \in Nat
  BY LenProperties DEF ListType, ListInv
<1>2. /\ SubSeq(s, 1, Len(s)) \o <<linked + 1>> = Append(s, linked + 1)
      /\ Append(s, linked + 1) \in Seq(Nat) /\ Append(s, linked + 1) # <<>>
      /\ Len(Append(s, linked + 1)) = Len(s) + 1
  BY <1>1, LinkLast
<1>3. list' = [list EXCEPT ![putHead] = Append(s, linked + 1)]
  BY <1>1, <1>2 DEF PutLink
<1> HIDE DEF s
<1>4. /\ putTail' = putTail + 1 /\ msgCnt' = msgCnt + 1 /\ linked' = linked + 1
      /\ UNCHANGED <<getHead, putHead, nonblock, wasNonblock, oldHead>>
  BY DEF PutLink, modeVars
<1>5. ListType'
  BY <1>1, <1>2, <1>3, <1>4 DEF ListType, Heads
<1>6. /\ list'[putHead] = Append(s, linked + 1)
      /\ \A h \in Heads : h # putHead => list'[h] = list[h]
  BY <1>3 DEF ListType
<1>7. \A c \in Consumers : pc'[c] = pc[c]
  BY MsgQueueAssumption DEF PutLink, Goto, PcType, Threads
<1>8. \A c \in Consumers : pc[c] = "take" => list'[getHead] # <<>>
  BY <1>2, <1>6 DEF ListInv, ListType
<1>9. ListInv'
  BY <1>1, <1>2, <1>4, <1>6, <1>7, <1>8 DEF ListInv, ListType, Swapping
<1> QED
  BY <1>3, <1>5, <1>9 DEF s

\* Taking a message: the list taken from is not the one that is put to.
LEMMA ListGetTake ==
  ASSUME PcType, MutexInv, ListType, ListInv, NEW c \in Consumers, GetTake(c)
  PROVE  /\ ListType' /\ ListInv'
         /\ getHead # putHead /\ list[getHead] # <<>>
<1>1. \A d \in Consumers \ {c} : pc[d] = "idle"
  BY AloneInGet DEF GetTake
<1>2. getHead # putHead /\ list[getHead] # <<>>
  BY <1>1 DEF GetTake, ListInv, Swapping
<1>3. Tail(list[getHead]) \in Seq(Nat)
  BY <1>2, UnlinkFirst DEF ListType
<1>4. \A d \in Consumers : pc'[d] = "idle"
  BY <1>1, MsgQueueAssumption DEF GetTake, Goto, PcType, Threads
<1>5. ListType'
  BY <1>3 DEF GetTake, ListType, modeVars, Heads
<1>6. list'[putHead] = list[putHead]
  BY <1>2 DEF GetTake, ListType
<1>7. ListInv'
  BY <1>2, <1>4, <1>6 DEF GetTake, ListInv, Swapping
<1> QED
  BY <1>2, <1>5, <1>7

\* The first half of a swap.
LEMMA ListSwapBegin ==
  ASSUME PcType, MutexInv, ListType, ListInv, NEW c \in Consumers, SwapBegin(c)
  PROVE  ListType' /\ ListInv' /\ getHead # putHead
<1>1. \A d \in Consumers \ {c} : pc[d] = "idle"
  BY AloneInGet DEF SwapBegin
<1>2. getHead # putHead
  BY <1>1 DEF SwapBegin, ListInv, Swapping
<1>3. pc'[c] = "swapLock" /\ \A d \in Consumers \ {c} : pc'[d] = "idle"
  BY <1>1, MsgQueueAssumption DEF SwapBegin, Goto, PcType, Threads
<1>4. ListType'
  BY DEF SwapBegin, ListType, modeVars, Heads
<1>5. ListInv'
  BY <1>2, <1>3 DEF SwapBegin, ListInv, ListType, Swapping
<1> QED
  BY <1>2, <1>4, <1>5

\* The second half.
LEMMA ListSwap ==
  ASSUME PcType, MutexInv, ListType, ListInv, NEW c \in Consumers, Swap(c)
  PROVE  /\ ListType' /\ ListInv'
         /\ getHead = putHead /\ putHead' # getHead /\ list[putHead'] = <<>>
<1>1. \A d \in Consumers \ {c} : pc[d] = "idle"
  BY AloneInGet DEF Swap
<1>2. getHead = putHead /\ oldHead[c] # putHead /\ list[oldHead[c]] = <<>>
  BY DEF Swap, ListInv, Swapping
<1>3. /\ pc'[c] = IF msgCnt > 0 THEN "take" ELSE "none"
      /\ \A d \in Consumers \ {c} : pc'[d] = "idle"
  BY <1>1, MsgQueueAssumption DEF Swap, Wake, PutSleepers, PcType, Threads
<1>4. ListType'
  BY DEF Swap, ListType, modeVars, Heads
<1>5. Len(<<>>) = 0
  BY EmptySeq
<1>6. putTail' = Len(list'[putHead']) /\ msgCnt' = putTail'
  BY <1>2, <1>5 DEF Swap
<1>7. pc'[c] = "take" => list'[getHead'] # <<>>
  BY <1>2, <1>3, <1>5 DEF Swap, ListInv, ListType
<1>8. ListInv'
  BY <1>2, <1>3, <1>6, <1>7 DEF Swap, ListInv, Swapping
<1> QED
  BY <1>2, <1>4, <1>8 DEF Swap

\* Every step keeps the two lists apart and counted.
LEMMA ListNext ==
  ASSUME PcType, MutexInv, ListType, ListInv, [Next]_vars
  PROVE  ListType' /\ ListInv'
<1> USE MsgQueueAssumption DEF Threads, Heads
<1>1. ASSUME NEW p \in Producers, PutCall(p) PROVE ListType' /\ ListInv'
  BY <1>1
     DEF PutCall, LockPut, Goto, PcType, MutexInv, ListType, ListInv, ProducerPc,
         ConsumerPc, Swapping, PutHolding, listVars, modeVars
<1>2. ASSUME NEW p \in Producers, PutLock(p) PROVE ListType' /\ ListInv'
  BY <1>2
     DEF PutLock, LockPut, Goto, PcType, MutexInv, ListType, ListInv, ProducerPc,
         ConsumerPc, Swapping, PutHolding, listVars, modeVars
<1>3. ASSUME NEW p \in Producers, PutCheck(p) PROVE ListType' /\ ListInv'
  BY <1>3
     DEF PutCheck, Goto, PcType, MutexInv, ListType, ListInv, ProducerPc,
         ConsumerPc, Swapping, PutHolding, listVars, modeVars
<1>4. ASSUME NEW p \in Producers, PutWait(p) PROVE ListType' /\ ListInv'
  BY <1>4
     DEF PutWait, CondWait, Goto, PcType, MutexInv, ListType, ListInv, ProducerPc,
         ConsumerPc, Swapping, PutHolding, listVars, modeVars
<1>5. ASSUME NEW p \in Producers, PutLink(p) PROVE ListType' /\ ListInv'
  BY <1>5, ListPutLink
<1>6. ASSUME NEW p \in Producers, PutSignal(p) PROVE ListType' /\ ListInv'
  BY <1>6
     DEF PutSignal, Signalled, GetSleepers, Wake, Awake, PcType, MutexInv,
         ListType, ListInv, ProducerPc, ConsumerPc, Swapping, PutHolding, listVars,
         modeVars
<1>7. ASSUME NEW p \in Producers, SpuriousWake(p) PROVE ListType' /\ ListInv'
  BY <1>7
     DEF SpuriousWake, PutSleepers, GetSleepers, Goto, Awake, PcType, MutexInv,
         ListType, ListInv, ProducerPc, ConsumerPc, Swapping, PutHolding, listVars,
         modeVars
<1>8. ASSUME NEW c \in Consumers, GetCall(c) PROVE ListType' /\ ListInv'
  BY <1>8
     DEF GetCall, Goto, PcType, MutexInv, ListType, ListInv, ProducerPc,
         ConsumerPc, Swapping, PutHolding, listVars, modeVars
<1>9. ASSUME NEW c \in Consumers, GetTake(c) PROVE ListType' /\ ListInv'
  BY <1>9, ListGetTake
<1>10. ASSUME NEW c \in Consumers, SwapBegin(c) PROVE ListType' /\ ListInv'
  BY <1>10, ListSwapBegin
<1>11. ASSUME NEW c \in Consumers, SwapLock(c) PROVE ListType' /\ ListInv'
  BY <1>11
     DEF SwapLock, LockPut, Goto, PcType, MutexInv, ListType, ListInv, ProducerPc,
         ConsumerPc, Swapping, PutHolding, listVars, modeVars
<1>12. ASSUME NEW c \in Consumers, SwapCheck(c) PROVE ListType' /\ ListInv'
  BY <1>12
     DEF SwapCheck, Goto, PcType, MutexInv, ListType, ListInv, ProducerPc,
         ConsumerPc, Swapping, PutHolding, listVars, modeVars
<1>13. ASSUME NEW c \in Consumers, SwapWait(c) PROVE ListType' /\ ListInv'
  BY <1>13
     DEF SwapWait, CondWait, Goto, PcType, MutexInv, ListType, ListInv, ProducerPc,
         ConsumerPc, Swapping, PutHolding, listVars, modeVars
<1>14. ASSUME NEW c \in Consumers, Swap(c) PROVE ListType' /\ ListInv'
  BY <1>14, ListSwap
<1>15. ASSUME NEW c \in Consumers, GetNull(c) PROVE ListType' /\ ListInv'
  BY <1>15
     DEF GetNull, Goto, PcType, MutexInv, ListType, ListInv, ProducerPc,
         ConsumerPc, Swapping, PutHolding, listVars, modeVars
<1>16. ASSUME NEW c \in Consumers, SpuriousWake(c) PROVE ListType' /\ ListInv'
  BY <1>16
     DEF SpuriousWake, PutSleepers, GetSleepers, Goto, Awake, PcType, MutexInv,
         ListType, ListInv, ProducerPc, ConsumerPc, Swapping, PutHolding, listVars,
         modeVars
<1>17. ASSUME NEW k \in Controllers, SetNonblock(k) PROVE ListType' /\ ListInv'
  BY <1>17
     DEF SetNonblock, Goto, PcType, MutexInv, ListType, ListInv, ProducerPc,
         ConsumerPc, Swapping, PutHolding, listVars, modeVars
<1>18. ASSUME NEW k \in Controllers, SetNonblockWake(k) PROVE ListType' /\ ListInv'
  BY <1>18
     DEF SetNonblockWake, Signalled, GetSleepers, PutSleepers, Wake, Awake, PcType,
         MutexInv, ListType, ListInv, ProducerPc, ConsumerPc, Swapping, PutHolding,
         listVars, modeVars
<1>19. ASSUME NEW k \in Controllers, SetBlock(k) PROVE ListType' /\ ListInv'
  BY <1>19
     DEF SetBlock, PcType, MutexInv, ListType, ListInv, ProducerPc, ConsumerPc,
         Swapping, PutHolding, listVars, modeVars
<1>20. CASE UNCHANGED vars
  BY <1>20
     DEF vars, PcType, MutexInv, ListType, ListInv, ProducerPc, ConsumerPc,
         Swapping, PutHolding, listVars, modeVars
<1> QED
  BY <1>1, <1>2, <1>3, <1>4, <1>5, <1>6, <1>7, <1>8, <1>9, <1>10, <1>11,
     <1>12, <1>13, <1>14, <1>15, <1>16, <1>17, <1>18, <1>19, <1>20
     DEF Next, PutStep, GetStep

------------------------------------------------------------------------------
(* Sleepers.                                                               *)

\* A controller has written nonblock and has not sent its wake-ups yet.
Waking == \E k \in Controllers : pc[k] = "ctlLock"

\* Who has found a wait condition true, and has not given put_mutex up yet, is
\* right until it sleeps; who sleeps is right, or somebody is about to wake it.
SleepInv ==
    /\ \A c \in Consumers : pc[c] = "swapWait" => msgCnt = 0 /\ (~nonblock \/ Waking)
    /\ \A p \in Producers : pc[p] = "putWait" => msgCnt > Limit /\ (~nonblock \/ Waking)
    /\ \A c \in Consumers : pc[c] = "getAsleep" =>
          /\ msgCnt = 0 \/ \E p \in Producers : pc[p] = "putSignal"
          /\ ~nonblock \/ Waking
    /\ \A p \in Producers : pc[p] = "putAsleep" => msgCnt > Limit /\ (~nonblock \/ Waking)

\* msg_max - 1 does not wrap, as msgqueue_create is given at least 1.
LEMMA LimitValue == Limit = MsgMax - 1
  BY MsgQueueAssumption DEF Limit

\* Every step that makes a wait condition false is followed by a wake-up, and
\* no step falls between the test of the condition and the sleep.
LEMMA SleepNext ==
  ASSUME PcType, MutexInv, ListType, SleepInv, [Next]_vars
  PROVE  SleepInv'
<1> USE MsgQueueAssumption, LimitValue DEF Threads
<1>1. ASSUME NEW p \in Producers, PutCall(p) PROVE SleepInv'
  BY <1>1
     DEF PutCall, LockPut, Goto, PcType, MutexInv, ListType, SleepInv, Waking,
         ProducerPc, ConsumerPc, PutHolding, listVars, modeVars
<1>2. ASSUME NEW p \in Producers, PutLock(p) PROVE SleepInv'
  BY <1>2
     DEF PutLock, LockPut, Goto, PcType, MutexInv, ListType, SleepInv, Waking,
         ProducerPc, ConsumerPc, PutHolding, listVars, modeVars
<1>3. ASSUME NEW p \in Producers, PutCheck(p) PROVE SleepInv'
  BY <1>3
     DEF PutCheck, Goto, PcType, MutexInv, ListType, SleepInv, Waking, ProducerPc,
         ConsumerPc, PutHolding, listVars, modeVars
<1>4. ASSUME NEW p \in Producers, PutWait(p) PROVE SleepInv'
  BY <1>4
     DEF PutWait, CondWait, Goto, PcType, MutexInv, ListType, SleepInv, Waking,
         ProducerPc, ConsumerPc, PutHolding, listVars, modeVars
<1>5. ASSUME NEW p \in Producers, PutLink(p) PROVE SleepInv'
  <2>1. msgCnt' = msgCnt + 1 /\ nonblock' = nonblock
    BY <1>5 DEF PutLink, modeVars
  <2>2. pc'[p] = "putSignal" /\ \A t \in Threads : t # p => pc'[t] = pc[t]
    BY <1>5 DEF PutLink, Goto, PcType
  <2>3. \A t \in Threads : pc[t] \notin {"swapWait", "putWait"}
    <3>1. putMutex = {p} /\ pc[p] = "putLink" /\ p \in Threads
      BY <1>5 DEF PutLink, MutexInv, PutHolding, Threads
    <3>2. \A t \in Threads : pc[t] \in {"swapWait", "putWait"} => putMutex = {t}
      BY DEF MutexInv, PutHolding
    <3> QED
      BY <3>1, <3>2
  <2>4. Waking => Waking'
    BY <2>2 DEF Waking
  <2>5. \A t \in Threads : pc'[t] \notin {"swapWait", "putWait"}
    BY <2>2, <2>3
  <2>6. \E q \in Producers : pc'[q] = "putSignal"
    BY <2>2
  <2>7. msgCnt > Limit => msgCnt' > Limit
    BY <2>1 DEF ListType
  <2>8. \A t \in Threads : pc'[t] \in {"getAsleep", "putAsleep"} => pc[t] = pc'[t]
    BY <2>2
  <2>9. ~nonblock \/ Waking => ~nonblock' \/ Waking'
    BY <2>1, <2>4
  <2> HIDE DEF Limit, Waking
  <2> QED
    BY <2>5, <2>6, <2>7, <2>8, <2>9, Zenon DEF SleepInv
<1>6. ASSUME NEW p \in Producers, PutSignal(p) PROVE SleepInv'
  <2>1. UNCHANGED <<msgCnt, nonblock>>
    BY <1>6 DEF PutSignal, listVars, modeVars
  <2>2. \A c \in Consumers : pc'[c] # "getAsleep"
    BY <1>6
       DEF PutSignal, Signalled, GetSleepers, Wake, Awake, PcType, MutexInv,
           ProducerPc, ConsumerPc
  <2>3. \A t \in Threads : pc'[t] \in {"swapWait", "putWait", "putAsleep"} => pc'[t] = pc[t]
    BY <1>6 DEF PutSignal, Signalled, GetSleepers, Wake, Awake, PcType
  <2>4. Waking => Waking'
    BY <1>6 DEF PutSignal, Signalled, GetSleepers, Wake, Awake, PcType, Waking
  <2> QED
    BY <2>1, <2>2, <2>3, <2>4 DEF SleepInv
<1>7. ASSUME NEW p \in Producers, SpuriousWake(p) PROVE SleepInv'
  BY <1>7
     DEF SpuriousWake, PutSleepers, GetSleepers, Goto, Awake, PcType, MutexInv,
         ListType, SleepInv, Waking, ProducerPc, ConsumerPc, PutHolding, listVars,
         modeVars
<1>8. ASSUME NEW c \in Consumers, GetCall(c) PROVE SleepInv'
  BY <1>8
     DEF GetCall, Goto, PcType, MutexInv, ListType, SleepInv, Waking, ProducerPc,
         ConsumerPc, PutHolding, listVars, modeVars
<1>9. ASSUME NEW c \in Consumers, GetTake(c) PROVE SleepInv'
  BY <1>9
     DEF GetTake, Goto, PcType, MutexInv, ListType, SleepInv, Waking, ProducerPc,
         ConsumerPc, PutHolding, listVars, modeVars
<1>10. ASSUME NEW c \in Consumers, SwapBegin(c) PROVE SleepInv'
  BY <1>10
     DEF SwapBegin, Goto, PcType, MutexInv, ListType, SleepInv, Waking, ProducerPc,
         ConsumerPc, PutHolding, listVars, modeVars
<1>11. ASSUME NEW c \in Consumers, SwapLock(c) PROVE SleepInv'
  BY <1>11
     DEF SwapLock, LockPut, Goto, PcType, MutexInv, ListType, SleepInv, Waking,
         ProducerPc, ConsumerPc, PutHolding, listVars, modeVars
<1>12. ASSUME NEW c \in Consumers, SwapCheck(c) PROVE SleepInv'
  BY <1>12
     DEF SwapCheck, Goto, PcType, MutexInv, ListType, SleepInv, Waking, ProducerPc,
         ConsumerPc, PutHolding, listVars, modeVars
<1>13. ASSUME NEW c \in Consumers, SwapWait(c) PROVE SleepInv'
  BY <1>13
     DEF SwapWait, CondWait, Goto, PcType, MutexInv, ListType, SleepInv, Waking,
         ProducerPc, ConsumerPc, PutHolding, listVars, modeVars
<1>14. ASSUME NEW c \in Consumers, Swap(c) PROVE SleepInv'
  <2>1. msgCnt' = 0 /\ nonblock' = nonblock
    BY <1>14 DEF Swap, modeVars
  <2>2. \A t \in Threads : pc'[t] \in {"swapWait", "getAsleep", "putWait", "putAsleep"} =>
            pc'[t] = pc[t] /\ (msgCnt > Limit => t \notin PutSleepers)
    BY <1>14 DEF Swap, Wake, Awake
  <2>3. \A p \in Producers : pc'[p] # "putAsleep"
    <3>1. \A p \in Producers : pc[p] = "putAsleep" => msgCnt > Limit /\ p \in PutSleepers
      BY DEF SleepInv, PutSleepers
    <3> QED
      BY <2>2, <3>1 DEF Threads
  <2>4. \A p \in Producers : pc'[p] # "putWait"
    <3>1. putMutex = {c} /\ \A p \in Producers : pc[p] = "putWait" => putMutex = {p}
      BY <1>14 DEF Swap, MutexInv, PutHolding, Threads
    <3>2. c \notin Producers
      BY MsgQueueAssumption
    <3> QED
      BY <2>2, <3>1, <3>2 DEF Threads
  <2>5. Waking => Waking'
    <3>1. ASSUME NEW k \in Controllers, pc[k] = "ctlLock" PROVE pc'[k] = "ctlLock"
      <4>1. k # c /\ k \notin PutSleepers /\ k \in Threads
        BY MsgQueueAssumption DEF PutSleepers, Threads
      <4> QED
        BY <1>14, <3>1, <4>1 DEF Swap, Wake
    <3> QED
      BY <3>1 DEF Waking
  <2> HIDE DEF Waking, Limit
  <2> QED
    BY <2>1, <2>2, <2>3, <2>4, <2>5 DEF SleepInv, Threads
<1>15. ASSUME NEW c \in Consumers, GetNull(c) PROVE SleepInv'
  BY <1>15
     DEF GetNull, Goto, PcType, MutexInv, ListType, SleepInv, Waking, ProducerPc,
         ConsumerPc, PutHolding, listVars, modeVars
<1>16. ASSUME NEW c \in Consumers, SpuriousWake(c) PROVE SleepInv'
  BY <1>16
     DEF SpuriousWake, PutSleepers, GetSleepers, Goto, Awake, PcType, MutexInv,
         ListType, SleepInv, Waking, ProducerPc, ConsumerPc, PutHolding, listVars,
         modeVars
<1>17. ASSUME NEW k \in Controllers, SetNonblock(k) PROVE SleepInv'
  BY <1>17
     DEF SetNonblock, Goto, PcType, MutexInv, ListType, SleepInv, Waking,
         ProducerPc, ConsumerPc, PutHolding, listVars, modeVars
<1>18. ASSUME NEW k \in Controllers, SetNonblockWake(k) PROVE SleepInv'
  <2>1. \A t \in Threads : pc'[t] \notin {"getAsleep", "putAsleep"}
    BY <1>18
       DEF SetNonblockWake, Signalled, GetSleepers, PutSleepers, Wake, Awake,
           PcType, MutexInv,
                  ProducerPc, ConsumerPc
  <2>2. \A t \in Threads : pc[t] \notin {"swapWait", "putWait"}
    BY <1>18 DEF SetNonblockWake, MutexInv, PutHolding
  <2>3. \A t \in Threads : pc'[t] \notin {"swapWait", "putWait"}
    BY <1>18, <2>2
       DEF SetNonblockWake, Signalled, GetSleepers, PutSleepers, Wake, Awake,
           PcType
  <2> QED
    BY <2>1, <2>3 DEF SleepInv
<1>19. ASSUME NEW k \in Controllers, SetBlock(k) PROVE SleepInv'
  BY <1>19
     DEF SetBlock, PcType, MutexInv, ListType, SleepInv, Waking, ProducerPc,
         ConsumerPc, PutHolding, listVars, modeVars
<1>20. CASE UNCHANGED vars
  BY <1>20
     DEF vars, PcType, MutexInv, ListType, SleepInv, Waking, ProducerPc,
         ConsumerPc, PutHolding, listVars, modeVars
<1> QED
  BY <1>1, <1>2, <1>3, <1>4, <1>5, <1>6, <1>7, <1>8, <1>9, <1>10, <1>11,
     <1>12, <1>13, <1>14, <1>15, <1>16, <1>17, <1>18, <1>19, <1>20
     DEF Next, PutStep, GetStep

------------------------------------------------------------------------------
(* How long the lists get.                                                 *)

\* As long as the queue has never been nonblocking no list exceeds maxlen, and
\* a producer that has passed its test finds room when it links.
BoundInv ==
    /\ nonblock => wasNonblock
    /\ ~wasNonblock =>
          /\ \A h \in Heads : Len(list[h]) <= MsgMax
          /\ \A p \in Producers : pc[p] = "putLink" => msgCnt < MsgMax

\* Linking: the message fits, and nobody else is about to link.
LEMMA BoundPutLink ==
  ASSUME PcType, MutexInv, ListType, ListInv, BoundInv, NEW p \in Producers, PutLink(p)
  PROVE  BoundInv'
<1> DEFINE s == list[putHead]
<1>1. list' = [list EXCEPT ![putHead] = Append(s, linked + 1)]
  BY ListPutLink
<1>2. Len(Append(s, linked + 1)) = Len(s) + 1 /\ Len(s) \in Nat
  BY LinkLast, LenProperties DEF ListType
<1>3. Len(s) = msgCnt
  BY DEF ListInv
<1> HIDE DEF s
<1>4. \A h \in Heads : \/ h = putHead /\ list'[h] = Append(s, linked + 1)
                       \/ list'[h] = list[h]
  BY <1>1 DEF ListType
<1>5. ASSUME ~wasNonblock PROVE \A h \in Heads : Len(list'[h]) <= MsgMax
  <2>1. Len(Append(s, linked + 1)) <= MsgMax
    BY <1>2, <1>3, <1>5, MsgQueueAssumption DEF PutLink, BoundInv, ListType
  <2> QED
    BY <1>4, <1>5, <2>1 DEF BoundInv
<1>6. \A q \in Producers : pc'[q] # "putLink"
  BY MsgQueueAssumption DEF PutLink, Goto, PcType, MutexInv, PutHolding, Threads
<1> QED
  BY <1>5, <1>6 DEF PutLink, BoundInv, modeVars

\* Taking a message.
LEMMA BoundGetTake ==
  ASSUME PcType, MutexInv, ListType, ListInv, BoundInv, NEW c \in Consumers, GetTake(c)
  PROVE  BoundInv'
<1> DEFINE s == list[getHead]
<1>1. s # <<>> /\ s \in Seq(Nat)
  BY ListGetTake DEF ListType
<1>2. Len(Tail(s)) = Len(s) - 1 /\ Len(s) \in Nat \ {0}
  BY <1>1, UnlinkFirst
<1> HIDE DEF s
<1>3. \A h \in Heads : \/ list'[h] = Tail(s)
                       \/ list'[h] = list[h]
  BY DEF GetTake, ListType, s
<1>4. \A p \in Producers : pc'[p] = pc[p]
  BY MsgQueueAssumption DEF GetTake, Goto, PcType, Threads
<1>5. ~wasNonblock => Len(s) <= MsgMax
  BY DEF BoundInv, ListType, s
<1>6. ASSUME ~wasNonblock PROVE \A h \in Heads : Len(list'[h]) <= MsgMax
  <2>1. Len(Tail(s)) <= MsgMax
    BY <1>2, <1>5, <1>6, MsgQueueAssumption
  <2> QED
    BY <1>3, <1>6, <2>1 DEF BoundInv
<1> QED
  BY <1>4, <1>6 DEF GetTake, BoundInv, modeVars

\* Every step keeps the lists within maxlen.
LEMMA BoundNext ==
  ASSUME PcType, MutexInv, ListType, ListInv, BoundInv, [Next]_vars
  PROVE  BoundInv'
<1> USE MsgQueueAssumption, LimitValue DEF Threads
<1>1. ASSUME NEW p \in Producers, PutCall(p) PROVE BoundInv'
  BY <1>1
     DEF PutCall, LockPut, Goto, PcType, MutexInv, ListType, BoundInv, ProducerPc,
         ConsumerPc, PutHolding, listVars, modeVars
<1>2. ASSUME NEW p \in Producers, PutLock(p) PROVE BoundInv'
  BY <1>2
     DEF PutLock, LockPut, Goto, PcType, MutexInv, ListType, BoundInv, ProducerPc,
         ConsumerPc, PutHolding, listVars, modeVars
<1>3. ASSUME NEW p \in Producers, PutCheck(p) PROVE BoundInv'
  BY <1>3
     DEF PutCheck, Goto, PcType, MutexInv, ListType, BoundInv, ProducerPc,
         ConsumerPc, PutHolding, listVars, modeVars
<1>4. ASSUME NEW p \in Producers, PutWait(p) PROVE BoundInv'
  BY <1>4
     DEF PutWait, CondWait, Goto, PcType, MutexInv, ListType, BoundInv, ProducerPc,
         ConsumerPc, PutHolding, listVars, modeVars
<1>5. ASSUME NEW p \in Producers, PutLink(p) PROVE BoundInv'
  BY <1>5, BoundPutLink
<1>6. ASSUME NEW p \in Producers, PutSignal(p) PROVE BoundInv'
  BY <1>6
     DEF PutSignal, Signalled, GetSleepers, Wake, Awake, PcType, MutexInv,
         ListType, BoundInv, ProducerPc, ConsumerPc, PutHolding, listVars, modeVars
<1>7. ASSUME NEW p \in Producers, SpuriousWake(p) PROVE BoundInv'
  BY <1>7
     DEF SpuriousWake, PutSleepers, GetSleepers, Goto, Awake, PcType, MutexInv,
         ListType, BoundInv, ProducerPc, ConsumerPc, PutHolding, listVars, modeVars
<1>8. ASSUME NEW c \in Consumers, GetCall(c) PROVE BoundInv'
  BY <1>8
     DEF GetCall, Goto, PcType, MutexInv, ListType, BoundInv, ProducerPc,
         ConsumerPc, PutHolding, listVars, modeVars
<1>9. ASSUME NEW c \in Consumers, GetTake(c) PROVE BoundInv'
  BY <1>9, BoundGetTake
<1>10. ASSUME NEW c \in Consumers, SwapBegin(c) PROVE BoundInv'
  BY <1>10
     DEF SwapBegin, Goto, PcType, MutexInv, ListType, BoundInv, ProducerPc,
         ConsumerPc, PutHolding, listVars, modeVars
<1>11. ASSUME NEW c \in Consumers, SwapLock(c) PROVE BoundInv'
  BY <1>11
     DEF SwapLock, LockPut, Goto, PcType, MutexInv, ListType, BoundInv, ProducerPc,
         ConsumerPc, PutHolding, listVars, modeVars
<1>12. ASSUME NEW c \in Consumers, SwapCheck(c) PROVE BoundInv'
  BY <1>12
     DEF SwapCheck, Goto, PcType, MutexInv, ListType, BoundInv, ProducerPc,
         ConsumerPc, PutHolding, listVars, modeVars
<1>13. ASSUME NEW c \in Consumers, SwapWait(c) PROVE BoundInv'
  BY <1>13
     DEF SwapWait, CondWait, Goto, PcType, MutexInv, ListType, BoundInv,
         ProducerPc, ConsumerPc, PutHolding, listVars, modeVars
<1>14. ASSUME NEW c \in Consumers, Swap(c) PROVE BoundInv'
  BY <1>14
     DEF Swap, PutSleepers, Wake, Awake, PcType, MutexInv, ListType, BoundInv,
         ProducerPc, ConsumerPc, PutHolding, listVars, modeVars
<1>15. ASSUME NEW c \in Consumers, GetNull(c) PROVE BoundInv'
  BY <1>15
     DEF GetNull, Goto, PcType, MutexInv, ListType, BoundInv, ProducerPc,
         ConsumerPc, PutHolding, listVars, modeVars
<1>16. ASSUME NEW c \in Consumers, SpuriousWake(c) PROVE BoundInv'
  BY <1>16
     DEF SpuriousWake, PutSleepers, GetSleepers, Goto, Awake, PcType, MutexInv,
         ListType, BoundInv, ProducerPc, ConsumerPc, PutHolding, listVars, modeVars
<1>17. ASSUME NEW k \in Controllers, SetNonblock(k) PROVE BoundInv'
  BY <1>17
     DEF SetNonblock, Goto, PcType, MutexInv, ListType, BoundInv, ProducerPc,
         ConsumerPc, PutHolding, listVars, modeVars
<1>18. ASSUME NEW k \in Controllers, SetNonblockWake(k) PROVE BoundInv'
  BY <1>18
     DEF SetNonblockWake, Signalled, GetSleepers, PutSleepers, Wake, Awake, PcType,
         MutexInv, ListType, BoundInv, ProducerPc, ConsumerPc, PutHolding,
         listVars, modeVars
<1>19. ASSUME NEW k \in Controllers, SetBlock(k) PROVE BoundInv'
  BY <1>19
     DEF SetBlock, PcType, MutexInv, ListType, BoundInv, ProducerPc, ConsumerPc,
         PutHolding, listVars, modeVars
<1>20. CASE UNCHANGED vars
  BY <1>20
     DEF vars, PcType, MutexInv, ListType, BoundInv, ProducerPc, ConsumerPc,
         PutHolding, listVars, modeVars
<1> QED
  BY <1>1, <1>2, <1>3, <1>4, <1>5, <1>6, <1>7, <1>8, <1>9, <1>10, <1>11,
     <1>12, <1>13, <1>14, <1>15, <1>16, <1>17, <1>18, <1>19, <1>20
     DEF Next, PutStep, GetStep

------------------------------------------------------------------------------
(* How many messages there are.                                            *)

\* The producers that have a message to link.
Putting == {q \in Producers : pc[q] \notin {"idle", "putSignal"}}

\* How many messages are linked behind h.
InList(h) == Len(list[h])

\* The messages in the lists have been linked, and those linked and those about
\* to be are within the bound.
CountInv ==
    /\ InList(1) + InList(2) <= linked
    /\ linked + Cardinality(Putting) <= MaxMsgs

\* Sets of producers are finite.
LEMMA PuttingFinite == IsFiniteSet(Putting) /\ Cardinality(Putting) \in Nat
<1>1. IsFiniteSet(Putting)
  BY FS_Subset, MsgQueueAssumption DEF Putting
<1> QED
  BY <1>1, FS_CardinalityType

\* A producer that links leaves the set that is still to link.
LEMMA CountPutLink ==
  ASSUME PcType, MutexInv, ListType, ListInv, CountInv, NEW p \in Producers, PutLink(p)
  PROVE  CountInv' /\ linked < MaxMsgs
<1> DEFINE s == list[putHead]
<1>1. list' = [list EXCEPT ![putHead] = Append(s, linked + 1)]
  BY ListPutLink
<1>2. Len(Append(s, linked + 1)) = Len(s) + 1 /\ Len(s) \in Nat
  BY LinkLast, LenProperties DEF ListType
<1>3. Putting' = Putting \ {p} /\ p \in Putting
  BY MsgQueueAssumption DEF Putting, PutLink, Goto, PcType, Threads
<1>4. Cardinality(Putting') = Cardinality(Putting) - 1
  BY <1>3, PuttingFinite, FS_RemoveElement
<1>5. linked' = linked + 1
  BY DEF PutLink
<1>6. /\ InList(1) \in Nat /\ InList(2) \in Nat /\ linked \in Nat
      /\ Cardinality(Putting') \in Nat /\ Cardinality(Putting) \in Nat
  <2>1. Cardinality(Putting) \in Nat /\ Cardinality(Putting') \in Nat
    BY <1>3, PuttingFinite, FS_RemoveElement, FS_CardinalityType
  <2>2. list[1] \in Seq(Nat) /\ list[2] \in Seq(Nat)
    BY DEF ListType, Heads
  <2> QED
    BY <2>1, <2>2, LenProperties DEF ListType, InList
<1>7. InList(1)' + InList(2)' = InList(1) + InList(2) + 1
  <2>1. CASE putHead = 1
    <3>1. list'[1] = Append(s, linked + 1) /\ list'[2] = list[2]
      BY <1>1, <2>1 DEF ListType, Heads
    <3>2. InList(1)' = InList(1) + 1 /\ InList(2)' = InList(2)
      BY <1>2, <2>1, <3>1, Zenon DEF InList
    <3> QED
      BY <1>6, <3>2
  <2>2. CASE putHead = 2
    <3>1. list'[2] = Append(s, linked + 1) /\ list'[1] = list[1]
      BY <1>1, <2>2 DEF ListType, Heads
    <3>2. InList(2)' = InList(2) + 1 /\ InList(1)' = InList(1)
      BY <1>2, <2>2, <3>1, Zenon DEF InList
    <3> QED
      BY <1>6, <3>2
  <2> QED
    BY <2>1, <2>2 DEF ListType, Heads
<1> QED
  BY <1>4, <1>5, <1>6, <1>7, MsgQueueAssumption DEF CountInv

\* A consumer that takes leaves one message fewer.
LEMMA CountGetTake ==
  ASSUME PcType, MutexInv, ListType, ListInv, CountInv, NEW c \in Consumers, GetTake(c)
  PROVE  CountInv'
<1> DEFINE s == list[getHead]
<1>1. s # <<>> /\ s \in Seq(Nat)
  BY ListGetTake DEF ListType
<1>2. Len(Tail(s)) = Len(s) - 1 /\ Len(s) \in Nat \ {0}
  BY <1>1, UnlinkFirst
<1>3. Putting' = Putting /\ linked' = linked
  BY MsgQueueAssumption DEF Putting, GetTake, Goto, PcType, Threads
<1>4. InList(1) \in Nat /\ InList(2) \in Nat /\ linked \in Nat
  <2>1. list[1] \in Seq(Nat) /\ list[2] \in Seq(Nat)
    BY DEF ListType, Heads
  <2> QED
    BY <2>1, LenProperties DEF ListType, InList
<1>5. InList(1)' + InList(2)' = InList(1) + InList(2) - 1
  <2>1. CASE getHead = 1
    <3>1. list'[1] = Tail(s) /\ list'[2] = list[2]
      BY <2>1 DEF ListType, Heads, GetTake
    <3>2. InList(1)' = InList(1) - 1 /\ InList(2)' = InList(2)
      BY <1>2, <2>1, <3>1, Zenon DEF InList
    <3> QED
      BY <1>4, <3>2
  <2>2. CASE getHead = 2
    <3>1. list'[2] = Tail(s) /\ list'[1] = list[1]
      BY <2>2 DEF ListType, Heads, GetTake
    <3>2. InList(2)' = InList(2) - 1 /\ InList(1)' = InList(1)
      BY <1>2, <2>2, <3>1, Zenon DEF InList
    <3> QED
      BY <1>4, <3>2
  <2> QED
    BY <2>1, <2>2 DEF ListType, Heads
<1> QED
  BY <1>3, <1>4, <1>5 DEF CountInv

\* A step that neither links nor takes, and adds no producer to those that have
\* a message to link, keeps the count.
LEMMA CountKept ==
  ASSUME CountInv, ListType, Putting' = Putting, UNCHANGED <<list, linked>>
  PROVE  CountInv'
  BY DEF CountInv, InList

\* Every step keeps the number of messages within the bound.
LEMMA CountNext ==
  ASSUME PcType, MutexInv, ListType, ListInv, CountInv, [Next]_vars
  PROVE  CountInv'
<1> USE MsgQueueAssumption DEF Threads
<1>1. ASSUME NEW p \in Producers, PutCall(p) PROVE CountInv'
  <2>1. Putting' = Putting \cup {p} /\ p \notin Putting
    BY <1>1 DEF PutCall, LockPut, Goto, PcType, Putting
  <2>2. Cardinality(Putting') = Cardinality(Putting) + 1
    BY <2>1, PuttingFinite, FS_AddElement
  <2>3. linked + Cardinality(Putting) < MaxMsgs /\ UNCHANGED <<list, linked>>
    BY <1>1 DEF PutCall, MayPut, LockPut, listVars, Putting
  <2>4. InList(1)' = InList(1) /\ InList(2)' = InList(2)
    BY <2>3 DEF InList
  <2> QED
    BY <2>2, <2>3, <2>4, PuttingFinite DEF CountInv, ListType
<1>2. ASSUME NEW p \in Producers, PutLock(p) PROVE CountInv'
  <2>1. Putting' = Putting /\ UNCHANGED <<list, linked>>
    BY <1>2 DEF PutLock, LockPut, Goto, Putting, PcType, ProducerPc, listVars
  <2> QED
    BY <2>1, CountKept
<1>3. ASSUME NEW p \in Producers, PutCheck(p) PROVE CountInv'
  <2>1. Putting' = Putting /\ UNCHANGED <<list, linked>>
    BY <1>3 DEF PutCheck, Goto, Putting, PcType, ProducerPc, listVars
  <2> QED
    BY <2>1, CountKept
<1>4. ASSUME NEW p \in Producers, PutWait(p) PROVE CountInv'
  <2>1. Putting' = Putting /\ UNCHANGED <<list, linked>>
    BY <1>4 DEF PutWait, CondWait, Goto, Putting, PcType, ProducerPc, listVars
  <2> QED
    BY <2>1, CountKept
<1>5. ASSUME NEW p \in Producers, PutLink(p) PROVE CountInv'
  BY <1>5, CountPutLink
<1>6. ASSUME NEW p \in Producers, PutSignal(p) PROVE CountInv'
  <2>1. Putting' = Putting /\ UNCHANGED <<list, linked>>
    BY <1>6
       DEF PutSignal, Signalled, GetSleepers, Wake, Awake, Putting, PcType,
           ProducerPc, listVars
  <2> QED
    BY <2>1, CountKept
<1>7. ASSUME NEW p \in Producers, SpuriousWake(p) PROVE CountInv'
  <2>1. Putting' = Putting /\ UNCHANGED <<list, linked>>
    BY <1>7
       DEF SpuriousWake, PutSleepers, GetSleepers, Goto, Awake, Putting, PcType,
           ProducerPc, listVars
  <2> QED
    BY <2>1, CountKept
<1>8. ASSUME NEW c \in Consumers, GetCall(c) PROVE CountInv'
  <2>1. Putting' = Putting /\ UNCHANGED <<list, linked>>
    BY <1>8 DEF GetCall, Goto, Putting, PcType, ProducerPc, listVars
  <2> QED
    BY <2>1, CountKept
<1>9. ASSUME NEW c \in Consumers, GetTake(c) PROVE CountInv'
  BY <1>9, CountGetTake
<1>10. ASSUME NEW c \in Consumers, SwapBegin(c) PROVE CountInv'
  <2>1. Putting' = Putting /\ UNCHANGED <<list, linked>>
    BY <1>10 DEF SwapBegin, Goto, Putting, PcType, ProducerPc, listVars
  <2> QED
    BY <2>1, CountKept
<1>11. ASSUME NEW c \in Consumers, SwapLock(c) PROVE CountInv'
  <2>1. Putting' = Putting /\ UNCHANGED <<list, linked>>
    BY <1>11 DEF SwapLock, LockPut, Goto, Putting, PcType, ProducerPc, listVars
  <2> QED
    BY <2>1, CountKept
<1>12. ASSUME NEW c \in Consumers, SwapCheck(c) PROVE CountInv'
  <2>1. Putting' = Putting /\ UNCHANGED <<list, linked>>
    BY <1>12 DEF SwapCheck, Goto, Putting, PcType, ProducerPc, listVars
  <2> QED
    BY <2>1, CountKept
<1>13. ASSUME NEW c \in Consumers, SwapWait(c) PROVE CountInv'
  <2>1. Putting' = Putting /\ UNCHANGED <<list, linked>>
    BY <1>13 DEF SwapWait, CondWait, Goto, Putting, PcType, ProducerPc, listVars
  <2> QED
    BY <2>1, CountKept
<1>14. ASSUME NEW c \in Consumers, Swap(c) PROVE CountInv'
  <2>1. Putting' = Putting /\ UNCHANGED <<list, linked>>
    BY <1>14 DEF Swap, PutSleepers, Wake, Awake, Putting, PcType, ProducerPc, listVars
  <2> QED
    BY <2>1, CountKept
<1>15. ASSUME NEW c \in Consumers, GetNull(c) PROVE CountInv'
  <2>1. Putting' = Putting /\ UNCHANGED <<list, linked>>
    BY <1>15 DEF GetNull, Goto, Putting, PcType, ProducerPc, listVars
  <2> QED
    BY <2>1, CountKept
<1>16. ASSUME NEW c \in Consumers, SpuriousWake(c) PROVE CountInv'
  <2>1. Putting' = Putting /\ UNCHANGED <<list, linked>>
    BY <1>16
       DEF SpuriousWake, PutSleepers, GetSleepers, Goto, Awake, Putting, PcType,
           ProducerPc, listVars
  <2> QED
    BY <2>1, CountKept
<1>17. ASSUME NEW k \in Controllers, SetNonblock(k) PROVE CountInv'
  <2>1. Putting' = Putting /\ UNCHANGED <<list, linked>>
    BY <1>17 DEF SetNonblock, Goto, Putting, PcType, ProducerPc, listVars
  <2> QED
    BY <2>1, CountKept
<1>18. ASSUME NEW k \in Controllers, SetNonblockWake(k) PROVE CountInv'
  <2>1. Putting' = Putting /\ UNCHANGED <<list, linked>>
    BY <1>18
       DEF SetNonblockWake, Signalled, GetSleepers, PutSleepers, Wake, Awake,
           Putting, PcType, ProducerPc, listVars
  <2> QED
    BY <2>1, CountKept
<1>19. ASSUME NEW k \in Controllers, SetBlock(k) PROVE CountInv'
  <2>1. Putting' = Putting /\ UNCHANGED <<list, linked>>
    BY <1>19 DEF SetBlock, Putting, PcType, ProducerPc, listVars
  <2> QED
    BY <2>1, CountKept
<1>20. CASE UNCHANGED vars
  BY <1>20 DEF vars, Putting, CountInv, InList, listVars
<1> QED
  BY <1>1, <1>2, <1>3, <1>4, <1>5, <1>6, <1>7, <1>8, <1>9, <1>10, <1>11,
     <1>12, <1>13, <1>14, <1>15, <1>16, <1>17, <1>18, <1>19, <1>20
     DEF Next, PutStep, GetStep

------------------------------------------------------------------------------
(* The queue as a first-in first-out queue.                                *)

\* What is pending is a sequence of messages no longer than the two lists.
LEMMA PendingType ==
  ASSUME ListType
  PROVE  /\ Pending \in Seq(Nat) /\ Len(Pending) \in Nat
         /\ Len(Pending) = IF getHead = putHead THEN InList(getHead)
                           ELSE InList(getHead) + InList(putHead)
         /\ InList(1) \in Nat /\ InList(2) \in Nat
<1>1. list[getHead] \in Seq(Nat) /\ list[putHead] \in Seq(Nat)
  BY DEF ListType
<1>2. Len(list[getHead]) \in Nat /\ Len(list[putHead]) \in Nat
  BY <1>1, LenProperties
<1>3. InList(1) \in Nat /\ InList(2) \in Nat
  <2>1. list[1] \in Seq(Nat) /\ list[2] \in Seq(Nat)
    BY DEF ListType, Heads
  <2> QED
    BY <2>1, LenProperties DEF InList
<1>4. /\ list[getHead] \o list[putHead] \in Seq(Nat)
      /\ Len(list[getHead] \o list[putHead]) = InList(getHead) + InList(putHead)
  BY <1>1, ConcatProperties DEF InList
<1>5. CASE getHead = putHead
  BY <1>1, <1>2, <1>5, <1>3, Zenon DEF Pending, InList
<1>6. CASE getHead # putHead
  <2>1. Pending = list[getHead] \o list[putHead]
    BY <1>6 DEF Pending
  <2>2. Len(Pending) = InList(getHead) + InList(putHead) /\ Pending \in Seq(Nat)
    BY <1>4, <2>1
  <2>3. Len(Pending) \in Nat
    BY <2>2, LenProperties
  <2> QED
    BY <1>3, <1>6, <2>2, <2>3, Zenon
<1> QED
  BY <1>5, <1>6

\* msgqueue_put appends the message to what is pending, also while the two
\* heads are the same list.
LEMMA PutLinkPending ==
  ASSUME PcType, MutexInv, ListType, ListInv, NEW p \in Producers, PutLink(p)
  PROVE  Pending' = Pending \o <<linked + 1>>
<1> DEFINE g == list[getHead]
           s == list[putHead]
           m == linked + 1
<1>1. list' = [list EXCEPT ![putHead] = Append(s, m)] /\ UNCHANGED <<getHead, putHead>>
  BY ListPutLink DEF PutLink
<1>2. g \in Seq(Nat) /\ s \in Seq(Nat) /\ m \in Nat
  BY DEF ListType
<1>3. Append(s, m) = s \o <<m>> /\ g \o Append(s, m) = (g \o s) \o <<m>>
  BY <1>2, AppendIsConcat, LinkBehindBoth
<1>4. CASE getHead = putHead
  <2>1. Pending = s /\ Pending' = list'[putHead]
    BY <1>1, <1>4 DEF Pending
  <2>2. list'[putHead] = Append(s, m)
    BY <1>1 DEF ListType
  <2> QED
    BY <1>3, <2>1, <2>2
<1>5. CASE getHead # putHead
  <2>1. Pending = g \o s /\ Pending' = list'[getHead] \o list'[putHead]
    BY <1>1, <1>5 DEF Pending
  <2>2. list'[getHead] = g /\ list'[putHead] = Append(s, m)
    BY <1>1, <1>5 DEF ListType
  <2> QED
    BY <1>3, <2>1, <2>2
<1> QED
  BY <1>4, <1>5

\* msgqueue_get removes the first pending message, and there is one.
LEMMA GetTakePending ==
  ASSUME PcType, MutexInv, ListType, ListInv, NEW c \in Consumers, GetTake(c)
  PROVE  Pending' = SubSeq(Pending, 2, Len(Pending)) /\ Len(Pending) >= 1
<1> DEFINE g == list[getHead]
           s == list[putHead]
<1>1. getHead # putHead /\ g # <<>> /\ UNCHANGED <<getHead, putHead>>
  BY ListGetTake DEF GetTake
<1>2. g \in Seq(Nat) /\ s \in Seq(Nat)
  BY DEF ListType
<1>3. list'[getHead] = Tail(g) /\ list'[putHead] = s
  BY <1>1 DEF GetTake, ListType
<1>4. Pending = g \o s /\ Pending' = Tail(g) \o s
  BY <1>1, <1>3 DEF Pending
<1> QED
  BY <1>1, <1>2, <1>4, UnlinkOfBoth, Zenon

\* Either half of a swap leaves what is pending as it is.
LEMMA SwapPending ==
  ASSUME PcType, MutexInv, ListType, ListInv,
         NEW c \in Consumers, SwapBegin(c) \/ Swap(c)
  PROVE  Pending' = Pending
<1>1. CASE SwapBegin(c)
  <2>1. /\ getHead # putHead /\ list[getHead] = <<>> /\ list' = list
        /\ getHead' = putHead /\ putHead' = putHead
    BY <1>1, ListSwapBegin DEF SwapBegin
  <2>2. <<>> \o list[putHead] = list[putHead]
    BY ConcatEmptySeq DEF ListType
  <2> QED
    BY <2>1, <2>2 DEF Pending
<1>2. CASE Swap(c)
  <2>1. /\ getHead = putHead /\ putHead' # getHead /\ list[putHead'] = <<>> /\ list' = list
        /\ getHead' = getHead
    BY <1>2, ListSwap DEF Swap
  <2>2. list[getHead] \o <<>> = list[getHead]
    BY ConcatEmptySeq DEF ListType
  <2> QED
    BY <2>1, <2>2 DEF Pending
<1> QED
  BY <1>1, <1>2

\* Every step of the queue is a step of the first-in first-out queue, or leaves
\* it as it is.
LEMMA FifoNext ==
  ASSUME PcType, MutexInv, ListType, ListInv, CountInv, [Next]_vars
  PROVE  [Fifo!Next]_<<Pending, linked>>
<1>1. ASSUME NEW p \in Producers, PutCall(p) PROVE [Fifo!Next]_<<Pending, linked>>
  BY <1>1 DEF PutCall, LockPut, listVars, Pending
<1>2. ASSUME NEW p \in Producers, PutLock(p) PROVE [Fifo!Next]_<<Pending, linked>>
  BY <1>2 DEF PutLock, LockPut, listVars, Pending
<1>3. ASSUME NEW p \in Producers, PutCheck(p) PROVE [Fifo!Next]_<<Pending, linked>>
  BY <1>3 DEF PutCheck, listVars, Pending
<1>4. ASSUME NEW p \in Producers, PutWait(p) PROVE [Fifo!Next]_<<Pending, linked>>
  BY <1>4 DEF PutWait, CondWait, listVars, Pending
<1>5. ASSUME NEW p \in Producers, PutLink(p) PROVE [Fifo!Next]_<<Pending, linked>>
  <2>1. Pending' = Pending \o <<linked + 1>> /\ linked' = linked + 1
    BY <1>5, PutLinkPending DEF PutLink
  <2>2. linked < MaxMsgs /\ Len(Pending) <= linked
    BY <1>5, CountPutLink, PendingType DEF CountInv, ListType, Heads
  <2>3. <<linked + 1>> = [i \in 1 .. 1 |-> linked + i]
    OBVIOUS
  <2>4. Len(Pending) + 1 <= MaxMsgs
    BY <2>2, PendingType, MsgQueueAssumption DEF ListType
  <2>5. Fifo!Put(1)
    BY <2>1, <2>3, <2>4, Zenon DEF Fifo!Put
  <2>6. 1 \in 1 .. MaxMsgs
    BY <2>2, MsgQueueAssumption DEF ListType
  <2> QED
    BY <2>5, <2>6 DEF Fifo!Next
<1>6. ASSUME NEW p \in Producers, PutSignal(p) PROVE [Fifo!Next]_<<Pending, linked>>
  BY <1>6 DEF PutSignal, listVars, Pending
<1>7. ASSUME NEW p \in Producers, SpuriousWake(p) PROVE [Fifo!Next]_<<Pending, linked>>
  BY <1>7 DEF SpuriousWake, listVars, Pending
<1>8. ASSUME NEW c \in Consumers, GetCall(c) PROVE [Fifo!Next]_<<Pending, linked>>
  BY <1>8 DEF GetCall, listVars, Pending
<1>9. ASSUME NEW c \in Consumers, GetTake(c) PROVE [Fifo!Next]_<<Pending, linked>>
  <2>1. Pending' = SubSeq(Pending, 2, Len(Pending)) /\ Len(Pending) >= 1 /\ linked' = linked
    BY <1>9, GetTakePending DEF GetTake
  <2>2. Fifo!Take(1)
    BY <2>1 DEF Fifo!Take
  <2>3. 1 \in 1 .. Len(Pending)
    BY <2>1, PendingType
  <2> QED
    BY <2>2, <2>3 DEF Fifo!Next
<1>10. ASSUME NEW c \in Consumers, SwapBegin(c) PROVE [Fifo!Next]_<<Pending, linked>>
  BY <1>10, SwapPending DEF SwapBegin
<1>11. ASSUME NEW c \in Consumers, SwapLock(c) PROVE [Fifo!Next]_<<Pending, linked>>
  BY <1>11 DEF SwapLock, LockPut, listVars, Pending
<1>12. ASSUME NEW c \in Consumers, SwapCheck(c) PROVE [Fifo!Next]_<<Pending, linked>>
  BY <1>12 DEF SwapCheck, listVars, Pending
<1>13. ASSUME NEW c \in Consumers, SwapWait(c) PROVE [Fifo!Next]_<<Pending, linked>>
  BY <1>13 DEF SwapWait, CondWait, listVars, Pending
<1>14. ASSUME NEW c \in Consumers, Swap(c) PROVE [Fifo!Next]_<<Pending, linked>>
  BY <1>14, SwapPending DEF Swap
<1>15. ASSUME NEW c \in Consumers, GetNull(c) PROVE [Fifo!Next]_<<Pending, linked>>
  BY <1>15 DEF GetNull, listVars, Pending
<1>16. ASSUME NEW c \in Consumers, SpuriousWake(c) PROVE [Fifo!Next]_<<Pending, linked>>
  BY <1>16 DEF SpuriousWake, listVars, Pending
<1>17. ASSUME NEW k \in Controllers, SetNonblock(k) PROVE [Fifo!Next]_<<Pending, linked>>
  BY <1>17 DEF SetNonblock, listVars, Pending
<1>18. ASSUME NEW k \in Controllers, SetNonblockWake(k) PROVE [Fifo!Next]_<<Pending, linked>>
  BY <1>18 DEF SetNonblockWake, listVars, Pending
<1>19. ASSUME NEW k \in Controllers, SetBlock(k) PROVE [Fifo!Next]_<<Pending, linked>>
  BY <1>19 DEF SetBlock, listVars, Pending
<1>20. CASE UNCHANGED vars
  BY <1>20 DEF vars, listVars, Pending
<1> QED
  BY <1>1, <1>2, <1>3, <1>4, <1>5, <1>6, <1>7, <1>8, <1>9, <1>10, <1>11,
     <1>12, <1>13, <1>14, <1>15, <1>16, <1>17, <1>18, <1>19, <1>20
     DEF Next, PutStep, GetStep

------------------------------------------------------------------------------
(* The theorems.                                                           *)

\* All of it together.
IInv == PcType /\ MutexInv /\ ListType /\ ListInv /\ SleepInv /\ BoundInv /\ CountInv

\* A queue just created satisfies the invariant.
LEMMA InvInit == Init => IInv
<1> SUFFICES ASSUME Init PROVE IInv
  OBVIOUS
<1>1. PcType /\ MutexInv /\ ListType /\ ListInv
  BY PcInit, ListInit
<1>2. \A t \in Threads : pc[t] = "idle"
  BY DEF Init
<1>3. SleepInv
  BY <1>2 DEF SleepInv, Threads
<1>4. \A h \in Heads : Len(list[h]) = 0
  BY EmptySeq DEF Init
<1>5. BoundInv
  BY <1>2, <1>4, MsgQueueAssumption DEF BoundInv, Threads, Init
<1>6. Putting = {}
  BY <1>2 DEF Putting, Threads
<1>7. CountInv
  BY <1>4, <1>6, FS_EmptySet, MsgQueueAssumption DEF CountInv, Init, Heads, InList
<1> QED
  BY <1>1, <1>3, <1>5, <1>7 DEF IInv

\* Every step keeps it.
LEMMA InvNext == IInv /\ [Next]_vars => IInv'
  BY PcNext, ListNext, SleepNext, BoundNext, CountNext DEF IInv

\* So it holds in every state the queue can be in.
LEMMA Invariance == Spec => []IInv
  BY InvInit, InvNext, PTL DEF Spec

\* In every state msg_cnt and the heads have their types, put_tail is the end
\* of the put list and msg_cnt its length, a consumer that has swapped finds a
\* message, and at most two times maxlen messages are pending in a queue that
\* has only been blocking: the bound msgqueue.h states.
THEOREM ListsAreConsistent == Spec => []ListsConsistent
<1>1. ASSUME IInv PROVE ListsConsistent
  <2>1. TypeOK
    BY <1>1 DEF IInv, PcType, ListType, TypeOK
  <2>2. ~wasNonblock => Len(Pending) <= 2 * MsgMax
    <3>1. getHead \in {1, 2} /\ putHead \in {1, 2}
      BY <1>1 DEF IInv, ListType, Heads
    <3>2. ~wasNonblock => InList(1) <= MsgMax /\ InList(2) <= MsgMax
      BY <1>1 DEF IInv, BoundInv, InList, Heads
    <3> QED
      BY <1>1, <3>1, <3>2, PendingType, MsgQueueAssumption DEF IInv
  <2> QED
    BY <1>1, <2>1, <2>2 DEF IInv, ListInv, ListsConsistent
<1> QED
  BY <1>1, Invariance, PTL

\* No producer and no consumer sleeps on a condition that holds, unless the
\* thread that made it so has its signal still to send.
THEOREM SleepersAreWoken == Spec => []NoStrandedSleeper
<1>1. ASSUME IInv PROVE NoStrandedSleeper
  BY <1>1 DEF IInv, SleepInv, NoStrandedSleeper, Waking, GetSleepers, PutSleepers
<1> QED
  BY <1>1, Invariance, PTL

\* The two lists and their swaps implement one first-in first-out queue:
\* messages leave in the order they were linked, each once.
THEOREM QueueIsFifo == Spec => ImplementsFifo
<1>1. Init => Fifo!Init
  <2> SUFFICES ASSUME Init PROVE Fifo!Init
    OBVIOUS
  <2>1. list[getHead] = <<>> /\ list[putHead] = <<>> /\ getHead # putHead
    BY DEF Init, Heads
  <2>2. <<>> \o <<>> = <<>>
    BY ConcatEmptySeq, EmptySeq
  <2> QED
    BY <2>1, <2>2 DEF Init, Fifo!Init, Pending
<1>2. IInv /\ [Next]_vars => [Fifo!Next]_<<Pending, linked>>
  BY FifoNext DEF IInv
<1> QED
  BY <1>1, <1>2, Invariance, PTL DEF Spec, ImplementsFifo, Fifo!Spec
=============================================================================
