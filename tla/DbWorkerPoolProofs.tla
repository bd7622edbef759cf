------------------------- MODULE DbWorkerPoolProofs --------------------------
(***************************************************************************)
(* Theorems about DbWorkerPool, for any number of connections and of       *)
(* operations, and about the other parts that keep connections: the        *)
(* loader, the synchronous connections and mysqlconnpool, which are in     *)
(* Connections.                                                            *)
(***************************************************************************)
EXTENDS DbWorkerPool, Connections, Division, FiniteSetTheorems, SequenceTheorems, TLAPS

------------------------------------------------------------------------------
(* Sequences and what is in them.                                          *)

In(s) == {s[i] : i \in 1..Len(s)}

Distinct(s) == \A i, j \in 1..Len(s) : s[i] = s[j] => i = j

\* Nothing is in the empty sequence, one thing in a sequence of one.
LEMMA InSmall ==
  /\ In(<<>>) = {} /\ Distinct(<<>>)
  /\ \A x : In(<<x>>) = {x} /\ Distinct(<<x>>)
  BY EmptySeq DEF In, Distinct

\* What is in a sequence is of its elements' type.
LEMMA InType ==
  ASSUME NEW S, NEW s \in Seq(S)
  PROVE  In(s) \subseteq S
  BY ElementOfSeq DEF In

\* Appending adds one element; the elements stay distinct if it is new.
LEMMA InAppend ==
  ASSUME NEW S, NEW s \in Seq(S), NEW x \in S
  PROVE  /\ In(Append(s, x)) = In(s) \cup {x}
         /\ Append(s, x) \in Seq(S)
         /\ Distinct(s) /\ x \notin In(s) => Distinct(Append(s, x))
<1> DEFINE t == Append(s, x)
           n == Len(s)
<1>1. /\ t \in Seq(S) /\ Len(t) = n + 1 /\ n \in Nat
      /\ \A i \in 1..n : t[i] = s[i]
      /\ t[n + 1] = x
  BY AppendProperties, LenProperties
<1> HIDE DEF t, n
<1>2. 1..(n + 1) = 1..n \cup {n + 1}
  BY <1>1
<1>3. In(s) = {s[i] : i \in 1..n} /\ In(t) = {t[i] : i \in 1..(n + 1)}
  BY <1>1 DEF In, n
<1>4. In(t) = In(s) \cup {x}
  BY <1>1, <1>2, <1>3
<1>5. ASSUME Distinct(s), x \notin In(s) PROVE Distinct(t)
  <2> SUFFICES ASSUME NEW i \in 1..(n + 1), NEW j \in 1..(n + 1), t[i] = t[j]
               PROVE  i = j
    BY <1>1 DEF Distinct
  <2>1. CASE i \in 1..n /\ j \in 1..n
    BY <1>1, <1>5, <2>1 DEF Distinct, n
  <2>2. CASE i = n + 1 \/ j = n + 1
    BY <1>1, <1>2, <1>3, <1>5, <2>2
  <2> QED
    BY <1>2, <2>1, <2>2
<1> QED
  BY <1>1, <1>4, <1>5 DEF t

\* Removing the first element.
LEMMA InTail ==
  ASSUME NEW S, NEW s \in Seq(S), s # <<>>
  PROVE  /\ Head(s) \in In(s) /\ Head(s) \in S
         /\ Tail(s) \in Seq(S)
         /\ In(s) = In(Tail(s)) \cup {Head(s)}
         /\ Distinct(s) => Distinct(Tail(s)) /\ Head(s) \notin In(Tail(s))
<1> DEFINE t == Tail(s)
           n == Len(s)
<1>1. /\ n \in Nat \ {0} /\ t \in Seq(S) /\ Len(t) = n - 1
      /\ \A i \in 1..(n - 1) : t[i] = s[i + 1]
      /\ Head(s) = s[1] /\ Head(s) \in S
  BY HeadTailProperties, EmptySeq
<1> HIDE DEF t, n
<1>2. In(s) = {s[i] : i \in 1..n} /\ In(t) = {t[i] : i \in 1..(n - 1)}
  BY <1>1 DEF In, n
<1>3. Head(s) \in In(s)
  BY <1>1, <1>2
<1>4. \A i \in 1..(n - 1) : i + 1 \in 1..n
  BY <1>1
<1>5. In(t) \subseteq In(s)
  BY <1>1, <1>2, <1>4
<1>6. \A i \in 1..n : i # 1 => i - 1 \in 1..(n - 1) /\ (i - 1) + 1 = i
  BY <1>1
<1>7. \A i \in 1..n : i # 1 => s[i] = t[i - 1]
  BY <1>1, <1>6
<1>8. In(s) \subseteq In(t) \cup {Head(s)}
  <2> SUFFICES ASSUME NEW i \in 1..n PROVE s[i] \in In(t) \cup {Head(s)}
    BY <1>2
  <2>1. CASE i = 1
    BY <1>1, <2>1
  <2>2. CASE i # 1
    BY <1>2, <1>6, <1>7, <2>2
  <2> QED
    BY <2>1, <2>2
<1>9. ASSUME Distinct(s) PROVE Distinct(t) /\ Head(s) \notin In(t)
  <2>1. Distinct(t)
    <3> SUFFICES ASSUME NEW i \in 1..(n - 1), NEW j \in 1..(n - 1), t[i] = t[j]
                 PROVE  i = j
      BY <1>1 DEF Distinct
    <3>1. s[i + 1] = s[j + 1] /\ i + 1 \in 1..n /\ j + 1 \in 1..n
      BY <1>1, <1>4
    <3>2. i + 1 = j + 1
      BY <1>9, <3>1 DEF Distinct, n
    <3> QED
      BY <1>1, <3>2
  <2>2. Head(s) \notin In(t)
    <3> SUFFICES ASSUME NEW i \in 1..(n - 1), t[i] = s[1] PROVE FALSE
      BY <1>1, <1>2
    <3>1. s[i + 1] = s[1] /\ i + 1 \in 1..n /\ 1 \in 1..n
      BY <1>1, <1>4
    <3>2. i + 1 = 1
      BY <1>9, <3>1 DEF Distinct, n
    <3> QED
      BY <1>1, <3>2
  <2> QED
    BY <2>1, <2>2
<1> QED
  BY <1>1, <1>3, <1>5, <1>8, <1>9 DEF t

\* A sequence without repetitions has as many elements as it is long.
LEMMA InCardinality ==
  ASSUME NEW S, NEW s \in Seq(S), Distinct(s)
  PROVE  IsFiniteSet(In(s)) /\ Cardinality(In(s)) = Len(s)
<1>1. Len(s) \in Nat /\ s \in [1..Len(s) -> In(s)]
  <2>1. Len(s) \in Nat /\ DOMAIN s = 1..Len(s) /\ s \in [1..Len(s) -> S]
    BY LenProperties
  <2>2. \A i \in 1..Len(s) : s[i] \in In(s)
    BY DEF In
  <2> QED
    BY <2>1, <2>2
<1>2. s \in Injection(1..Len(s), In(s))
  BY <1>1 DEF Injection, IsInjective, Distinct
<1>3. s \in Surjection(1..Len(s), In(s))
  BY <1>1 DEF Surjection, In
<1>4. ExistsBijection(1..Len(s), In(s))
  BY <1>2, <1>3 DEF ExistsBijection, Bijection
<1> QED
  BY <1>1, <1>4, FS_CountingElements, FS_NatBijection

------------------------------------------------------------------------------
(* Types.  A thread has an operation exactly while it looks at its token   *)
(* or executes it.                                                         *)

Holding == {"check", "run"}

HeldInv == \A w \in Conns : worker[w] \in Holding <=> op[w] # 0

\* While the pool is being opened connections are created one after the other,
\* and the threads of those to come do not exist yet.
FreshInv ==
    phase = "opening" =>
        /\ creating \in {0, Len(pooled) + 1}
        /\ \A w \in Conns : w > Len(pooled) /\ w # creating => worker[w] = "none"

\* A pool just constructed has the types.
LEMMA TypeInit == Init => TypeOK /\ HeldInv /\ FreshInv
<1>1. <<>> \in Seq(1..MaxOps) /\ <<>> \in Seq(Conns)
  BY EmptySeq
<1>2. 0 \in 0..MaxOps /\ 0 \in 0..AsyncThreads
  BY DbWorkerPoolAssumption
<1> QED
  BY <1>1, <1>2 DEF Init, QueueInit, TypeOK, HeldInv, Holding, FreshInv

\* What is queued is an operation.
LEMMA QueuedType ==
  ASSUME TypeOK
  PROVE  Queued = In(_queue) /\ Queued \subseteq 1..MaxOps
<1>1. Queued = In(_queue)
  BY DEF Queued, In
<1>2. _queue \in Seq(1..MaxOps)
  BY DEF TypeOK
<1> QED
  BY <1>1, <1>2, InType

\* Every step keeps them.
LEMMA TypeNext ==
  ASSUME TypeOK, HeldInv, FreshInv, [Next]_vars
  PROVE  TypeOK' /\ HeldInv'
<1> USE DbWorkerPoolAssumption
<1>1. ASSUME NEW w \in Conns, WorkerPop(w) PROVE TypeOK' /\ HeldInv'
  BY <1>1
     DEF WorkerPop, PopValue, TypeOK, HeldInv, Holding, queueVars, workerVars,
         ownerVars, opVars
<1>2. ASSUME NEW w \in Conns, WorkerWait(w) PROVE TypeOK' /\ HeldInv'
  BY <1>2
     DEF WorkerWait, Wait, TypeOK, HeldInv, Holding, queueVars, workerVars,
         ownerVars, opVars
<1>3. ASSUME NEW w \in Conns, WorkerWake(w) PROVE TypeOK' /\ HeldInv'
  BY <1>3
     DEF WorkerWake, SpuriousWake, TypeOK, HeldInv, Holding, queueVars, workerVars,
         ownerVars, opVars
<1>4. ASSUME NEW w \in Conns, WorkerExit(w) PROVE TypeOK' /\ HeldInv'
  BY <1>4
     DEF WorkerExit, PopNothing, TypeOK, HeldInv, Holding, queueVars, workerVars,
         ownerVars, opVars
<1>5. ASSUME NEW w \in Conns, WorkerCheck(w) PROVE TypeOK' /\ HeldInv'
  <2>1. op[w] \in 1..MaxOps
    BY <1>5 DEF WorkerCheck, TypeOK, HeldInv, Holding
  <2>2. CASE _cancelationToken[w]
    <3>1. op' \in [Conns -> 0..MaxOps] /\ worker' \in [Conns -> {"none", "pop", "check", "run", "exited"}]
      <4>1. op' = [op EXCEPT ![w] = 0] /\ worker' = [worker EXCEPT ![w] = "exited"]
        BY <1>5, <2>2 DEF WorkerCheck
      <4>2. 0 \in 0..MaxOps
        OBVIOUS
      <4> QED
        BY <4>1, <4>2 DEF TypeOK
    <3>2. leaked' \in SUBSET (1..MaxOps) /\ done' \in SUBSET (1..MaxOps)
      BY <1>5, <2>1, <2>2 DEF WorkerCheck, TypeOK
    <3>3. HeldInv'
      BY <1>5, <2>1, <2>2 DEF WorkerCheck, TypeOK, HeldInv, Holding
    <3> QED
      BY <1>5, <3>1, <3>2, <3>3, <2>2
         DEF WorkerCheck, TypeOK, queueVars, workerVars, ownerVars, opVars
  <2>3. CASE ~_cancelationToken[w]
    BY <1>5, <2>1, <2>3
       DEF WorkerCheck, TypeOK, HeldInv, Holding, queueVars, workerVars, ownerVars,
           opVars
  <2> QED
    BY <2>2, <2>3
<1>6. ASSUME NEW w \in Conns, WorkerRun(w) PROVE TypeOK' /\ HeldInv'
  <2>1. op[w] \in 1..MaxOps
    BY <1>6 DEF WorkerRun, TypeOK, HeldInv, Holding
  <2> QED
    <3>1. op' \in [Conns -> 0..MaxOps] /\ worker' \in [Conns -> {"none", "pop", "check", "run", "exited"}]
      BY <1>6, <2>1 DEF WorkerRun, TypeOK
    <3>2. leaked' \in SUBSET (1..MaxOps) /\ done' \in SUBSET (1..MaxOps)
      BY <1>6, <2>1 DEF WorkerRun, TypeOK
    <3>3. HeldInv'
      BY <1>6, <2>1 DEF WorkerRun, TypeOK, HeldInv, Holding
    <3> QED
      BY <1>6, <3>1, <3>2, <3>3
         DEF WorkerRun, TypeOK, queueVars, workerVars, ownerVars, opVars
<1>7. CASE Enqueue
  BY <1>7
     DEF Enqueue, Push, NotifyOne, TypeOK, HeldInv, Holding, queueVars, workerVars,
         ownerVars, opVars
<1>8. CASE CreateConnection
  <2>1. Len(pooled) + 1 \in Conns /\ Len(pooled) + 1 \in 0..AsyncThreads
    BY <1>8, LenProperties DEF CreateConnection, TypeOK, Conns
  <2>2. worker' = [worker EXCEPT ![Len(pooled) + 1] = "pop"] /\ creating' = Len(pooled) + 1
    BY <1>8 DEF CreateConnection
  <2>3. worker[Len(pooled) + 1] \notin Holding
    <3>1. \A w \in Conns : w > Len(pooled) /\ w # 0 => worker[w] = "none"
      BY <1>8 DEF CreateConnection, FreshInv
    <3>2. Len(pooled) \in Nat
      BY LenProperties DEF TypeOK
    <3>3. worker[Len(pooled) + 1] = "none"
      BY <2>1, <3>1, <3>2
    <3> QED
      BY <3>3 DEF Holding
  <2> QED
    BY <1>8, <2>1, <2>2, <2>3
       DEF CreateConnection, TypeOK, HeldInv, Holding, queueVars, workerVars,
           ownerVars, opVars
<1>9. CASE OpenSucceeds
  <2>1. creating \in Conns /\ 0 \in 0..AsyncThreads
    BY <1>9 DEF OpenSucceeds, TypeOK, Conns
  <2>2. Append(pooled, creating) \in Seq(Conns)
    BY <2>1, InAppend DEF TypeOK
  <2> QED
    BY <1>9, <2>1, <2>2, Zenon
       DEF OpenSucceeds, TypeOK, HeldInv, Holding, queueVars, workerVars,
           ownerVars, opVars
<1>10. CASE OpenFails
  <2>1. creating \in Conns /\ 0 \in 0..AsyncThreads /\ <<>> \in Seq(Conns)
    BY <1>10 DEF OpenFails, TypeOK, Conns
  <2>2. Append(pooled, creating) \in Seq(Conns)
    BY <2>1, InAppend DEF TypeOK
  <2> QED
    BY <1>10, <2>1, <2>2, Zenon
       DEF OpenFails, Destroy, TypeOK, HeldInv, Holding, queueVars, workerVars,
           ownerVars, opVars
<1>11. CASE OpenTooOld
  <2>1. creating \in Conns /\ 0 \in 0..AsyncThreads
    BY <1>11 DEF OpenTooOld, TypeOK, Conns
  <2>2. <<creating>> \in Seq(Conns)
    BY <2>1
  <2> QED
    BY <1>11, <2>1, <2>2, Zenon
       DEF OpenTooOld, Destroy, TypeOK, HeldInv, Holding, queueVars, workerVars,
           ownerVars, opVars
<1>12. CASE OpenReturns
  BY <1>12
     DEF OpenReturns, TypeOK, HeldInv, Holding, queueVars, workerVars, ownerVars,
         opVars
<1>13. CASE Close
  BY <1>13
     DEF Close, Destroy, TypeOK, HeldInv, Holding, queueVars, workerVars,
         ownerVars, opVars
<1>14. CASE DestroyPool
  <2>1. Queued \subseteq 1..MaxOps /\ <<>> \in Seq(1..MaxOps) /\ <<>> \in Seq(Conns)
    BY QueuedType
  <2> QED
    BY <1>14, <2>1
       DEF DestroyPool, Cancel, Destroy, TypeOK, HeldInv, Holding, queueVars,
           workerVars, ownerVars, opVars
<1>15. CASE SetToken
  BY <1>15
     DEF SetToken, TypeOK, HeldInv, Holding, queueVars, workerVars, ownerVars,
         opVars
<1>16. CASE CancelQueue
  <2>1. Queued \subseteq 1..MaxOps /\ <<>> \in Seq(1..MaxOps)
    BY QueuedType
  <2> QED
    BY <1>16, <2>1
       DEF CancelQueue, Cancel, TypeOK, HeldInv, Holding, queueVars, workerVars,
           ownerVars, opVars
<1>17. CASE Join
  BY <1>17 DEF Join, TypeOK, HeldInv, Holding, queueVars, workerVars, ownerVars, opVars
<1>18. CASE Destroyed
  BY <1>18
     DEF Destroyed, TypeOK, HeldInv, Holding, queueVars, workerVars, ownerVars,
         opVars
<1>19. CASE UNCHANGED vars
  BY <1>19 DEF vars, TypeOK, HeldInv, Holding, queueVars, workerVars, ownerVars, opVars
<1> QED
  BY <1>1, <1>2, <1>3, <1>4, <1>5, <1>6, <1>7, <1>8, <1>9, <1>10, <1>11,
     <1>12, <1>13, <1>14, <1>15, <1>16, <1>17, <1>18, <1>19
     DEF Next, WorkerStep, OpenStep, DestroyStep, Gone

\* Every step keeps the connections to come without a thread.
LEMMA FreshNext ==
  ASSUME TypeOK, FreshInv, [Next]_vars
  PROVE  FreshInv'
<1> USE DbWorkerPoolAssumption
<1>1. ASSUME NEW w \in Conns, WorkerPop(w) PROVE FreshInv'
  BY <1>1
     DEF WorkerPop, PopValue, TypeOK, FreshInv, queueVars, workerVars, ownerVars,
         opVars
<1>2. ASSUME NEW w \in Conns, WorkerWait(w) PROVE FreshInv'
  BY <1>2 DEF WorkerWait, Wait, TypeOK, FreshInv, queueVars, workerVars, ownerVars, opVars
<1>3. ASSUME NEW w \in Conns, WorkerWake(w) PROVE FreshInv'
  BY <1>3
     DEF WorkerWake, SpuriousWake, TypeOK, FreshInv, queueVars, workerVars,
         ownerVars, opVars
<1>4. ASSUME NEW w \in Conns, WorkerExit(w) PROVE FreshInv'
  BY <1>4
     DEF WorkerExit, PopNothing, TypeOK, FreshInv, queueVars, workerVars,
         ownerVars, opVars
<1>5. ASSUME NEW w \in Conns, WorkerCheck(w) PROVE FreshInv'
  BY <1>5 DEF WorkerCheck, TypeOK, FreshInv, queueVars, workerVars, ownerVars, opVars
<1>6. ASSUME NEW w \in Conns, WorkerRun(w) PROVE FreshInv'
  BY <1>6 DEF WorkerRun, TypeOK, FreshInv, queueVars, workerVars, ownerVars, opVars
<1>7. CASE Enqueue
  BY <1>7
     DEF Enqueue, Push, NotifyOne, TypeOK, FreshInv, queueVars, workerVars,
         ownerVars, opVars
<1>8. CASE CreateConnection
  BY <1>8 DEF CreateConnection, TypeOK, FreshInv, queueVars, workerVars, ownerVars, opVars
<1>9. CASE OpenSucceeds
  <2>1. /\ creating = Len(pooled) + 1 /\ Len(pooled) \in Nat /\ creating \in Conns
        /\ pooled' = Append(pooled, creating) /\ creating' = 0 /\ worker' = worker
    BY <1>9, LenProperties DEF OpenSucceeds, TypeOK, FreshInv, Conns, workerVars
  <2>2. Len(pooled') = Len(pooled) + 1
    BY <2>1, AppendProperties DEF TypeOK
  <2>3. \A w \in Conns : w > Len(pooled) + 1 => worker[w] = "none"
    BY <1>9, <2>1 DEF OpenSucceeds, FreshInv, Conns
  <2> QED
    BY <2>1, <2>2, <2>3 DEF FreshInv
<1>10. CASE OpenFails
  BY <1>10
     DEF OpenFails, Destroy, TypeOK, FreshInv, queueVars, workerVars, ownerVars,
         opVars
<1>11. CASE OpenTooOld
  BY <1>11
     DEF OpenTooOld, Destroy, TypeOK, FreshInv, queueVars, workerVars, ownerVars,
         opVars
<1>12. CASE OpenReturns
  BY <1>12 DEF OpenReturns, TypeOK, FreshInv, queueVars, workerVars, ownerVars, opVars
<1>13. CASE Close
  BY <1>13 DEF Close, Destroy, TypeOK, FreshInv, queueVars, workerVars, ownerVars, opVars
<1>14. CASE DestroyPool
  BY <1>14
     DEF DestroyPool, Cancel, Destroy, TypeOK, FreshInv, queueVars, workerVars,
         ownerVars, opVars
<1>15. CASE SetToken
  BY <1>15 DEF SetToken, TypeOK, FreshInv, queueVars, workerVars, ownerVars, opVars
<1>16. CASE CancelQueue
  BY <1>16
     DEF CancelQueue, Cancel, TypeOK, FreshInv, queueVars, workerVars, ownerVars,
         opVars
<1>17. CASE Join
  BY <1>17 DEF Join, TypeOK, FreshInv, queueVars, workerVars, ownerVars, opVars
<1>18. CASE Destroyed
  BY <1>18 DEF Destroyed, TypeOK, FreshInv, queueVars, workerVars, ownerVars, opVars
<1>19. CASE UNCHANGED vars
  BY <1>19 DEF vars, TypeOK, FreshInv, queueVars, workerVars, ownerVars, opVars
<1> QED
  BY <1>1, <1>2, <1>3, <1>4, <1>5, <1>6, <1>7, <1>8, <1>9, <1>10, <1>11,
     <1>12, <1>13, <1>14, <1>15, <1>16, <1>17, <1>18, <1>19
     DEF Next, WorkerStep, OpenStep, DestroyStep, Gone

------------------------------------------------------------------------------
(* Threads and their connections.                                          *)

Running == {"pop", "check", "run"}

\* Nothing is being destroyed when a connection is made or the pool destroyed.
ThreadsInv ==
    /\ phase \in {"opening", "open", "failed", "closed"} => doomed = <<>>
    /\ \A w \in Conns : worker[w] \in Running =>
          w \in In(pooled) \cup In(doomed) \cup {creating}

\* Every step keeps the connections of threads that run.
LEMMA ThreadsNext ==
  ASSUME TypeOK, ThreadsInv, [Next]_vars
  PROVE  ThreadsInv'
<1> USE DbWorkerPoolAssumption
<1>1. ASSUME NEW w \in Conns, WorkerPop(w) PROVE ThreadsInv'
  BY <1>1
     DEF WorkerPop, PopValue, TypeOK, ThreadsInv, Running, queueVars, workerVars,
         ownerVars, opVars
<1>2. ASSUME NEW w \in Conns, WorkerWait(w) PROVE ThreadsInv'
  BY <1>2
     DEF WorkerWait, Wait, TypeOK, ThreadsInv, Running, queueVars, workerVars,
         ownerVars, opVars
<1>3. ASSUME NEW w \in Conns, WorkerWake(w) PROVE ThreadsInv'
  BY <1>3
     DEF WorkerWake, SpuriousWake, TypeOK, ThreadsInv, Running, queueVars, workerVars,
         ownerVars, opVars
<1>4. ASSUME NEW w \in Conns, WorkerExit(w) PROVE ThreadsInv'
  BY <1>4
     DEF WorkerExit, PopNothing, TypeOK, ThreadsInv, Running, queueVars, workerVars,
         ownerVars, opVars
<1>5. ASSUME NEW w \in Conns, WorkerCheck(w) PROVE ThreadsInv'
  BY <1>5
     DEF WorkerCheck, TypeOK, ThreadsInv, Running, queueVars, workerVars, ownerVars,
         opVars
<1>6. ASSUME NEW w \in Conns, WorkerRun(w) PROVE ThreadsInv'
  BY <1>6
     DEF WorkerRun, TypeOK, ThreadsInv, Running, queueVars, workerVars, ownerVars,
         opVars
<1>7. CASE Enqueue
  BY <1>7
     DEF Enqueue, Push, NotifyOne, TypeOK, ThreadsInv, Running, queueVars, workerVars,
         ownerVars, opVars
<1>8. CASE CreateConnection
  <2>1. /\ creating = 0 /\ phase' = phase /\ doomed' = doomed /\ pooled' = pooled
        /\ \A w \in Conns : worker'[w] = worker[w] \/ w = creating'
    BY <1>8 DEF CreateConnection, TypeOK
  <2>2. 0 \notin Conns
    BY DEF Conns
  <2> QED
    BY <2>1, <2>2 DEF ThreadsInv
<1>9. CASE OpenSucceeds
  <2>1. creating \in Conns
    BY <1>9 DEF OpenSucceeds, TypeOK, Conns
  <2>2. In(pooled') = In(pooled) \cup {creating}
    BY <1>9, <2>1, InAppend DEF OpenSucceeds, TypeOK
  <2> QED
    BY <1>9, <2>2 DEF OpenSucceeds, ThreadsInv, workerVars
<1>10. CASE OpenFails
  <2>1. creating \in Conns
    BY <1>10 DEF OpenFails, TypeOK, Conns
  <2>2. In(doomed') = In(pooled) \cup {creating} /\ doomed = <<>>
    BY <1>10, <2>1, InAppend DEF OpenFails, Destroy, TypeOK, ThreadsInv
  <2> QED
    BY <1>10, <2>2, InSmall DEF OpenFails, Destroy, ThreadsInv, workerVars
<1>11. CASE OpenTooOld
  <2>1. In(doomed') = {creating} /\ doomed = <<>>
    BY <1>11, InSmall DEF OpenTooOld, Destroy, ThreadsInv
  <2> QED
    BY <1>11, <2>1, InSmall DEF OpenTooOld, Destroy, ThreadsInv, workerVars
<1>12. CASE OpenReturns
  BY <1>12
     DEF OpenReturns, TypeOK, ThreadsInv, Running, queueVars, workerVars, ownerVars,
         opVars
<1>13. CASE Close
  BY <1>13
     DEF Close, Destroy, TypeOK, ThreadsInv, Running, queueVars, workerVars,
         ownerVars, opVars
<1>14. CASE DestroyPool
  BY <1>14
     DEF DestroyPool, Cancel, Destroy, TypeOK, ThreadsInv, Running, queueVars,
         workerVars, ownerVars, opVars
<1>15. CASE SetToken
  BY <1>15
     DEF SetToken, TypeOK, ThreadsInv, Running, queueVars, workerVars, ownerVars,
         opVars
<1>16. CASE CancelQueue
  BY <1>16
     DEF CancelQueue, Cancel, TypeOK, ThreadsInv, Running, queueVars, workerVars,
         ownerVars, opVars
<1>17. CASE Join
  <2>1. In(doomed) = In(doomed') \cup {Head(doomed)}
    BY <1>17, InTail DEF Join, TypeOK
  <2>2. worker[Head(doomed)] \notin Running
    BY <1>17 DEF Join, Running
  <2>3. phase \notin {"opening", "open", "failed", "closed"}
    BY <1>17 DEF Join, ThreadsInv
  <2> QED
    BY <1>17, <2>1, <2>2, <2>3 DEF Join, ThreadsInv, workerVars
<1>18. CASE Destroyed
  BY <1>18
     DEF Destroyed, TypeOK, ThreadsInv, Running, queueVars, workerVars, ownerVars,
         opVars
<1>19. CASE UNCHANGED vars
  BY <1>19 DEF vars, TypeOK, ThreadsInv, Running, queueVars, workerVars, ownerVars, opVars
<1> QED
  BY <1>1, <1>2, <1>3, <1>4, <1>5, <1>6, <1>7, <1>8, <1>9, <1>10, <1>11,
     <1>12, <1>13, <1>14, <1>15, <1>16, <1>17, <1>18, <1>19
     DEF Next, WorkerStep, OpenStep, DestroyStep, Gone

------------------------------------------------------------------------------
(* Operations and their owners.                                            *)

\* The operations that are somewhere are those that were pushed; no operation
\* is in two places.
OwnInv ==
    /\ Distinct(_queue)
    /\ \A v, w \in Conns : op[v] = op[w] /\ op[v] # 0 => v = w
    /\ Queued \cup Held \cup done \cup dropped \cup leaked = 1..pushed
    /\ Queued \cap (Held \cup done \cup dropped \cup leaked) = {}
    /\ Held \cap (done \cup dropped \cup leaked) = {}
    /\ done \cap (dropped \cup leaked) = {}
    /\ dropped \cap leaked = {}

\* A step that touches no operation.
LEMMA OwnKept ==
  ASSUME OwnInv, UNCHANGED <<_queue, op, opVars>>
  PROVE  OwnInv'
<1>1. Queued' = Queued /\ Held' = Held
  BY DEF Queued, Held
<1>2. UNCHANGED <<_queue, op, done, dropped, leaked, pushed>>
  BY DEF opVars
<1> QED
  BY <1>1, <1>2 DEF OwnInv

\* A thread takes the first operation, which it alone holds then.
LEMMA OwnPop ==
  ASSUME TypeOK, HeldInv, OwnInv, NEW w \in Conns, WorkerPop(w)
  PROVE  OwnInv'
<1>1. /\ worker[w] = "pop" /\ _queue # <<>> /\ _queue' = Tail(_queue)
      /\ op' = [op EXCEPT ![w] = Head(_queue)] /\ UNCHANGED opVars
  BY DEF WorkerPop, PopValue
<1> DEFINE x == Head(_queue)
<1>2. /\ x \in Queued /\ x \in 1..MaxOps
      /\ Queued' = Queued \ {x}
      /\ Distinct(_queue')
  <2>1. _queue \in Seq(1..MaxOps) /\ Distinct(_queue) /\ Queued = In(_queue)
    BY QueuedType DEF TypeOK, OwnInv
  <2>2. Queued' = In(_queue')
    BY DEF Queued, In
  <2>3. /\ x \in In(_queue) /\ x \in 1..MaxOps /\ In(_queue) = In(_queue') \cup {x}
        /\ Distinct(_queue') /\ x \notin In(_queue')
    BY <1>1, <2>1, InTail
  <2> QED
    BY <2>1, <2>2, <2>3
<1> HIDE DEF x
<1>3. op[w] = 0
  BY <1>1 DEF HeldInv, Holding
<1>4. x # 0
  BY <1>2
<1>5. Held' = Held \cup {x}
  <2>1. \A v \in Conns : op'[v] = IF v = w THEN x ELSE op[v]
    BY <1>1 DEF TypeOK, x
  <2> QED
    BY <1>3, <1>4, <2>1 DEF Held
<1>6. \A v \in Conns : op[v] # x
  BY <1>2, <1>4 DEF OwnInv, Held
<1>7. \A u, v \in Conns : op'[u] = op'[v] /\ op'[u] # 0 => u = v
  BY <1>1, <1>6 DEF TypeOK, OwnInv, x
<1>8. /\ done' = done /\ dropped' = dropped /\ leaked' = leaked /\ pushed' = pushed
  BY <1>1 DEF opVars
<1>9. /\ Queued' \cup Held' \cup done \cup dropped \cup leaked = 1..pushed
      /\ Queued' \cap (Held' \cup done \cup dropped \cup leaked) = {}
      /\ Held' \cap (done \cup dropped \cup leaked) = {}
  BY <1>2, <1>5 DEF OwnInv
<1> QED
  BY <1>2, <1>7, <1>8, <1>9 DEF OwnInv

\* A thread lets go of its operation, which is then in no other hands.
LEMMA HeldLetGo ==
  ASSUME TypeOK, OwnInv, NEW w \in Conns, op[w] # 0, op' = [op EXCEPT ![w] = 0]
  PROVE  /\ Held' = Held \ {op[w]} /\ op[w] \in Held
         /\ \A u, v \in Conns : op'[u] = op'[v] /\ op'[u] # 0 => u = v
<1>1. \A v \in Conns : op'[v] = IF v = w THEN 0 ELSE op[v]
  BY DEF TypeOK
<1>2. op[w] \in Held
  BY DEF Held
<1>3. Held' = Held \ {op[w]}
  BY <1>1 DEF Held, OwnInv
<1> QED
  BY <1>1, <1>2, <1>3 DEF OwnInv

\* A thread that finds its token set forgets the operation.
LEMMA OwnCheck ==
  ASSUME TypeOK, HeldInv, OwnInv, NEW w \in Conns, WorkerCheck(w)
  PROVE  OwnInv'
<1>1. CASE _cancelationToken[w]
  <2>1. /\ leaked' = leaked \cup {op[w]} /\ op' = [op EXCEPT ![w] = 0]
        /\ _queue' = _queue /\ done' = done /\ dropped' = dropped /\ pushed' = pushed
    BY <1>1 DEF WorkerCheck, queueVars
  <2>2. op[w] # 0
    BY DEF WorkerCheck, HeldInv, Holding
  <2>3. /\ Held' = Held \ {op[w]} /\ op[w] \in Held
        /\ \A u, v \in Conns : op'[u] = op'[v] /\ op'[u] # 0 => u = v
    BY <2>1, <2>2, HeldLetGo
  <2>4. Queued' = Queued
    BY <2>1 DEF Queued
  <2> QED
    BY <2>1, <2>3, <2>4 DEF OwnInv
<1>2. CASE ~_cancelationToken[w]
  BY <1>2, OwnKept DEF WorkerCheck, queueVars, opVars
<1> QED
  BY <1>1, <1>2

\* A thread executes its operation.
LEMMA OwnRun ==
  ASSUME TypeOK, HeldInv, OwnInv, NEW w \in Conns, WorkerRun(w)
  PROVE  OwnInv'
<1>1. /\ done' = done \cup {op[w]} /\ op' = [op EXCEPT ![w] = 0]
      /\ _queue' = _queue /\ leaked' = leaked /\ dropped' = dropped /\ pushed' = pushed
  BY DEF WorkerRun, queueVars
<1>2. op[w] # 0
  BY DEF WorkerRun, HeldInv, Holding
<1>3. /\ Held' = Held \ {op[w]} /\ op[w] \in Held
      /\ \A u, v \in Conns : op'[u] = op'[v] /\ op'[u] # 0 => u = v
  BY <1>1, <1>2, HeldLetGo
<1>4. Queued' = Queued
  BY <1>1 DEF Queued
<1> QED
  BY <1>1, <1>3, <1>4 DEF OwnInv

\* A new operation is in nobody's hands.
LEMMA OwnEnqueue ==
  ASSUME TypeOK, OwnInv, Enqueue
  PROVE  OwnInv'
<1>1. /\ _queue' = Append(_queue, pushed + 1) /\ pushed' = pushed + 1
      /\ op' = op /\ done' = done /\ dropped' = dropped /\ leaked' = leaked
      /\ pushed \in Nat /\ pushed + 1 \in 1..MaxOps
  BY DbWorkerPoolAssumption DEF Enqueue, Push, workerVars, TypeOK
<1>2. pushed + 1 \notin 1..pushed /\ 1..(pushed + 1) = 1..pushed \cup {pushed + 1}
  BY <1>1
<1>3. pushed + 1 \notin Queued \cup Held \cup done \cup dropped \cup leaked
  BY <1>2 DEF OwnInv
<1>4. Queued' = Queued \cup {pushed + 1} /\ Distinct(_queue')
  <2>1. _queue \in Seq(1..MaxOps) /\ Distinct(_queue) /\ Queued = In(_queue)
    BY QueuedType DEF TypeOK, OwnInv
  <2>2. Queued' = In(_queue')
    BY DEF Queued, In
  <2> QED
    BY <1>1, <1>3, <2>1, <2>2, InAppend
<1>5. Held' = Held
  BY <1>1 DEF Held
<1>6. Queued' \cup Held \cup done \cup dropped \cup leaked = 1..(pushed + 1)
  <2>1. Queued \cup Held \cup done \cup dropped \cup leaked = 1..pushed
    BY DEF OwnInv
  <2> QED
    BY <1>2, <1>4, <2>1, Zenon
<1> QED
  BY <1>1, <1>3, <1>4, <1>5, <1>6 DEF OwnInv

\* Cancel deletes what is queued, and nothing else.
LEMMA OwnCancel ==
  ASSUME TypeOK, OwnInv, Cancel, dropped' = dropped \cup Queued,
         UNCHANGED <<op, pushed, done, leaked>>
  PROVE  OwnInv'
<1>1. Queued' = {} /\ Distinct(_queue')
  BY InSmall DEF Cancel, Queued, In
<1>2. Held' = Held
  BY DEF Held
<1> QED
  BY <1>1, <1>2 DEF OwnInv

\* Every step leaves every operation with one owner.
LEMMA OwnNext ==
  ASSUME TypeOK, HeldInv, OwnInv, [Next]_vars
  PROVE  OwnInv'
<1>1. ASSUME NEW w \in Conns, WorkerPop(w) PROVE OwnInv'
  BY <1>1, OwnPop
<1>2. ASSUME NEW w \in Conns, WorkerWait(w) PROVE OwnInv'
  BY <1>2, OwnKept DEF WorkerWait, Wait, queueVars, workerVars, opVars
<1>3. ASSUME NEW w \in Conns, WorkerWake(w) PROVE OwnInv'
  BY <1>3, OwnKept DEF WorkerWake, SpuriousWake, queueVars, workerVars, opVars
<1>4. ASSUME NEW w \in Conns, WorkerExit(w) PROVE OwnInv'
  BY <1>4, OwnKept DEF WorkerExit, PopNothing, queueVars, workerVars, opVars
<1>5. ASSUME NEW w \in Conns, WorkerCheck(w) PROVE OwnInv'
  BY <1>5, OwnCheck
<1>6. ASSUME NEW w \in Conns, WorkerRun(w) PROVE OwnInv'
  BY <1>6, OwnRun
<1>7. CASE Enqueue
  BY <1>7, OwnEnqueue
<1>8. CASE CreateConnection
  BY <1>8, OwnKept DEF CreateConnection, queueVars, workerVars, opVars
<1>9. CASE OpenSucceeds
  BY <1>9, OwnKept DEF OpenSucceeds, queueVars, workerVars, opVars
<1>10. CASE OpenFails
  BY <1>10, OwnKept DEF OpenFails, Destroy, queueVars, workerVars, opVars
<1>11. CASE OpenTooOld
  BY <1>11, OwnKept DEF OpenTooOld, Destroy, queueVars, workerVars, opVars
<1>12. CASE OpenReturns
  BY <1>12, OwnKept DEF OpenReturns, queueVars, workerVars, opVars
<1>13. CASE Close
  BY <1>13, OwnKept DEF Close, Destroy, queueVars, workerVars, opVars
<1>14. CASE DestroyPool
  BY <1>14, OwnCancel DEF DestroyPool, workerVars
<1>15. CASE SetToken
  BY <1>15, OwnKept DEF SetToken, queueVars, workerVars, opVars
<1>16. CASE CancelQueue
  BY <1>16, OwnCancel DEF CancelQueue, workerVars
<1>17. CASE Join
  BY <1>17, OwnKept DEF Join, queueVars, workerVars, opVars
<1>18. CASE Destroyed
  BY <1>18, OwnKept DEF Destroyed, queueVars, workerVars, opVars
<1>19. CASE UNCHANGED vars
  BY <1>19, OwnKept DEF vars, queueVars, workerVars, opVars
<1> QED
  BY <1>1, <1>2, <1>3, <1>4, <1>5, <1>6, <1>7, <1>8, <1>9, <1>10, <1>11,
     <1>12, <1>13, <1>14, <1>15, <1>16, <1>17, <1>18, <1>19
     DEF Next, WorkerStep, OpenStep, DestroyStep, Gone

\* So many operations are somewhere as were pushed.
LEMMA OwnersAddUp ==
  ASSUME TypeOK, OwnInv
  PROVE  /\ Cardinality(Queued) = Len(_queue)
         /\ Cardinality(Queued) + Cardinality(Held) + Cardinality(done)
              + Cardinality(dropped) + Cardinality(leaked) = pushed
<1>1. Cardinality(Queued) = Len(_queue)
  BY InCardinality DEF TypeOK, OwnInv, Queued, In
<1>2. pushed \in Nat /\ IsFiniteSet(1..pushed) /\ Cardinality(1..pushed) = pushed
  <2>1. pushed \in Nat
    BY DbWorkerPoolAssumption DEF TypeOK
  <2> QED
    BY <2>1, FS_Interval
<1>3. /\ Queued \subseteq 1..pushed /\ Held \subseteq 1..pushed /\ done \subseteq 1..pushed
      /\ dropped \subseteq 1..pushed /\ leaked \subseteq 1..pushed
  BY DEF OwnInv
<1>4. /\ IsFiniteSet(Queued) /\ IsFiniteSet(Held) /\ IsFiniteSet(done)
      /\ IsFiniteSet(dropped) /\ IsFiniteSet(leaked)
  BY <1>2, <1>3, FS_Subset
<1>5. ASSUME NEW S, NEW T, IsFiniteSet(S), IsFiniteSet(T), S \cap T = {}
      PROVE  /\ IsFiniteSet(S \cup T) /\ Cardinality(S \cup T) = Cardinality(S) + Cardinality(T)
             /\ Cardinality(S) \in Nat /\ Cardinality(T) \in Nat
  <2>1. /\ IsFiniteSet(S \cup T)
        /\ Cardinality(S \cup T) = Cardinality(S) + Cardinality(T) - Cardinality(S \cap T)
    BY <1>5, FS_Union
  <2>2. Cardinality(S \cap T) = 0
    BY <1>5, FS_EmptySet
  <2>3. Cardinality(S) \in Nat /\ Cardinality(T) \in Nat
    BY <1>5, FS_CardinalityType
  <2> QED
    BY <2>1, <2>2, <2>3
<1> DEFINE A == Queued \cup Held
           B == A \cup done
           C == B \cup dropped
           D == C \cup leaked
<1>6. Queued \cap Held = {} /\ A \cap done = {} /\ B \cap dropped = {} /\ C \cap leaked = {}
  BY DEF OwnInv
<1>7. D = 1..pushed
  BY DEF OwnInv
<1> HIDE DEF D
<1>8. /\ IsFiniteSet(A) /\ Cardinality(A) = Cardinality(Queued) + Cardinality(Held)
      /\ Cardinality(Queued) \in Nat /\ Cardinality(Held) \in Nat
  BY <1>4, <1>5, <1>6
<1> HIDE DEF A
<1>9. /\ IsFiniteSet(B) /\ Cardinality(B) = Cardinality(A) + Cardinality(done)
      /\ Cardinality(done) \in Nat
  BY <1>4, <1>5, <1>6, <1>8
<1> HIDE DEF B
<1>10. /\ IsFiniteSet(C) /\ Cardinality(C) = Cardinality(B) + Cardinality(dropped)
       /\ Cardinality(dropped) \in Nat
  BY <1>4, <1>5, <1>6, <1>9
<1> HIDE DEF C
<1>11. Cardinality(D) = Cardinality(C) + Cardinality(leaked) /\ Cardinality(leaked) \in Nat
  BY <1>4, <1>5, <1>6, <1>10 DEF D
<1> QED
  BY <1>1, <1>2, <1>7, <1>8, <1>9, <1>10, <1>11

------------------------------------------------------------------------------
(* The theorems.                                                           *)

\* All of it together.
IInv == TypeOK /\ HeldInv /\ FreshInv /\ ThreadsInv /\ OwnInv

\* A pool just constructed satisfies the invariant.
LEMMA InvInit == Init => IInv
<1> SUFFICES ASSUME Init PROVE IInv
  OBVIOUS
<1>1. TypeOK /\ HeldInv /\ FreshInv
  BY TypeInit
<1>2. ThreadsInv
  BY DEF Init, ThreadsInv, Running
<1>3. Queued = {} /\ Distinct(_queue)
  BY InSmall DEF Init, QueueInit, Queued, In
<1>4. Held = {} /\ \A v \in Conns : op[v] = 0
  BY DEF Init, Held
<1>5. 1..pushed = {}
  BY DEF Init
<1>6. OwnInv
  BY <1>3, <1>4, <1>5 DEF Init, OwnInv
<1> QED
  BY <1>1, <1>2, <1>6 DEF IInv

\* Every step keeps it.
LEMMA InvNext == IInv /\ [Next]_vars => IInv'
  BY TypeNext, FreshNext, ThreadsNext, OwnNext DEF IInv

\* So it holds in every state of the pool.
LEMMA Invariance == Spec => []IInv
  BY InvInit, InvNext, PTL DEF Spec

\* Every operation pushed is queued, held by one thread, executed, deleted by
\* Cancel or forgotten, and exactly one of these, whatever threads pop, check
\* their token and shut the queue down in between: nothing is executed twice or
\* executed after it was deleted.
THEOREM EveryOperationHasOneOwner == Spec => []OneOwner
<1>1. ASSUME IInv PROVE OneOwner
  BY <1>1, OwnersAddUp DEF IInv, OwnInv, OneOwner
<1> QED
  BY <1>1, Invariance, PTL

\* A worker thread that has not ended belongs to a connection that is pooled,
\* being opened or not yet destroyed: ~DatabaseWorker joins it before the
\* connection's statements and handle go.
THEOREM ConnectionsOutliveThreads == Spec => []ThreadsHaveConnections
<1>1. ASSUME IInv PROVE ThreadsHaveConnections
  <2>1. 0 \notin Conns
    BY DEF Conns
  <2>2. Alive = In(pooled) \cup In(doomed) \cup ({creating} \ {0})
    BY DEF Alive, In
  <2> QED
    BY <1>1, <2>1, <2>2 DEF IInv, ThreadsInv, ThreadsHaveConnections, Running
<1> QED
  BY <1>1, Invariance, PTL

------------------------------------------------------------------------------
(* DbLoader                                                                *)

\* The constants of DbLoader.
LEMMA LoaderConstants ==
  /\ AsyncCount \in Nat /\ SynchCount \in Nat /\ Databases \in Seq(STRING)
  /\ \A i, j \in 1..Len(Databases) : Databases[i] = Databases[j] => i = j
  BY ConnectionsAssumption

\* A connection, and a pool with its connections of both types.
Hosts == {"", ".", "localhost"}
Connection == [info : Nat, prepared : BOOLEAN, socket : BOOLEAN]
DbPool == [info : Nat, host : Hosts, connections : [Loader!Types -> Seq(Connection)], shutdown : BOOLEAN]

\* The pool has no connection of the type that refers to its present connection info.
NewInfo(p, type) == \A k \in 1..Len(p.connections[type]) : p.connections[type][k].info # p.info

\* A connection refers to a connection info the pool has or had, and one socket is
\* used per connection info.
PoolInv(p) ==
  /\ p \in DbPool
  /\ \A type \in Loader!Types : \A k \in 1..Len(p.connections[type]) : p.connections[type][k].info <= p.info
  /\ Loader!OneSocket(p)

\* The types of a pool.
LEMMA PoolTyped ==
  ASSUME NEW p \in DbPool
  PROVE  /\ p.info \in Nat /\ p.shutdown \in BOOLEAN /\ p.host \in Hosts
         /\ p.connections \in [Loader!Types -> Seq(Connection)]
         /\ "async" \in Loader!Types /\ "synch" \in Loader!Types
         /\ \A type \in Loader!Types :
              /\ p.connections[type] \in Seq(Connection) /\ Len(p.connections[type]) \in Nat
              /\ \A k \in 1..Len(p.connections[type]) :
                   p.connections[type][k] \in Connection /\ p.connections[type][k].info \in Nat
<1>1. p.info \in Nat /\ p.shutdown \in BOOLEAN /\ p.host \in Hosts /\ p.connections \in [Loader!Types -> Seq(Connection)]
  BY DEF DbPool
<1>2. "async" \in Loader!Types /\ "synch" \in Loader!Types
  BY DEF Loader!Types
<1>3. ASSUME NEW type \in Loader!Types
      PROVE  /\ p.connections[type] \in Seq(Connection) /\ Len(p.connections[type]) \in Nat
             /\ \A k \in 1..Len(p.connections[type]) :
                  p.connections[type][k] \in Connection /\ p.connections[type][k].info \in Nat
  <2>1. p.connections[type] \in Seq(Connection)
    BY <1>1
  <2>2. ASSUME NEW k \in 1..Len(p.connections[type])
        PROVE  p.connections[type][k] \in Connection /\ p.connections[type][k].info \in Nat
    <3>1. p.connections[type][k] \in Connection
      BY <2>1
    <3> QED
      BY <3>1 DEF Connection
  <2> QED
    BY <2>1, <2>2
<1> QED
  BY <1>1, <1>2, <1>3

\* SetConnectionInfo: no connection refers to the new connection info.
LEMMA PoolWithInfo ==
  ASSUME NEW p, PoolInv(p), NEW q, q = Loader!WithInfo(p)
  PROVE  /\ PoolInv(q) /\ q.connections = p.connections /\ q.shutdown = p.shutdown
         /\ NewInfo(q, "async") /\ NewInfo(q, "synch")
<1>0. p \in DbPool
  BY DEF PoolInv
<1>1. q = [p EXCEPT !.info = p.info + 1, !.host = "."]
  BY DEF Loader!WithInfo
<1>2. p.info + 1 \in Nat /\ p.info \in Nat
  BY <1>0, PoolTyped
<1>3. q \in DbPool /\ q.connections = p.connections /\ q.shutdown = p.shutdown /\ q.info = p.info + 1
  BY <1>0, <1>1, <1>2 DEF DbPool, Hosts
<1>4. ASSUME NEW type \in Loader!Types, NEW k \in 1..Len(p.connections[type])
      PROVE  p.connections[type][k].info < p.info + 1
  <2>1. p.connections[type][k].info \in Nat /\ p.connections[type][k].info <= p.info
    BY <1>0, PoolTyped DEF PoolInv
  <2> QED
    BY <1>2, <2>1
<1>5. Loader!OneSocket(q)
  BY <1>3 DEF PoolInv, Loader!OneSocket
<1>6. \A type \in Loader!Types : \A k \in 1..Len(q.connections[type]) :
         q.connections[type][k].info <= q.info /\ q.connections[type][k].info # q.info
  <2>1. ASSUME NEW type \in Loader!Types, NEW k \in 1..Len(q.connections[type])
        PROVE  q.connections[type][k].info <= q.info /\ q.connections[type][k].info # q.info
    <3>1. q.connections[type][k].info = p.connections[type][k].info /\ p.connections[type][k].info < p.info + 1
          /\ p.connections[type][k].info \in Nat
      BY <1>0, <1>3, <1>4, PoolTyped
    <3> QED
      BY <1>2, <1>3, <3>1
  <2> QED
    BY <2>1
<1>7. "async" \in Loader!Types /\ "synch" \in Loader!Types
  BY DEF Loader!Types
<1> QED
  BY <1>3, <1>5, <1>6, <1>7 DEF PoolInv, NewInfo

\* n connections with the connection info of p, of which the first may use the socket.
Connects(c, p, n) ==
  /\ c \in Seq(Connection) /\ Len(c) = n
  /\ \A k \in 1..n : c[k].info = p.info /\ (c[k].socket => k = 1 /\ p.host = ".")

\* The connections that are opened are those.
LEMMA PoolConnected ==
  ASSUME NEW p \in DbPool, NEW n \in Nat
  PROVE  Connects(Loader!Connected(p, n), p, n)
<1>p. PICK c : c = Loader!Connected(p, n)
  OBVIOUS
<1>0. p.info \in Nat
  BY PoolTyped
<1>1. c = [k \in 1..n |-> [info |-> p.info, prepared |-> FALSE, socket |-> p.host = "." /\ k = 1]]
  BY <1>p DEF Loader!Connected
<1>2. ASSUME NEW k \in 1..n
      PROVE  /\ c[k] = [info |-> p.info, prepared |-> FALSE, socket |-> p.host = "." /\ k = 1]
             /\ c[k] \in Connection /\ c[k].info = p.info /\ (c[k].socket => k = 1 /\ p.host = ".")
  <2>1. c[k] = [info |-> p.info, prepared |-> FALSE, socket |-> p.host = "." /\ k = 1]
    BY <1>1
  <2>2. (p.host = "." /\ k = 1) \in BOOLEAN
    OBVIOUS
  <2>3. PICK b \in BOOLEAN : b = (p.host = "." /\ k = 1)
    BY <2>2
  <2>4. c[k] = [info |-> p.info, prepared |-> FALSE, socket |-> b]
    BY <2>1, <2>3
  <2>5. c[k] \in Connection /\ c[k].info = p.info /\ c[k].socket = b
    BY <1>0, <2>3, <2>4 DEF Connection
  <2>6. c[k].socket => k = 1 /\ p.host = "."
    BY <2>3, <2>5, Zenon
  <2> QED
    BY <2>1, <2>5, <2>6
<1>3. c \in Seq(Connection) /\ Len(c) = n
  <2>1. c \in [1..n -> Connection]
    BY <1>1, <1>2
  <2> QED
    BY <2>1
<1> QED
  BY <1>2, <1>3, <1>p DEF Connects

\* What OpenConnections makes of p.
Opens(p, type, n, q) ==
  /\ PoolInv(q) /\ q.info = p.info /\ (q.host = "." => NewInfo(q, type))
  /\ \A u \in Loader!Types : u # type => q.connections[u] = p.connections[u]
  /\ n = Loader!Threads(type) =>
       /\ q.shutdown = p.shutdown /\ Len(q.connections[type]) = Len(p.connections[type]) + n
       /\ \A k \in 1..Len(q.connections[type]) :
            k > Len(p.connections[type]) => q.connections[type][k].info = p.info

\* OpenConnections, whether all the connections are opened or the next one fails.
LEMMA PoolOpen ==
  ASSUME NEW p, PoolInv(p), NEW type \in Loader!Types, NEW n \in 0..Loader!Threads(type), NEW how,
         NewInfo(p, type), type = "async" => NewInfo(p, "synch"),
         type = "synch" /\ p.host = "." => NewInfo(p, "async"),
         NEW q, q = Loader!OpenConnections(p, type, n, how)
  PROVE  Opens(p, type, n, q)
<1>0. p \in DbPool /\ Loader!Threads(type) \in Nat /\ n \in Nat
  BY LoaderConstants DEF PoolInv, Loader!Threads
<1>1. /\ p.info \in Nat /\ p.shutdown \in BOOLEAN /\ p.host \in Hosts
      /\ p.connections \in [Loader!Types -> Seq(Connection)] /\ "async" \in Loader!Types /\ "synch" \in Loader!Types
      /\ \A u \in Loader!Types :
           /\ p.connections[u] \in Seq(Connection) /\ Len(p.connections[u]) \in Nat
           /\ \A k \in 1..Len(p.connections[u]) : p.connections[u][k].info \in Nat
  BY <1>0, PoolTyped
<1>2. PICK c, s, m : c = Loader!Connected(p, n) /\ s = p.connections[type] /\ m = Len(s)
  OBVIOUS
<1>3. c \in Seq(Connection) /\ Len(c) = n /\ \A k \in 1..n : c[k].info = p.info /\ (c[k].socket => k = 1 /\ p.host = ".")
  <2>1. Connects(c, p, n)
    BY <1>0, <1>2, PoolConnected
  <2> QED
    BY <2>1 DEF Connects
<1>4. s \in Seq(Connection) /\ m \in Nat /\ m = Len(s)
  BY <1>1, <1>2
<1>5. PICK r : r = IF n < Loader!Threads(type) /\ how = "connect" THEN <<>> ELSE s \o c
  OBVIOUS
<1>6. /\ r \in Seq(Connection) /\ Len(r) \in Nat
      /\ \A k \in 1..Len(r) : \/ k \in 1..m /\ r[k] = s[k]
                              \/ k - m \in 1..n /\ r[k] = c[k - m]
      /\ n = Loader!Threads(type) => Len(r) = m + n
      /\ Len(r) <= m + n
  <2>1. CASE r = <<>> /\ n < Loader!Threads(type)
    <3>1. Len(<<>>) = 0 /\ <<>> \in Seq(Connection)
      OBVIOUS
    <3> QED
      BY <1>0, <1>3, <1>4, <2>1, <3>1
  <2>2. CASE r = s \o c
    <3>1. r \in Seq(Connection) /\ Len(r) = m + n
      BY <1>3, <1>4, <2>2, ConcatProperties
    <3>2. ASSUME NEW k \in 1..Len(r)
          PROVE  (k \in 1..m /\ r[k] = s[k]) \/ (k - m \in 1..n /\ r[k] = c[k - m])
      <4>1. r[k] = IF k <= m THEN s[k] ELSE c[k - m]
        BY <1>3, <1>4, <2>2, <3>1, ConcatProperties
      <4> QED
        BY <1>0, <1>4, <3>1, <4>1
    <3> QED
      BY <1>0, <1>4, <3>1, <3>2
  <2> QED
    BY <1>5, <2>1, <2>2
<1>7. PICK host : host = IF p.host = "." /\ (n > 0 \/ n < Loader!Threads(type)) THEN "localhost" ELSE p.host
  OBVIOUS
<1>8. PICK down \in BOOLEAN : down = (p.shutdown \/ (n < Loader!Threads(type) /\ type = "async"))
  OBVIOUS
<1>9. q = [p EXCEPT !.connections = [p.connections EXCEPT ![type] = r], !.host = host, !.shutdown = down]
  <2>1. q = [p EXCEPT !.connections = [p.connections EXCEPT ![type] = r], !.host = host,
                      !.shutdown = (p.shutdown \/ (n < Loader!Threads(type) /\ type = "async"))]
    BY <1>2, <1>5, <1>7 DEF Loader!OpenConnections
  <2> QED
    BY <1>8, <2>1
<1>10. host \in Hosts /\ (host = "." => p.host = "." /\ n = 0)
  <2>1. CASE p.host = "." /\ (n > 0 \/ n < Loader!Threads(type))
    <3>1. host = "localhost"
      BY <1>7, <2>1
    <3> QED
      BY <3>1 DEF Hosts
  <2>2. CASE ~(p.host = "." /\ (n > 0 \/ n < Loader!Threads(type)))
    <3>1. host = p.host
      BY <1>7, <2>2
    <3>2. p.host = "." => n = 0
      BY <1>0, <2>2
    <3> QED
      BY <1>1, <3>1, <3>2
  <2> QED
    BY <2>1, <2>2
<1>11. [p.connections EXCEPT ![type] = r] \in [Loader!Types -> Seq(Connection)]
  BY <1>1, <1>6
<1>12. /\ q \in DbPool /\ q.info = p.info /\ q.host = host /\ q.shutdown = down
       /\ q.connections = [p.connections EXCEPT ![type] = r]
  BY <1>0, <1>1, <1>8, <1>9, <1>10, <1>11 DEF DbPool
<1>13. /\ q.connections[type] = r /\ \A u \in Loader!Types : u # type => q.connections[u] = p.connections[u]
  BY <1>1, <1>12
<1>14. q.host = "." => NewInfo(q, type)
  <2>1. SUFFICES ASSUME q.host = ".", NEW k \in 1..Len(r) PROVE r[k].info # p.info
    BY <1>12, <1>13 DEF NewInfo
  <2>2. n = 0
    BY <1>10, <1>12, <2>1
  <2>3. k \in 1..m /\ r[k] = s[k]
    BY <1>4, <1>6, <2>2
  <2> QED
    BY <1>2, <2>3 DEF NewInfo
<1>15. ASSUME n = Loader!Threads(type)
       PROVE  /\ q.shutdown = p.shutdown /\ Len(q.connections[type]) = Len(p.connections[type]) + n
              /\ \A k \in 1..Len(q.connections[type]) :
                   k > Len(p.connections[type]) => q.connections[type][k].info = p.info
  <2>1. Len(r) = m + n /\ ~(n < Loader!Threads(type))
    BY <1>0, <1>6, <1>15
  <2>2. q.shutdown = p.shutdown
    BY <1>1, <1>8, <1>12, <2>1
  <2>3. ASSUME NEW k \in 1..Len(r), k > m PROVE r[k].info = p.info
    <3>1. k - m \in 1..n /\ r[k] = c[k - m]
      BY <1>4, <1>6, <2>3
    <3> QED
      BY <1>3, <3>1
  <2> QED
    BY <1>2, <1>13, <2>1, <2>2, <2>3
<1>16. ASSUME NEW k \in 1..Len(r) PROVE r[k].info <= p.info
  <2>1. CASE k \in 1..m /\ r[k] = s[k]
    <3>1. s[k].info <= p.info
      BY <1>2, <2>1 DEF PoolInv
    <3> QED
      BY <2>1, <3>1
  <2>2. CASE k - m \in 1..n /\ r[k] = c[k - m]
    BY <1>1, <1>3, <2>2
  <2> QED
    BY <1>6, <2>1, <2>2
<1>17. ASSUME NEW u \in Loader!Types, NEW k \in 1..Len(q.connections[u]) PROVE q.connections[u][k].info <= q.info
  <2>1. CASE u = type
    BY <1>12, <1>13, <1>16, <1>17, <2>1
  <2>2. CASE u # type
    <3>1. k \in 1..Len(p.connections[u]) /\ q.connections[u] = p.connections[u]
      BY <1>13, <1>17, <2>2
    <3> QED
      BY <1>12, <3>1 DEF PoolInv
  <2> QED
    BY <2>1, <2>2
<1>18. ASSUME NEW k \in 1..Len(r), r[k].socket
       PROVE  /\ \A j \in 1..(k - 1) : r[j].info # r[k].info
              /\ type = "synch" => \A j \in 1..Len(p.connections["async"]) : p.connections["async"][j].info # r[k].info
  <2>1. CASE k \in 1..m /\ r[k] = s[k]
    <3>1. /\ \A j \in 1..(k - 1) : s[j].info # s[k].info
          /\ type = "synch" => \A j \in 1..Len(p.connections["async"]) : p.connections["async"][j].info # s[k].info
      BY <1>2, <1>18, <2>1 DEF PoolInv, Loader!OneSocket
    <3>2. ASSUME NEW j \in 1..(k - 1) PROVE r[j].info # r[k].info
      <4>1. j \in 1..Len(r) /\ j \in 1..m /\ ~(j - m \in 1..n)
        BY <1>4, <1>6, <2>1
      <4>2. r[j] = s[j]
        BY <1>6, <4>1
      <4> QED
        BY <2>1, <3>1, <4>2
    <3> QED
      BY <2>1, <3>1, <3>2
  <2>2. CASE k - m \in 1..n /\ r[k] = c[k - m]
    <3>1. c[k - m].info = p.info /\ (c[k - m].socket => k - m = 1 /\ p.host = ".")
      BY <1>3, <2>2
    <3>2. k - m = 1 /\ p.host = "." /\ r[k].info = p.info
      BY <1>18, <2>2, <3>1
    <3>3. ASSUME NEW j \in 1..(k - 1) PROVE r[j].info # r[k].info
      <4>1. j \in 1..Len(r) /\ j \in 1..m /\ ~(j - m \in 1..n)
        BY <1>4, <1>6, <3>2
      <4>2. r[j] = s[j]
        BY <1>6, <4>1
      <4>3. s[j].info # p.info
        BY <1>2, <4>1 DEF NewInfo
      <4> QED
        BY <3>2, <4>2, <4>3
    <3>4. type = "synch" => \A j \in 1..Len(p.connections["async"]) : p.connections["async"][j].info # r[k].info
      BY <3>2 DEF NewInfo
    <3> QED
      BY <3>3, <3>4
  <2> QED
    BY <1>6, <2>1, <2>2
<1>19. Loader!OneSocket(q)
  <2>1. SUFFICES ASSUME NEW u \in Loader!Types, NEW k \in 1..Len(q.connections[u]), q.connections[u][k].socket
                 PROVE  /\ \A j \in 1..(k - 1) : q.connections[u][j].info # q.connections[u][k].info
                        /\ u = "synch" => \A j \in 1..Len(q.connections["async"]) :
                                             q.connections["async"][j].info # q.connections["synch"][k].info
    BY DEF Loader!OneSocket
  <2>2. CASE u = type
    <3>1. /\ \A j \in 1..(k - 1) : r[j].info # r[k].info
          /\ type = "synch" => \A j \in 1..Len(p.connections["async"]) : p.connections["async"][j].info # r[k].info
      BY <1>13, <1>18, <2>1, <2>2
    <3>2. type = "synch" => q.connections["async"] = p.connections["async"]
      BY <1>1, <1>13
    <3> QED
      BY <1>13, <2>2, <3>1, <3>2
  <2>3. CASE u # type
    <3>1. q.connections[u] = p.connections[u] /\ k \in 1..Len(p.connections[u]) /\ p.connections[u][k].socket
      BY <1>13, <2>1, <2>3
    <3>2. /\ \A j \in 1..(k - 1) : p.connections[u][j].info # p.connections[u][k].info
          /\ u = "synch" => \A j \in 1..Len(p.connections["async"]) :
                               p.connections["async"][j].info # p.connections["synch"][k].info
      BY <3>1 DEF PoolInv, Loader!OneSocket
    <3>3. ASSUME u = "synch", NEW j \in 1..Len(q.connections["async"])
          PROVE  q.connections["async"][j].info # q.connections["synch"][k].info
      <4>1. type = "async" /\ q.connections["async"] = r /\ q.connections["synch"] = p.connections["synch"]
        BY <1>13, <2>3, <3>1, <3>3 DEF Loader!Types
      <4>2. p.connections["synch"][k].info # p.info
        BY <3>1, <3>3, <4>1 DEF NewInfo
      <4>3. CASE j \in 1..m /\ r[j] = s[j]
        BY <1>2, <3>2, <3>3, <4>1, <4>3
      <4>4. CASE j - m \in 1..n /\ r[j] = c[j - m]
        BY <1>3, <4>1, <4>2, <4>4
      <4> QED
        BY <1>6, <3>3, <4>1, <4>3, <4>4
    <3> QED
      BY <3>1, <3>2, <3>3
  <2> QED
    BY <2>2, <2>3
<1>20. PoolInv(q)
  BY <1>12, <1>17, <1>19 DEF PoolInv
<1> QED
  BY <1>12, <1>13, <1>14, <1>15, <1>20 DEF Opens

\* All connections of the pool are open and refer to its connection info.
Full(p) == \A type \in Loader!Types :
  /\ Len(p.connections[type]) = Loader!Threads(type)
  /\ \A k \in 1..Len(p.connections[type]) : p.connections[type][k].info = p.info

\* An Open that succeeds.
LEMMA PoolOpened ==
  ASSUME NEW p, PoolInv(p), NEW q,
         q = Loader!OpenConnections(Loader!OpenConnections(Loader!WithInfo(p), "async", AsyncCount, "ok"),
                                    "synch", SynchCount, "ok")
  PROVE  PoolInv(q) /\ q.shutdown = p.shutdown /\ (p.connections = Loader!NoConnections => Full(q))
<1>0. /\ "async" \in Loader!Types /\ "synch" \in Loader!Types
      /\ Loader!Threads("async") = AsyncCount /\ Loader!Threads("synch") = SynchCount
      /\ AsyncCount \in 0..AsyncCount /\ SynchCount \in 0..SynchCount
  BY LoaderConstants DEF Loader!Types, Loader!Threads
<1>1. PICK a : a = Loader!WithInfo(p)
  OBVIOUS
<1>2. PICK b : b = Loader!OpenConnections(a, "async", AsyncCount, "ok")
  OBVIOUS
<1>3. q = Loader!OpenConnections(b, "synch", SynchCount, "ok")
  BY <1>1, <1>2
<1>4. /\ PoolInv(a) /\ a.connections = p.connections /\ a.shutdown = p.shutdown
      /\ NewInfo(a, "async") /\ NewInfo(a, "synch")
  BY <1>1, PoolWithInfo
<1>5. /\ PoolInv(b) /\ b.info = a.info /\ (b.host = "." => NewInfo(b, "async"))
      /\ b.connections["synch"] = a.connections["synch"]
      /\ b.shutdown = a.shutdown /\ Len(b.connections["async"]) = Len(a.connections["async"]) + AsyncCount
      /\ \A k \in 1..Len(b.connections["async"]) :
           k > Len(a.connections["async"]) => b.connections["async"][k].info = a.info
  <2>1. "synch" # "async"
    OBVIOUS
  <2>2. AsyncCount \in 0..Loader!Threads("async")
    BY <1>0
  <2>3. Opens(a, "async", AsyncCount, b)
    BY <1>0, <1>2, <1>4, <2>1, <2>2, PoolOpen
  <2> QED
    BY <1>0, <2>1, <2>3 DEF Opens
<1>6. NewInfo(b, "synch")
  BY <1>4, <1>5 DEF NewInfo
<1>7. /\ PoolInv(q) /\ q.info = b.info /\ q.connections["async"] = b.connections["async"]
      /\ q.shutdown = b.shutdown /\ Len(q.connections["synch"]) = Len(b.connections["synch"]) + SynchCount
      /\ \A k \in 1..Len(q.connections["synch"]) :
           k > Len(b.connections["synch"]) => q.connections["synch"][k].info = b.info
  <2>1. "synch" # "async"
    OBVIOUS
  <2>2. SynchCount \in 0..Loader!Threads("synch")
    BY <1>0
  <2>3. Opens(b, "synch", SynchCount, q)
    BY <1>0, <1>3, <1>5, <1>6, <2>1, <2>2, PoolOpen
  <2> QED
    BY <1>0, <2>1, <2>3 DEF Opens
<1>8. ASSUME p.connections = Loader!NoConnections PROVE Full(q)
  <2>1. Len(<<>>) = 0
    OBVIOUS
  <2>2. Len(a.connections["async"]) = 0 /\ Len(b.connections["synch"]) = 0
    BY <1>0, <1>4, <1>5, <1>8, <2>1 DEF Loader!NoConnections
  <2>3. ASSUME NEW type \in Loader!Types
        PROVE  /\ Len(q.connections[type]) = Loader!Threads(type)
               /\ \A k \in 1..Len(q.connections[type]) : q.connections[type][k].info = q.info
    <3>1. CASE type = "async"
      BY <1>0, <1>5, <1>7, <2>2, <3>1, LoaderConstants
    <3>2. CASE type = "synch"
      BY <1>0, <1>7, <2>2, <3>2, LoaderConstants
    <3> QED
      BY <2>3, <3>1, <3>2 DEF Loader!Types
  <2> QED
    BY <2>3 DEF Full
<1> QED
  BY <1>4, <1>5, <1>7, <1>8

\* An Open that fails.
LEMMA PoolFails ==
  ASSUME NEW p, PoolInv(p), NEW type \in Loader!Types, NEW n \in Nat, n < Loader!Threads(type), NEW how, NEW q,
         q = Loader!OpenConnections(IF type = "async" THEN Loader!WithInfo(p)
                                    ELSE Loader!OpenConnections(Loader!WithInfo(p), "async", AsyncCount, "ok"),
                                    type, n, how)
  PROVE  PoolInv(q)
<1>0. /\ "async" \in Loader!Types /\ "synch" \in Loader!Types
      /\ Loader!Threads("async") = AsyncCount /\ Loader!Threads("synch") = SynchCount
      /\ AsyncCount \in 0..Loader!Threads("async") /\ n \in 0..Loader!Threads(type)
  <2>1. Loader!Threads("async") = AsyncCount /\ Loader!Threads("synch") = SynchCount /\ Loader!Threads(type) \in Nat
    BY LoaderConstants DEF Loader!Threads
  <2> QED
    BY <2>1, LoaderConstants DEF Loader!Types
<1>1. PICK a : a = Loader!WithInfo(p)
  OBVIOUS
<1>2. /\ PoolInv(a) /\ NewInfo(a, "async") /\ NewInfo(a, "synch")
  BY <1>1, PoolWithInfo
<1>3. CASE type = "async"
  <2>1. q = Loader!OpenConnections(a, "async", n, how) /\ "async" # "synch" /\ n \in 0..Loader!Threads("async")
    BY <1>0, <1>1, <1>3
  <2> QED
    BY <1>0, <1>2, <2>1, PoolOpen DEF Opens
<1>4. CASE type = "synch"
  <2>1. PICK b : b = Loader!OpenConnections(a, "async", AsyncCount, "ok")
    OBVIOUS
  <2>2. /\ q = Loader!OpenConnections(b, "synch", n, how) /\ "async" # "synch" /\ n \in 0..Loader!Threads("synch")
    BY <1>0, <1>1, <1>4, <2>1
  <2>3. /\ PoolInv(b) /\ b.info = a.info /\ (b.host = "." => NewInfo(b, "async"))
        /\ b.connections["synch"] = a.connections["synch"]
    <3>1. Opens(a, "async", AsyncCount, b)
      BY <1>0, <1>2, <2>1, <2>2, PoolOpen
    <3> QED
      BY <1>0, <2>2, <3>1 DEF Opens
  <2>4. NewInfo(b, "synch")
    BY <1>2, <2>3 DEF NewInfo
  <2> QED
    BY <1>0, <2>2, <2>3, <2>4, PoolOpen DEF Opens
<1> QED
  BY <1>3, <1>4 DEF Loader!Types

\* Close.
LEMMA PoolClosed ==
  ASSUME NEW p, PoolInv(p), NEW q, q = Loader!Closed(p)
  PROVE  PoolInv(q) /\ q.connections = Loader!NoConnections
<1>0. p \in DbPool
  BY DEF PoolInv
<1>1. PICK down \in BOOLEAN : down = (p.shutdown \/ p.connections["async"] # <<>>)
  OBVIOUS
<1>2. q = [p EXCEPT !.connections = Loader!NoConnections, !.shutdown = down]
  <2>1. q = [p EXCEPT !.connections = Loader!NoConnections, !.shutdown = (p.shutdown \/ p.connections["async"] # <<>>)]
    BY DEF Loader!Closed
  <2> QED
    BY <1>1, <2>1
<1>3. Loader!NoConnections \in [Loader!Types -> Seq(Connection)]
  BY DEF Loader!NoConnections
<1>4. q \in DbPool /\ q.connections = Loader!NoConnections
  BY <1>0, <1>1, <1>2, <1>3 DEF DbPool
<1>5. \A type \in Loader!Types : Len(q.connections[type]) = 0
  <2>1. Len(<<>>) = 0
    OBVIOUS
  <2> QED
    BY <1>4, <2>1 DEF Loader!NoConnections
<1>6. \A type \in Loader!Types : \A k \in 1..Len(q.connections[type]) : FALSE
  BY <1>5
<1> QED
  BY <1>4, <1>6 DEF PoolInv, Loader!OneSocket

\* All connections of the pool are prepared.
AllPrepared(p) == \A type \in Loader!Types : \A k \in 1..Len(p.connections[type]) : p.connections[type][k].prepared

\* What PrepareStatements makes of p.
Prepares(p, q) ==
  /\ PoolInv(q) /\ q.info = p.info /\ q.shutdown = p.shutdown /\ AllPrepared(q)
  /\ \A type \in Loader!Types :
       /\ Len(q.connections[type]) = Len(p.connections[type])
       /\ \A k \in 1..Len(q.connections[type]) : q.connections[type][k].info = p.connections[type][k].info
  /\ p.connections = Loader!NoConnections => q.connections = Loader!NoConnections

\* PrepareStatements that succeeds.
LEMMA PoolPrepared ==
  ASSUME NEW p, PoolInv(p), NEW q, q = Loader!Prepared(p)
  PROVE  Prepares(p, q)
<1>0. p \in DbPool
  BY DEF PoolInv
<1>1. /\ p.info \in Nat /\ p.shutdown \in BOOLEAN /\ p.host \in Hosts
      /\ p.connections \in [Loader!Types -> Seq(Connection)]
      /\ \A type \in Loader!Types :
           /\ p.connections[type] \in Seq(Connection) /\ Len(p.connections[type]) \in Nat
           /\ \A k \in 1..Len(p.connections[type]) : p.connections[type][k] \in Connection
  BY <1>0, PoolTyped
<1>2. PICK cs : cs = [type \in Loader!Types |-> [k \in DOMAIN p.connections[type] |->
                                                   [p.connections[type][k] EXCEPT !.prepared = TRUE]]]
  OBVIOUS
<1>3. q = [p EXCEPT !.connections = cs]
  BY <1>2 DEF Loader!Prepared
<1>4. ASSUME NEW type \in Loader!Types
      PROVE  /\ cs[type] \in Seq(Connection) /\ Len(cs[type]) = Len(p.connections[type])
             /\ \A k \in 1..Len(p.connections[type]) :
                  /\ cs[type][k].info = p.connections[type][k].info
                  /\ cs[type][k].socket = p.connections[type][k].socket
                  /\ cs[type][k].prepared
  <2>1. PICK s : s = p.connections[type]
    OBVIOUS
  <2>2. s \in Seq(Connection) /\ Len(s) \in Nat /\ DOMAIN s = 1..Len(s)
    BY <1>1, <2>1
  <2>3. cs[type] = [k \in 1..Len(s) |-> [s[k] EXCEPT !.prepared = TRUE]]
    BY <1>2, <2>1, <2>2
  <2>4. ASSUME NEW k \in 1..Len(s)
        PROVE  /\ cs[type][k] \in Connection /\ cs[type][k].info = s[k].info
               /\ cs[type][k].socket = s[k].socket /\ cs[type][k].prepared
    <3>1. cs[type][k] = [s[k] EXCEPT !.prepared = TRUE]
      BY <2>3
    <3>2. s[k] \in Connection
      BY <2>2
    <3> QED
      BY <3>1, <3>2 DEF Connection
  <2>5. cs[type] \in [1..Len(s) -> Connection]
    BY <2>3, <2>4
  <2>6. cs[type] \in Seq(Connection) /\ Len(cs[type]) = Len(s)
    BY <2>2, <2>5
  <2> QED
    BY <2>1, <2>4, <2>6
<1>5. cs \in [Loader!Types -> Seq(Connection)]
  BY <1>2, <1>4
<1>6. q \in DbPool /\ q.connections = cs /\ q.info = p.info /\ q.shutdown = p.shutdown
  BY <1>0, <1>3, <1>5 DEF DbPool
<1>7. Loader!OneSocket(q)
  <2>1. SUFFICES ASSUME NEW u \in Loader!Types, NEW k \in 1..Len(cs[u]), cs[u][k].socket
                 PROVE  /\ \A j \in 1..(k - 1) : cs[u][j].info # cs[u][k].info
                        /\ u = "synch" => \A j \in 1..Len(cs["async"]) :
                                             cs["async"][j].info # cs["synch"][k].info
    BY <1>6 DEF Loader!OneSocket
  <2>2. /\ k \in 1..Len(p.connections[u]) /\ p.connections[u][k].socket /\ Len(p.connections[u]) \in Nat
        /\ cs[u][k].info = p.connections[u][k].info
    BY <1>1, <1>4, <2>1
  <2>3. /\ \A j \in 1..(k - 1) : p.connections[u][j].info # p.connections[u][k].info
        /\ u = "synch" => \A j \in 1..Len(p.connections["async"]) :
                             p.connections["async"][j].info # p.connections["synch"][k].info
    BY <2>2 DEF PoolInv, Loader!OneSocket
  <2>4. ASSUME NEW j \in 1..(k - 1) PROVE cs[u][j].info # cs[u][k].info
    <3>1. j \in 1..Len(p.connections[u])
      BY <2>2, <2>4
    <3> QED
      BY <1>4, <2>2, <2>3, <3>1
  <2>5. ASSUME u = "synch", NEW j \in 1..Len(cs["async"]) PROVE cs["async"][j].info # cs["synch"][k].info
    <3>1. "async" \in Loader!Types
      BY DEF Loader!Types
    <3> QED
      BY <1>4, <2>2, <2>3, <2>5, <3>1
  <2> QED
    BY <2>4, <2>5
<1>8. PoolInv(q)
  BY <1>4, <1>6, <1>7 DEF PoolInv
<1>9. ASSUME p.connections = Loader!NoConnections PROVE q.connections = Loader!NoConnections
  <2>1. ASSUME NEW type \in Loader!Types PROVE cs[type] = <<>>
    <3>1. p.connections[type] = <<>> /\ Len(<<>>) = 0
      BY <1>9 DEF Loader!NoConnections
    <3>2. Len(cs[type]) = 0 /\ cs[type] \in Seq(Connection)
      BY <1>4, <3>1
    <3> QED
      BY <3>2, EmptySeq
  <2>2. cs = [type \in Loader!Types |-> <<>>]
    BY <1>2, <2>1
  <2> QED
    BY <1>6, <2>2 DEF Loader!NoConnections
<1> QED
  BY <1>4, <1>6, <1>8, <1>9 DEF AllPrepared, Prepares

\* x is an element of s.
IsIn(x, s) == \E k \in 1..Len(s) : s[k] = x

\* No Load has returned false.
NoFailure == FALSE \notin Loader!ToSet(answers)

\* The types; a pool waits at most once to be opened.
LoaderType ==
  /\ _open \in Seq(Loader!Pools) /\ _prepare \in Seq(Loader!Pools) /\ _close \in Seq(Loader!Pools)
  /\ loading \in {"no", "open", "prepare"} /\ answers \in Seq(BOOLEAN)
  /\ pool = [p \in Loader!Pools |-> pool[p]] /\ \A p \in Loader!Pools : PoolInv(pool[p])
  /\ \A i, j \in 1..Len(_open) : _open[i] = _open[j] => i = j

\* A pool with connections is going to be closed, or its Open has failed.
LoaderClosed ==
  /\ \A p \in Loader!Pools :
       pool[p].connections # Loader!NoConnections => IsIn(p, _close) \/ (_open # <<>> /\ p = Head(_open))
  /\ answers # <<>> /\ loading = "no" /\ ~Loader!Last(answers) => _close = <<>>
  /\ loading = "prepare" => _open = <<>>

\* Before the first Load.
LoaderAdding ==
  answers = <<>> /\ loading = "no" =>
    /\ Len(_open) <= Len(Databases) /\ \A k \in 1..Len(_open) : _open[k] = Databases[k]
    /\ _prepare = _open /\ _close = <<>>

\* As long as no Load has returned false the workers are alive, the connections
\* refer to the connection info of their pool, and a pool that is to be opened has none.
LoaderCurrent ==
  NoFailure =>
    /\ \A p \in Loader!Pools :
         /\ ~pool[p].shutdown
         /\ \A type \in Loader!Types : \A k \in 1..Len(pool[p].connections[type]) :
              pool[p].connections[type][k].info = pool[p].info
    /\ \A k \in 1..Len(_open) : pool[_open[k]].connections = Loader!NoConnections

\* During the first Load a pool is full or waits to be opened, and is prepared or
\* waits for it; after a Load that returned true nothing waits.
LoaderFirst ==
  /\ answers = <<>> => \A k \in 1..Len(_open) : IsIn(_open[k], _prepare)
  /\ answers = <<>> /\ loading # "no" =>
       \A p \in Loader!Pools : /\ IsIn(p, _open) \/ Full(pool[p])
                               /\ IsIn(p, _prepare) \/ AllPrepared(pool[p])
  /\ answers # <<>> /\ NoFailure =>
       /\ _open = <<>> /\ _prepare = <<>>
       /\ \A p \in Loader!Pools : Full(pool[p]) /\ AllPrepared(pool[p])

\* The inductive invariant of the loader.
LoaderInv == LoaderType /\ LoaderClosed /\ LoaderAdding /\ LoaderCurrent /\ LoaderFirst

\* The first element and the others.
LEMMA HeadAndTail ==
  ASSUME NEW S, NEW s \in Seq(S), s # <<>>
  PROVE  /\ Head(s) \in S /\ Tail(s) \in Seq(S) /\ Len(s) \in Nat /\ Len(Tail(s)) = Len(s) - 1
         /\ 1 \in 1..Len(s) /\ Head(s) = s[1]
         /\ \A k \in 1..Len(Tail(s)) : k + 1 \in 1..Len(s) /\ Tail(s)[k] = s[k + 1]
         /\ \A x : IsIn(x, s) => x = Head(s) \/ IsIn(x, Tail(s))
<1>1. /\ Head(s) \in S /\ Tail(s) \in Seq(S) /\ Len(s) \in Nat /\ Len(Tail(s)) = Len(s) - 1
      /\ 1 \in 1..Len(s) /\ Head(s) = s[1]
      /\ \A k \in 1..Len(Tail(s)) : k + 1 \in 1..Len(s) /\ Tail(s)[k] = s[k + 1]
  OBVIOUS
<1>2. ASSUME NEW x, IsIn(x, s), x # Head(s) PROVE IsIn(x, Tail(s))
  <2>1. PICK k \in 1..Len(s) : s[k] = x
    BY <1>2 DEF IsIn
  <2>2. k - 1 \in 1..Len(Tail(s)) /\ (k - 1) + 1 = k
    BY <1>1, <1>2, <2>1
  <2>3. Tail(s)[k - 1] = x
    BY <1>1, <2>1, <2>2
  <2> QED
    BY <2>2, <2>3 DEF IsIn
<1> QED
  BY <1>1, <1>2

\* What a Load returns is remembered.
LEMMA LoaderAnswers ==
  ASSUME answers \in Seq(BOOLEAN), NEW b \in BOOLEAN, answers' = Append(answers, b)
  PROVE  /\ answers' \in Seq(BOOLEAN) /\ answers' # <<>> /\ Loader!Last(answers)' = b
         /\ NoFailure' => NoFailure /\ b
<1>1. /\ answers' \in Seq(BOOLEAN) /\ Len(answers) \in Nat /\ Len(answers') = Len(answers) + 1
      /\ DOMAIN answers' = 1..Len(answers') /\ DOMAIN answers = 1..Len(answers)
      /\ \A k \in 1..Len(answers) : answers'[k] = answers[k]
      /\ answers'[Len(answers) + 1] = b
  OBVIOUS
<1>2. answers' # <<>>
  BY <1>1
<1>3. Loader!Last(answers)' = b
  BY <1>1 DEF Loader!Last
<1>4. ASSUME NoFailure' PROVE NoFailure /\ b
  <2>1. \A k \in DOMAIN answers' : answers'[k] # FALSE
    BY <1>4 DEF NoFailure, Loader!ToSet
  <2>2. Len(answers) + 1 \in DOMAIN answers' /\ \A k \in 1..Len(answers) : k \in DOMAIN answers'
    BY <1>1
  <2>3. b # FALSE /\ \A k \in 1..Len(answers) : answers[k] # FALSE
    BY <1>1, <2>1, <2>2
  <2>4. b
    BY <2>3, Zenon
  <2>5. NoFailure
    BY <1>1, <2>3 DEF NoFailure, Loader!ToSet
  <2> QED
    BY <2>4, <2>5
<1> QED
  BY <1>1, <1>2, <1>3, <1>4

\* Load returns false: the pools with a close operation are closed.
LEMMA LoaderFails ==
  ASSUME LoaderInv, NEW ps, ps = [p \in Loader!Pools |-> ps[p]], \A p \in Loader!Pools : PoolInv(ps[p]),
         \A p \in Loader!Pools :
            ps[p].connections # Loader!NoConnections => IsIn(p, _close) \/ (_open # <<>> /\ p = Head(_open)),
         pool' = [p \in Loader!Pools |-> IF IsIn(p, _close) THEN Loader!Closed(ps[p]) ELSE ps[p]],
         _close' = <<>>, loading' = "no", answers' = Append(answers, FALSE), _open' = _open, _prepare' = _prepare
  PROVE  LoaderInv'
<1>0. LoaderType
  BY DEF LoaderInv
<1>1. answers' \in Seq(BOOLEAN) /\ answers' # <<>> /\ ~NoFailure'
  <2>1. FALSE \in BOOLEAN /\ answers \in Seq(BOOLEAN)
    BY <1>0 DEF LoaderType
  <2> QED
    BY <2>1, LoaderAnswers
<1>2. ASSUME NEW p \in Loader!Pools
      PROVE  /\ PoolInv(pool'[p])
             /\ pool'[p].connections # Loader!NoConnections => _open # <<>> /\ p = Head(_open)
  <2>1. CASE IsIn(p, _close)
    <3>1. pool'[p] = Loader!Closed(ps[p])
      BY <2>1
    <3> QED
      BY <3>1, PoolClosed
  <2>2. CASE ~IsIn(p, _close)
    <3>1. pool'[p] = ps[p]
      BY <2>2
    <3> QED
      BY <2>2, <3>1
  <2> QED
    BY <2>1, <2>2
<1>3. pool' = [p \in Loader!Pools |-> pool'[p]]
  OBVIOUS
<1>4. <<>> \in Seq(Loader!Pools)
  OBVIOUS
<1>5. LoaderType'
  BY <1>0, <1>1, <1>2, <1>3, <1>4 DEF LoaderType, Loader!Pools
<1>6. LoaderClosed'
  BY <1>2 DEF LoaderClosed, Loader!Pools
<1>7. LoaderAdding' /\ LoaderCurrent' /\ LoaderFirst'
  BY <1>1 DEF LoaderAdding, LoaderCurrent, LoaderFirst
<1> QED
  BY <1>5, <1>6, <1>7 DEF LoaderInv

\* In the beginning no pool has connections.
LEMMA LoaderInit == Loader!Init => LoaderInv
<1> SUFFICES ASSUME Loader!Init PROVE LoaderInv
  OBVIOUS
<1>0. /\ _open = <<>> /\ _prepare = <<>> /\ _close = <<>> /\ loading = "no" /\ answers = <<>>
      /\ pool = [p \in Loader!Pools |-> [info |-> 0, host |-> "", connections |-> Loader!NoConnections,
                                          shutdown |-> FALSE]]
  BY DEF Loader!Init
<1>1. Len(<<>>) = 0 /\ DOMAIN <<>> = {} /\ <<>> \in Seq(Loader!Pools) /\ <<>> \in Seq(BOOLEAN)
  OBVIOUS
<1>2. ASSUME NEW p \in Loader!Pools
      PROVE  /\ PoolInv(pool[p]) /\ ~pool[p].shutdown /\ pool[p].connections = Loader!NoConnections
             /\ \A type \in Loader!Types : Len(pool[p].connections[type]) = 0
  <2>1. pool[p] = [info |-> 0, host |-> "", connections |-> Loader!NoConnections, shutdown |-> FALSE]
    BY <1>0
  <2>2. Loader!NoConnections \in [Loader!Types -> Seq(Connection)]
    BY DEF Loader!NoConnections
  <2>3. pool[p] \in DbPool /\ pool[p].connections = Loader!NoConnections /\ ~pool[p].shutdown
    <3>1. PICK h \in Hosts : h = ""
      BY DEF Hosts
    <3>2. pool[p] = [info |-> 0, host |-> h, connections |-> Loader!NoConnections, shutdown |-> FALSE]
      BY <2>1, <3>1
    <3> QED
      BY <2>2, <3>2 DEF DbPool
  <2>4. \A type \in Loader!Types : Len(pool[p].connections[type]) = 0
    BY <1>1, <2>3 DEF Loader!NoConnections
  <2>5. \A type \in Loader!Types : \A k \in 1..Len(pool[p].connections[type]) : FALSE
    BY <2>4
  <2> QED
    BY <2>3, <2>4, <2>5 DEF PoolInv, Loader!OneSocket
<1>3. \A k \in 1..Len(<<>>) : FALSE
  BY <1>1
<1>4. LoaderType
  BY <1>0, <1>1, <1>2, <1>3 DEF LoaderType
<1>5. LoaderClosed
  BY <1>0, <1>2 DEF LoaderClosed
<1>6. LoaderAdding
  <2>1. Len(Databases) \in Nat
    BY LoaderConstants
  <2>2. Len(_open) <= Len(Databases)
    <3>1. _open = <<>>
      BY <1>0
    <3>2. 0 <= Len(Databases)
      BY <2>1
    <3> QED
      BY <1>1, <3>1, <3>2
  <2>3. ASSUME NEW k \in 1..Len(_open) PROVE FALSE
    BY <1>0, <1>3, <2>3
  <2> QED
    BY <1>0, <2>2, <2>3 DEF LoaderAdding
<1>7. LoaderCurrent
  <2>1. ASSUME NEW p \in Loader!Pools, NEW type \in Loader!Types, NEW k \in 1..Len(pool[p].connections[type])
        PROVE  pool[p].connections[type][k].info = pool[p].info
    <3>1. k \in 1..0
      BY <1>2, <2>1
    <3> QED
      BY <3>1
  <2> QED
    BY <1>0, <1>2, <1>3, <2>1 DEF LoaderCurrent
<1>8. LoaderFirst
  BY <1>0, <1>3 DEF LoaderFirst
<1> QED
  BY <1>4, <1>5, <1>6, <1>7, <1>8 DEF LoaderInv

\* What the invariant says of the state, without the cases.
LEMMA LoaderFacts ==
  ASSUME LoaderInv
  PROVE  /\ LoaderType /\ LoaderClosed /\ LoaderAdding /\ LoaderCurrent /\ LoaderFirst
         /\ _open \in Seq(Loader!Pools) /\ _prepare \in Seq(Loader!Pools) /\ _close \in Seq(Loader!Pools)
         /\ answers \in Seq(BOOLEAN) /\ loading \in {"no", "open", "prepare"}
         /\ pool = [p \in Loader!Pools |-> pool[p]] /\ \A p \in Loader!Pools : PoolInv(pool[p])
         /\ \A i, j \in 1..Len(_open) : _open[i] = _open[j] => i = j
         /\ Len(_open) \in Nat /\ Len(Databases) \in Nat
  BY LoaderConstants DEF LoaderInv, LoaderType

\* Before the first Load no Load has returned false.
LEMMA LoaderNoAnswer == answers = <<>> => NoFailure
<1> SUFFICES ASSUME answers = <<>> PROVE NoFailure
  OBVIOUS
<1>1. DOMAIN <<>> = {}
  OBVIOUS
<1> QED
  BY <1>1 DEF NoFailure, Loader!ToSet

\* AddDatabase.
LEMMA LoaderAddDatabase == ASSUME LoaderInv, Loader!AddDatabase PROVE LoaderInv'
<1>0. /\ LoaderType /\ LoaderClosed /\ LoaderAdding /\ LoaderCurrent /\ LoaderFirst
      /\ _open \in Seq(Loader!Pools) /\ _prepare \in Seq(Loader!Pools) /\ _close \in Seq(Loader!Pools)
      /\ pool = [p \in Loader!Pools |-> pool[p]] /\ \A p \in Loader!Pools : PoolInv(pool[p])
      /\ \A i, j \in 1..Len(_open) : _open[i] = _open[j] => i = j
      /\ Len(_open) \in Nat /\ Len(Databases) \in Nat
  BY LoaderFacts
<1>p. PICK db, n : n = Len(_open) + 1 /\ db = Databases[n]
  OBVIOUS
<1>1. /\ answers = <<>> /\ loading = "no" /\ Len(_open) < Len(Databases)
      /\ _open' = Append(_open, db) /\ _prepare' = Append(_prepare, db)
      /\ _close' = _close /\ pool' = pool /\ loading' = loading /\ answers' = answers
  BY <1>p DEF Loader!AddDatabase
<1>2. /\ n \in Nat /\ n = Len(_open) + 1 /\ n \in 1..Len(Databases) /\ db \in Loader!Pools
  <2>1. n \in 1..Len(Databases) /\ DOMAIN Databases = 1..Len(Databases)
    BY <1>0, <1>1, <1>p, LoaderConstants
  <2> QED
    BY <1>0, <1>p, <2>1, SMTT(30) DEF Loader!Pools
<1>3. /\ Len(_open) <= Len(Databases) /\ (\A k \in 1..Len(_open) : _open[k] = Databases[k]) /\ _prepare = _open
  BY <1>0, <1>1 DEF LoaderAdding
<1>4. /\ _open' \in Seq(Loader!Pools) /\ Len(_open') = n /\ _open'[n] = db
      /\ \A k \in 1..Len(_open) : _open'[k] = _open[k]
      /\ _prepare' = _open'
  BY <1>0, <1>1, <1>2, <1>3
<1>5. \A k \in 1..n : _open'[k] = Databases[k]
  <2>1. ASSUME NEW k \in 1..n PROVE _open'[k] = Databases[k]
    <3>1. CASE k = n
      BY <1>4, <1>p, <3>1
    <3>2. CASE k \in 1..Len(_open)
      BY <1>3, <1>4, <3>2
    <3> QED
      BY <1>0, <1>2, <3>1, <3>2
  <2> QED
    BY <2>1
<1>6. \A i, j \in 1..n : _open'[i] = _open'[j] => i = j
  <2>1. ASSUME NEW i \in 1..n, NEW j \in 1..n, _open'[i] = _open'[j] PROVE i = j
    <3>1. i \in 1..Len(Databases) /\ j \in 1..Len(Databases) /\ Databases[i] = Databases[j]
      BY <1>0, <1>2, <1>5, <2>1
    <3> QED
      BY <3>1, LoaderConstants
  <2> QED
    BY <2>1
<1>7. \A p \in Loader!Pools : pool[p].connections = Loader!NoConnections
  <2>1. ASSUME NEW p \in Loader!Pools, pool[p].connections # Loader!NoConnections PROVE FALSE
    <3>1. IsIn(p, _close) \/ (_open # <<>> /\ p = Head(_open))
      BY <1>0, <2>1 DEF LoaderClosed
    <3>2. NoFailure /\ \A k \in 1..Len(_open) : pool[_open[k]].connections = Loader!NoConnections
      BY <1>0, <1>1, LoaderNoAnswer DEF LoaderCurrent
    <3>3. ~(_open # <<>> /\ p = Head(_open))
      BY <1>0, <2>1, <3>2, HeadAndTail
    <3>4. IsIn(p, _close)
      BY <3>1, <3>3
    <3>5. _close = <<>> /\ Len(<<>>) = 0
      BY <1>0, <1>1 DEF LoaderAdding
    <3> QED
      BY <3>4, <3>5 DEF IsIn
  <2> QED
    BY <2>1
<1>8. LoaderType'
  BY <1>0, <1>1, <1>4, <1>6 DEF LoaderType, Loader!Pools
<1>9. LoaderClosed'
  BY <1>1, <1>7 DEF LoaderClosed, Loader!Pools
<1>10. LoaderAdding'
  BY <1>0, <1>1, <1>2, <1>4, <1>5 DEF LoaderAdding
<1>11. LoaderCurrent'
  <2>1. \A k \in 1..Len(_open') : _open'[k] \in Loader!Pools
    BY <1>4
  <2>2. \A k \in 1..Len(_open') : pool'[_open'[k]].connections = Loader!NoConnections
    BY <1>1, <1>7, <2>1
  <2>3. NoFailure
    BY <1>1, LoaderNoAnswer
  <2> QED
    BY <1>0, <1>1, <2>2, <2>3 DEF LoaderCurrent, Loader!Pools
<1>12. LoaderFirst'
  BY <1>1, <1>4 DEF LoaderFirst, IsIn
<1> QED
  BY <1>8, <1>9, <1>10, <1>11, <1>12 DEF LoaderInv

\* Load begins: at the first one every pool waits to be opened and prepared.
LEMMA LoaderLoad == ASSUME LoaderInv, Loader!Load PROVE LoaderInv'
<1>0. /\ LoaderType /\ LoaderClosed /\ LoaderAdding /\ LoaderCurrent /\ LoaderFirst
      /\ _open \in Seq(Loader!Pools) /\ _prepare \in Seq(Loader!Pools) /\ _close \in Seq(Loader!Pools)
      /\ pool = [p \in Loader!Pools |-> pool[p]] /\ (\A p \in Loader!Pools : PoolInv(pool[p]))
      /\ (\A i, j \in 1..Len(_open) : _open[i] = _open[j] => i = j)
      /\ Len(_open) \in Nat /\ Len(Databases) \in Nat
      /\ answers \in Seq(BOOLEAN) /\ loading \in {"no", "open", "prepare"}
  BY LoaderFacts
<1>1. /\ loading = "no" /\ (answers = <<>> => Len(_open) = Len(Databases)) /\ loading' = "open"
      /\ _open' = _open /\ _prepare' = _prepare /\ _close' = _close /\ pool' = pool /\ answers' = answers
  BY DEF Loader!Load
<1>2. LoaderType'
  BY <1>0, <1>1 DEF LoaderType, Loader!Pools
<1>3. LoaderClosed' /\ LoaderAdding'
  BY <1>0, <1>1 DEF LoaderClosed, LoaderAdding, Loader!Pools
<1>4. LoaderCurrent'
  BY <1>0, <1>1 DEF LoaderCurrent, Loader!Pools, NoFailure
<1>5. ASSUME answers = <<>>, NEW p \in Loader!Pools PROVE IsIn(p, _open) /\ IsIn(p, _prepare)
  <2>1. PICK i \in DOMAIN Databases : p = Databases[i]
    BY DEF Loader!Pools
  <2>2. DOMAIN Databases = 1..Len(Databases)
    BY LoaderConstants
  <2>3. _prepare = _open /\ \A k \in 1..Len(_open) : _open[k] = Databases[k]
    BY <1>0, <1>1, <1>5 DEF LoaderAdding
  <2>4. i \in 1..Len(_open) /\ _open[i] = p
    BY <1>1, <1>5, <2>1, <2>2, <2>3
  <2> QED
    BY <2>3, <2>4 DEF IsIn
<1>6. LoaderFirst'
  BY <1>0, <1>1, <1>5 DEF LoaderFirst, Loader!Pools, NoFailure
<1> QED
  BY <1>2, <1>3, <1>4, <1>6 DEF LoaderInv

\* A pool is opened.
LEMMA LoaderOpenDatabase == ASSUME LoaderInv, Loader!OpenDatabase PROVE LoaderInv'
<1>0. /\ LoaderType /\ LoaderClosed /\ LoaderAdding /\ LoaderCurrent /\ LoaderFirst
      /\ _open \in Seq(Loader!Pools) /\ _prepare \in Seq(Loader!Pools) /\ _close \in Seq(Loader!Pools)
      /\ pool = [p \in Loader!Pools |-> pool[p]] /\ (\A p \in Loader!Pools : PoolInv(pool[p]))
      /\ (\A i, j \in 1..Len(_open) : _open[i] = _open[j] => i = j)
      /\ Len(_open) \in Nat /\ Len(Databases) \in Nat
      /\ answers \in Seq(BOOLEAN) /\ loading \in {"no", "open", "prepare"}
  BY LoaderFacts
<1>p. PICK db : db = Head(_open)
  OBVIOUS
<1>q. PICK q : q = Loader!OpenConnections(Loader!OpenConnections(Loader!WithInfo(pool[db]), "async", AsyncCount, "ok"),
                                          "synch", SynchCount, "ok")
  OBVIOUS
<1>1. /\ loading = "open" /\ _open # <<>> /\ pool' = [pool EXCEPT ![db] = q]
      /\ _close' = <<db>> \o _close /\ _open' = Tail(_open)
      /\ _prepare' = _prepare /\ loading' = loading /\ answers' = answers
  BY <1>p, <1>q DEF Loader!OpenDatabase
<1>2. /\ db \in Loader!Pools /\ _open' \in Seq(Loader!Pools) /\ Len(_open') = Len(_open) - 1
      /\ 1 \in 1..Len(_open) /\ db = _open[1]
      /\ (\A k \in 1..Len(_open') : k + 1 \in 1..Len(_open) /\ _open'[k] = _open[k + 1])
      /\ (\A x : IsIn(x, _open) => x = db \/ IsIn(x, _open'))
  BY <1>0, <1>1, <1>p, HeadAndTail
<1>3. PoolInv(q) /\ q.shutdown = pool[db].shutdown /\ (pool[db].connections = Loader!NoConnections => Full(q))
  BY <1>0, <1>2, <1>q, PoolOpened
<1>4. /\ pool' = [p \in Loader!Pools |-> pool'[p]] /\ pool'[db] = q
      /\ (\A p \in Loader!Pools : p # db => pool'[p] = pool[p])
  BY <1>0, <1>1, <1>2
<1>5. /\ _close' \in Seq(Loader!Pools) /\ (\A x : IsIn(x, _close) => IsIn(x, _close')) /\ IsIn(db, _close')
  <2>1. <<db>> \in Seq(Loader!Pools) /\ Len(<<db>>) = 1 /\ <<db>>[1] = db
    BY <1>2
  <2>2. /\ _close' \in Seq(Loader!Pools) /\ Len(_close') = 1 + Len(_close) /\ Len(_close) \in Nat
        /\ \A i \in 1..(1 + Len(_close)) : _close'[i] = IF i <= 1 THEN <<db>>[i] ELSE _close[i - 1]
    BY <1>0, <1>1, <2>1, ConcatProperties
  <2>3. 1 \in 1..Len(_close') /\ _close'[1] = db
    BY <2>1, <2>2
  <2>4. ASSUME NEW x, IsIn(x, _close) PROVE IsIn(x, _close')
    <3>1. PICK k \in 1..Len(_close) : _close[k] = x
      BY <2>4 DEF IsIn
    <3>2. k + 1 \in 1..Len(_close') /\ ~(k + 1 <= 1) /\ (k + 1) - 1 = k
      BY <2>2, <3>1
    <3>3. _close'[k + 1] = x
      BY <2>2, <3>1, <3>2
    <3> QED
      BY <3>2, <3>3 DEF IsIn
  <2> QED
    BY <2>2, <2>3, <2>4 DEF IsIn
<1>6. \A k \in 1..Len(_open') : _open'[k] # db
  <2>1. ASSUME NEW k \in 1..Len(_open'), _open'[k] = db PROVE FALSE
    <3>1. k + 1 \in 1..Len(_open) /\ _open[k + 1] = _open[1] /\ k \in Nat
      BY <1>2, <2>1
    <3>2. k + 1 = 1 /\ k \in 1..Len(_open')
      BY <1>0, <1>2, <2>1, <3>1
    <3> QED
      BY <3>2
  <2> QED
    BY <2>1
<1>7. LoaderType'
  <2>1. \A p \in Loader!Pools : PoolInv(pool'[p])
    BY <1>0, <1>3, <1>4
  <2>2. \A i, j \in 1..Len(_open') : _open'[i] = _open'[j] => i = j
    <3>1. ASSUME NEW i \in 1..Len(_open'), NEW j \in 1..Len(_open'), _open'[i] = _open'[j] PROVE i = j
      <4>1. i + 1 \in 1..Len(_open) /\ j + 1 \in 1..Len(_open) /\ _open[i + 1] = _open[j + 1]
        BY <1>2, <3>1
      <4>2. i + 1 = j + 1
        BY <1>0, <4>1
      <4> QED
        BY <3>1, <4>2
    <3> QED
      BY <3>1
  <2> QED
    BY <1>0, <1>1, <1>2, <1>4, <1>5, <2>1, <2>2 DEF LoaderType, Loader!Pools
<1>8. LoaderClosed'
  <2>1. ASSUME NEW p \in Loader!Pools, pool'[p].connections # Loader!NoConnections PROVE IsIn(p, _close')
    <3>1. CASE p = db
      BY <1>5, <3>1
    <3>2. CASE p # db
      <4>1. IsIn(p, _close) \/ (_open # <<>> /\ p = Head(_open))
        BY <1>0, <1>4, <2>1, <3>2 DEF LoaderClosed
      <4> QED
        BY <1>5, <1>p, <3>2, <4>1
    <3> QED
      BY <3>1, <3>2
  <2> QED
    BY <1>1, <2>1 DEF LoaderClosed, Loader!Pools
<1>9. LoaderAdding'
  BY <1>1 DEF LoaderAdding
<1>10. LoaderCurrent'
  <2>1. SUFFICES ASSUME NoFailure
                 PROVE  /\ \A p \in Loader!Pools :
                             /\ ~pool'[p].shutdown
                             /\ \A type \in Loader!Types : \A k \in 1..Len(pool'[p].connections[type]) :
                                  pool'[p].connections[type][k].info = pool'[p].info
                        /\ \A k \in 1..Len(_open') : pool'[_open'[k]].connections = Loader!NoConnections
    BY <1>1 DEF LoaderCurrent, Loader!Pools, NoFailure
  <2>2. /\ \A p \in Loader!Pools :
             /\ ~pool[p].shutdown
             /\ \A type \in Loader!Types : \A k \in 1..Len(pool[p].connections[type]) :
                  pool[p].connections[type][k].info = pool[p].info
        /\ \A k \in 1..Len(_open) : pool[_open[k]].connections = Loader!NoConnections
    BY <1>0, <2>1 DEF LoaderCurrent
  <2>3. Full(q) /\ ~q.shutdown
    BY <1>2, <1>3, <2>2
  <2>4. ASSUME NEW p \in Loader!Pools
        PROVE  /\ ~pool'[p].shutdown
               /\ \A type \in Loader!Types : \A k \in 1..Len(pool'[p].connections[type]) :
                    pool'[p].connections[type][k].info = pool'[p].info
    <3>1. CASE p = db
      BY <1>4, <2>3, <3>1 DEF Full
    <3>2. CASE p # db
      BY <1>4, <2>2, <3>2
    <3> QED
      BY <3>1, <3>2
  <2>5. ASSUME NEW k \in 1..Len(_open') PROVE pool'[_open'[k]].connections = Loader!NoConnections
    <3>1. _open'[k] # db /\ _open'[k] \in Loader!Pools /\ k + 1 \in 1..Len(_open) /\ _open'[k] = _open[k + 1]
      BY <1>2, <1>6, <2>5
    <3> QED
      BY <1>4, <2>2, <3>1
  <2> QED
    BY <2>4, <2>5
<1>11. ASSUME answers = <<>>
       PROVE  /\ \A k \in 1..Len(_open') : IsIn(_open'[k], _prepare)
              /\ \A p \in Loader!Pools : /\ IsIn(p, _open') \/ Full(pool'[p])
                                         /\ IsIn(p, _prepare) \/ AllPrepared(pool'[p])
  <2>1. /\ \A k \in 1..Len(_open) : IsIn(_open[k], _prepare)
        /\ \A p \in Loader!Pools : /\ IsIn(p, _open) \/ Full(pool[p])
                                   /\ IsIn(p, _prepare) \/ AllPrepared(pool[p])
    BY <1>0, <1>1, <1>11 DEF LoaderFirst
  <2>2. pool[db].connections = Loader!NoConnections
    BY <1>0, <1>2, <1>11, LoaderNoAnswer DEF LoaderCurrent
  <2>3. \A k \in 1..Len(_open') : IsIn(_open'[k], _prepare)
    BY <1>2, <2>1
  <2>4. ASSUME NEW p \in Loader!Pools
        PROVE  (IsIn(p, _open') \/ Full(pool'[p])) /\ (IsIn(p, _prepare) \/ AllPrepared(pool'[p]))
    <3>1. CASE p = db
      BY <1>2, <1>3, <1>4, <2>1, <2>2, <3>1
    <3>2. CASE p # db
      BY <1>2, <1>4, <2>1, <3>2
    <3> QED
      BY <3>1, <3>2
  <2> QED
    BY <2>3, <2>4
<1>12. ~(answers # <<>> /\ NoFailure)
  BY <1>0, <1>1 DEF LoaderFirst
<1>13. LoaderFirst'
  BY <1>1, <1>11, <1>12 DEF LoaderFirst, Loader!Pools, NoFailure
<1> QED
  BY <1>7, <1>8, <1>9, <1>10, <1>13 DEF LoaderInv

\* ProcessFails with the pools as the failed predicate left them.
LEMMA LoaderProcess ==
  ASSUME LoaderInv, NEW ps, ps = [p \in Loader!Pools |-> ps[p]], \A p \in Loader!Pools : PoolInv(ps[p]),
         \A p \in Loader!Pools :
            ps[p].connections # Loader!NoConnections => IsIn(p, _close) \/ (_open # <<>> /\ p = Head(_open)),
         Loader!ProcessFails(ps), _open' = _open, _prepare' = _prepare
  PROVE  LoaderInv'
<1>1. /\ pool' = [p \in Loader!Pools |-> IF p \in Loader!ToSet(_close) THEN Loader!Closed(ps[p]) ELSE ps[p]]
      /\ _close' = <<>> /\ loading' = "no" /\ answers' = Append(answers, FALSE)
  BY DEF Loader!ProcessFails, Loader!CloseAll
<1>2. \A p : p \in Loader!ToSet(_close) <=> IsIn(p, _close)
  <2>1. _close \in Seq(Loader!Pools)
    BY LoaderFacts
  <2>2. DOMAIN _close = 1..Len(_close)
    BY <2>1
  <2> QED
    BY <2>2 DEF Loader!ToSet, IsIn
<1>3. pool' = [p \in Loader!Pools |-> IF IsIn(p, _close) THEN Loader!Closed(ps[p]) ELSE ps[p]]
  BY <1>1, <1>2
<1> QED
  BY <1>1, <1>3, LoaderFails

\* A pool cannot be opened.
LEMMA LoaderOpenDatabaseFails ==
  ASSUME LoaderInv, NEW type \in Loader!Types, NEW n \in Nat, NEW how, Loader!OpenDatabaseFails(type, n, how)
  PROVE  LoaderInv'
<1>0. /\ LoaderType /\ LoaderClosed /\ LoaderAdding /\ LoaderCurrent /\ LoaderFirst
      /\ _open \in Seq(Loader!Pools) /\ _prepare \in Seq(Loader!Pools) /\ _close \in Seq(Loader!Pools)
      /\ pool = [p \in Loader!Pools |-> pool[p]] /\ (\A p \in Loader!Pools : PoolInv(pool[p]))
      /\ (\A i, j \in 1..Len(_open) : _open[i] = _open[j] => i = j)
      /\ Len(_open) \in Nat /\ Len(Databases) \in Nat
      /\ answers \in Seq(BOOLEAN) /\ loading \in {"no", "open", "prepare"}
  BY LoaderFacts
<1>p. PICK db : db = Head(_open)
  OBVIOUS
<1>q. PICK q : q = Loader!OpenConnections(IF type = "async" THEN Loader!WithInfo(pool[db])
                                          ELSE Loader!OpenConnections(Loader!WithInfo(pool[db]), "async", AsyncCount, "ok"),
                                          type, n, how)
  OBVIOUS
<1>r. PICK ps : ps = [pool EXCEPT ![db] = q]
  OBVIOUS
<1>1. /\ loading = "open" /\ _open # <<>> /\ n < Loader!Threads(type) /\ Loader!ProcessFails(ps)
      /\ _open' = _open /\ _prepare' = _prepare
  BY <1>p, <1>q, <1>r DEF Loader!OpenDatabaseFails
<1>2. db \in Loader!Pools
  BY <1>0, <1>1, <1>p, HeadAndTail
<1>3. PoolInv(q)
  BY <1>0, <1>1, <1>2, <1>q, PoolFails
<1>4. /\ ps = [p \in Loader!Pools |-> ps[p]] /\ ps[db] = q /\ (\A p \in Loader!Pools : p # db => ps[p] = pool[p])
  BY <1>0, <1>2, <1>r
<1>5. \A p \in Loader!Pools : PoolInv(ps[p])
  BY <1>0, <1>3, <1>4
<1>6. \A p \in Loader!Pools :
         ps[p].connections # Loader!NoConnections => IsIn(p, _close) \/ (_open # <<>> /\ p = Head(_open))
  <2>1. ASSUME NEW p \in Loader!Pools, ps[p].connections # Loader!NoConnections
        PROVE  IsIn(p, _close) \/ (_open # <<>> /\ p = Head(_open))
    <3>1. CASE p = db
      BY <1>1, <1>p, <3>1
    <3>2. CASE p # db
      BY <1>0, <1>4, <2>1, <3>2 DEF LoaderClosed
    <3> QED
      BY <3>1, <3>2
  <2> QED
    BY <2>1
<1> QED
  BY <1>1, <1>4, <1>5, <1>6, LoaderProcess

\* All pools are open.
LEMMA LoaderOpenDatabasesDone == ASSUME LoaderInv, Loader!OpenDatabasesDone PROVE LoaderInv'
<1>0. /\ LoaderType /\ LoaderClosed /\ LoaderAdding /\ LoaderCurrent /\ LoaderFirst
      /\ _open \in Seq(Loader!Pools) /\ _prepare \in Seq(Loader!Pools) /\ _close \in Seq(Loader!Pools)
      /\ pool = [p \in Loader!Pools |-> pool[p]] /\ (\A p \in Loader!Pools : PoolInv(pool[p]))
      /\ (\A i, j \in 1..Len(_open) : _open[i] = _open[j] => i = j)
      /\ Len(_open) \in Nat /\ Len(Databases) \in Nat
      /\ answers \in Seq(BOOLEAN) /\ loading \in {"no", "open", "prepare"}
  BY LoaderFacts
<1>1. /\ loading = "open" /\ _open = <<>> /\ loading' = "prepare"
      /\ _open' = _open /\ _prepare' = _prepare /\ _close' = _close /\ pool' = pool /\ answers' = answers
  BY DEF Loader!OpenDatabasesDone
<1>2. LoaderType'
  <2>1. /\ _open' = _open /\ _prepare' = _prepare /\ _close' = _close /\ pool' = pool /\ answers' = answers
        /\ loading' = "prepare"
    BY <1>1
  <2> QED
    BY <1>0, <2>1 DEF LoaderType, Loader!Pools
<1>3. LoaderClosed' /\ LoaderAdding'
  BY <1>0, <1>1 DEF LoaderClosed, LoaderAdding, Loader!Pools
<1>4. LoaderCurrent'
  BY <1>0, <1>1 DEF LoaderCurrent, Loader!Pools, NoFailure
<1>5. LoaderFirst'
  BY <1>0, <1>1 DEF LoaderFirst, Loader!Pools, NoFailure
<1> QED
  BY <1>2, <1>3, <1>4, <1>5 DEF LoaderInv

\* The statements of a pool are prepared.
LEMMA LoaderPrepareStatements == ASSUME LoaderInv, Loader!PrepareStatements PROVE LoaderInv'
<1>0. /\ LoaderType /\ LoaderClosed /\ LoaderAdding /\ LoaderCurrent /\ LoaderFirst
      /\ _open \in Seq(Loader!Pools) /\ _prepare \in Seq(Loader!Pools) /\ _close \in Seq(Loader!Pools)
      /\ pool = [p \in Loader!Pools |-> pool[p]] /\ (\A p \in Loader!Pools : PoolInv(pool[p]))
      /\ (\A i, j \in 1..Len(_open) : _open[i] = _open[j] => i = j)
      /\ Len(_open) \in Nat /\ Len(Databases) \in Nat
      /\ answers \in Seq(BOOLEAN) /\ loading \in {"no", "open", "prepare"}
  BY LoaderFacts
<1>p. PICK db, q : db = Head(_prepare) /\ q = Loader!Prepared(pool[db])
  OBVIOUS
<1>1. /\ loading = "prepare" /\ _prepare # <<>> /\ pool' = [pool EXCEPT ![db] = q] /\ _prepare' = Tail(_prepare)
      /\ _open' = _open /\ _close' = _close /\ loading' = loading /\ answers' = answers
  BY <1>p DEF Loader!PrepareStatements
<1>2. /\ db \in Loader!Pools /\ _prepare' \in Seq(Loader!Pools)
      /\ (\A x : IsIn(x, _prepare) => x = db \/ IsIn(x, _prepare'))
  BY <1>0, <1>1, <1>p, HeadAndTail
<1>3. /\ PoolInv(q) /\ q.info = pool[db].info /\ q.shutdown = pool[db].shutdown /\ AllPrepared(q)
      /\ (\A type \in Loader!Types :
            /\ Len(q.connections[type]) = Len(pool[db].connections[type])
            /\ \A k \in 1..Len(q.connections[type]) : q.connections[type][k].info = pool[db].connections[type][k].info)
      /\ (pool[db].connections = Loader!NoConnections => q.connections = Loader!NoConnections)
  <2>1. Prepares(pool[db], q)
    BY <1>0, <1>2, <1>p, PoolPrepared
  <2> QED
    BY <2>1 DEF Prepares
<1>4. /\ pool' = [p \in Loader!Pools |-> pool'[p]] /\ pool'[db] = q
      /\ (\A p \in Loader!Pools : p # db => pool'[p] = pool[p])
  BY <1>0, <1>1, <1>2
<1>5. _open = <<>> /\ Len(<<>>) = 0
  BY <1>0, <1>1 DEF LoaderClosed
<1>6. LoaderType'
  <2>1. \A p \in Loader!Pools : PoolInv(pool'[p])
    BY <1>0, <1>3, <1>4
  <2> QED
    BY <1>0, <1>1, <1>2, <1>4, <2>1 DEF LoaderType, Loader!Pools
<1>7. LoaderClosed'
  <2>1. ASSUME NEW p \in Loader!Pools, pool'[p].connections # Loader!NoConnections
        PROVE  IsIn(p, _close) \/ (_open # <<>> /\ p = Head(_open))
    <3>1. pool[p].connections # Loader!NoConnections
      <4>1. CASE p = db
        BY <1>3, <1>4, <2>1, <4>1
      <4>2. CASE p # db
        BY <1>4, <2>1, <4>2
      <4> QED
        BY <4>1, <4>2
    <3> QED
      BY <1>0, <3>1 DEF LoaderClosed
  <2> QED
    BY <1>0, <1>1, <2>1 DEF LoaderClosed, Loader!Pools
<1>8. LoaderAdding'
  BY <1>1 DEF LoaderAdding
<1>9. LoaderCurrent'
  <2>1. SUFFICES ASSUME NoFailure, NEW p \in Loader!Pools
                 PROVE  /\ ~pool'[p].shutdown
                        /\ \A type \in Loader!Types : \A k \in 1..Len(pool'[p].connections[type]) :
                             pool'[p].connections[type][k].info = pool'[p].info
    BY <1>1, <1>5 DEF LoaderCurrent, Loader!Pools, NoFailure
  <2>2. /\ ~pool[p].shutdown
        /\ \A type \in Loader!Types : \A k \in 1..Len(pool[p].connections[type]) :
             pool[p].connections[type][k].info = pool[p].info
    BY <1>0, <2>1 DEF LoaderCurrent
  <2>3. CASE p = db
    BY <1>3, <1>4, <2>2, <2>3
  <2>4. CASE p # db
    BY <1>4, <2>2, <2>4
  <2> QED
    BY <2>3, <2>4
<1>10. ASSUME NEW p \in Loader!Pools, Full(pool[p]) PROVE Full(pool'[p])
  <2>1. CASE p = db
    BY <1>3, <1>4, <1>10, <2>1 DEF Full
  <2>2. CASE p # db
    BY <1>4, <1>10, <2>2
  <2> QED
    BY <2>1, <2>2
<1>11. ~(answers # <<>> /\ NoFailure)
  BY <1>0, <1>1 DEF LoaderFirst
<1>12. ASSUME answers = <<>>, NEW p \in Loader!Pools
       PROVE  Full(pool'[p]) /\ (IsIn(p, _prepare') \/ AllPrepared(pool'[p]))
  <2>1. (IsIn(p, _open) \/ Full(pool[p])) /\ (IsIn(p, _prepare) \/ AllPrepared(pool[p]))
    BY <1>0, <1>1, <1>12 DEF LoaderFirst
  <2>2. ~IsIn(p, _open)
    BY <1>5 DEF IsIn
  <2>3. CASE p = db
    BY <1>3, <1>4, <1>10, <2>1, <2>2, <2>3
  <2>4. CASE p # db
    BY <1>2, <1>4, <1>10, <2>1, <2>2, <2>4
  <2> QED
    BY <2>3, <2>4
<1>13. LoaderFirst'
  <2>1. \A k \in 1..Len(_open') : FALSE
    BY <1>1, <1>5
  <2> QED
    BY <1>1, <1>11, <1>12, <2>1 DEF LoaderFirst, Loader!Pools, NoFailure
<1> QED
  BY <1>6, <1>7, <1>8, <1>9, <1>13 DEF LoaderInv

\* A statement cannot be prepared.
LEMMA LoaderPrepareStatementsFails == ASSUME LoaderInv, Loader!PrepareStatementsFails PROVE LoaderInv'
<1>0. /\ LoaderType /\ LoaderClosed /\ LoaderAdding /\ LoaderCurrent /\ LoaderFirst
      /\ _open \in Seq(Loader!Pools) /\ _prepare \in Seq(Loader!Pools) /\ _close \in Seq(Loader!Pools)
      /\ pool = [p \in Loader!Pools |-> pool[p]] /\ (\A p \in Loader!Pools : PoolInv(pool[p]))
      /\ (\A i, j \in 1..Len(_open) : _open[i] = _open[j] => i = j)
      /\ Len(_open) \in Nat /\ Len(Databases) \in Nat
      /\ answers \in Seq(BOOLEAN) /\ loading \in {"no", "open", "prepare"}
  BY LoaderFacts
<1>p. PICK db, q : db = Head(_prepare) /\ q = Loader!Closed(pool[db])
  OBVIOUS
<1>r. PICK ps : ps = [pool EXCEPT ![db] = q]
  OBVIOUS
<1>1. /\ loading = "prepare" /\ _prepare # <<>> /\ Loader!ProcessFails(ps) /\ _open' = _open /\ _prepare' = _prepare
  BY <1>p, <1>r DEF Loader!PrepareStatementsFails
<1>2. db \in Loader!Pools
  BY <1>0, <1>1, <1>p, HeadAndTail
<1>3. PoolInv(q) /\ q.connections = Loader!NoConnections
  BY <1>0, <1>2, <1>p, PoolClosed
<1>4. /\ ps = [p \in Loader!Pools |-> ps[p]] /\ ps[db] = q /\ (\A p \in Loader!Pools : p # db => ps[p] = pool[p])
  BY <1>0, <1>2, <1>r
<1>5. \A p \in Loader!Pools : PoolInv(ps[p])
  BY <1>0, <1>3, <1>4
<1>6. \A p \in Loader!Pools :
         ps[p].connections # Loader!NoConnections => IsIn(p, _close) \/ (_open # <<>> /\ p = Head(_open))
  BY <1>0, <1>3, <1>4 DEF LoaderClosed
<1> QED
  BY <1>1, <1>4, <1>5, <1>6, LoaderProcess

\* Load returns true.
LEMMA LoaderLoadDone == ASSUME LoaderInv, Loader!LoadDone PROVE LoaderInv'
<1>0. /\ LoaderType /\ LoaderClosed /\ LoaderAdding /\ LoaderCurrent /\ LoaderFirst
      /\ _open \in Seq(Loader!Pools) /\ _prepare \in Seq(Loader!Pools) /\ _close \in Seq(Loader!Pools)
      /\ pool = [p \in Loader!Pools |-> pool[p]] /\ (\A p \in Loader!Pools : PoolInv(pool[p]))
      /\ (\A i, j \in 1..Len(_open) : _open[i] = _open[j] => i = j)
      /\ Len(_open) \in Nat /\ Len(Databases) \in Nat
      /\ answers \in Seq(BOOLEAN) /\ loading \in {"no", "open", "prepare"}
  BY LoaderFacts
<1>1. /\ loading = "prepare" /\ _prepare = <<>> /\ loading' = "no" /\ answers' = Append(answers, TRUE)
      /\ _open' = _open /\ _prepare' = _prepare /\ _close' = _close /\ pool' = pool
  BY DEF Loader!LoadDone
<1>2. answers' \in Seq(BOOLEAN) /\ answers' # <<>> /\ Loader!Last(answers)' = TRUE /\ (NoFailure' => NoFailure)
  <2>1. TRUE \in BOOLEAN
    OBVIOUS
  <2> QED
    BY <1>0, <1>1, <2>1, LoaderAnswers
<1>3. _open = <<>> /\ Len(<<>>) = 0
  BY <1>0, <1>1 DEF LoaderClosed
<1>4. LoaderType'
  BY <1>0, <1>1, <1>2 DEF LoaderType, Loader!Pools
<1>5. LoaderClosed'
  BY <1>0, <1>1, <1>2 DEF LoaderClosed, Loader!Pools
<1>6. LoaderAdding'
  BY <1>2 DEF LoaderAdding
<1>7. LoaderCurrent'
  BY <1>0, <1>1, <1>2 DEF LoaderCurrent, Loader!Pools
<1>8. ASSUME NoFailure, NEW p \in Loader!Pools PROVE Full(pool[p]) /\ AllPrepared(pool[p])
  <2>1. CASE answers = <<>>
    <3>1. (IsIn(p, _open) \/ Full(pool[p])) /\ (IsIn(p, _prepare) \/ AllPrepared(pool[p]))
      BY <1>0, <1>1, <2>1 DEF LoaderFirst
    <3>2. ~IsIn(p, _open) /\ ~IsIn(p, _prepare)
      BY <1>1, <1>3 DEF IsIn
    <3> QED
      BY <3>1, <3>2
  <2>2. CASE answers # <<>>
    BY <1>0, <1>8, <2>2 DEF LoaderFirst
  <2> QED
    BY <2>1, <2>2
<1>9. LoaderFirst'
  BY <1>1, <1>2, <1>3, <1>8 DEF LoaderFirst, Loader!Pools
<1> QED
  BY <1>4, <1>5, <1>6, <1>7, <1>9 DEF LoaderInv

\* The loader keeps its invariant.
LEMMA LoaderNext == LoaderInv /\ (Loader!Next \/ UNCHANGED loaderVars) => LoaderInv'
<1> SUFFICES ASSUME LoaderInv, Loader!Next \/ UNCHANGED loaderVars PROVE LoaderInv'
  OBVIOUS
<1>1. CASE Loader!AddDatabase
  BY <1>1, LoaderAddDatabase
<1>2. CASE Loader!Load
  BY <1>2, LoaderLoad
<1>3. CASE Loader!OpenDatabase
  BY <1>3, LoaderOpenDatabase
<1>4. ASSUME NEW type \in Loader!Types, NEW n \in 0..(AsyncCount + SynchCount), NEW how,
             Loader!OpenDatabaseFails(type, n, how)
      PROVE  LoaderInv'
  <2>1. n \in Nat
    BY LoaderConstants
  <2> QED
    BY <1>4, <2>1, LoaderOpenDatabaseFails
<1>5. CASE Loader!OpenDatabasesDone
  BY <1>5, LoaderOpenDatabasesDone
<1>6. CASE Loader!PrepareStatements
  BY <1>6, LoaderPrepareStatements
<1>7. CASE Loader!PrepareStatementsFails
  BY <1>7, LoaderPrepareStatementsFails
<1>8. CASE Loader!LoadDone
  BY <1>8, LoaderLoadDone
<1>9. CASE UNCHANGED loaderVars
  <2>0. LoaderType /\ LoaderClosed /\ LoaderAdding /\ LoaderCurrent /\ LoaderFirst
    BY DEF LoaderInv
  <2>1. /\ _open' = _open /\ _prepare' = _prepare /\ _close' = _close /\ pool' = pool /\ loading' = loading
        /\ answers' = answers
    BY <1>9 DEF loaderVars
  <2>2. LoaderType'
    BY <2>0, <2>1 DEF LoaderType, Loader!Pools
  <2>3. LoaderClosed' /\ LoaderAdding'
    BY <2>0, <2>1 DEF LoaderClosed, LoaderAdding, Loader!Pools
  <2>4. LoaderCurrent' /\ LoaderFirst'
    BY <2>0, <2>1 DEF LoaderCurrent, LoaderFirst, Loader!Pools, NoFailure
  <2> QED
    BY <2>2, <2>3, <2>4 DEF LoaderInv
<1> QED
  BY <1>1, <1>2, <1>3, <1>4, <1>5, <1>6, <1>7, <1>8, <1>9 DEF Loader!Next

\* The invariant is what the loader promises.
LEMMA LoaderSound == LoaderInv => Loader!LoaderSound
<1> SUFFICES ASSUME LoaderInv PROVE Loader!LoaderSound
  OBVIOUS
<1>0. /\ LoaderType /\ LoaderClosed /\ LoaderCurrent /\ LoaderFirst
  BY DEF LoaderInv
<1>1. ASSUME answers = <<TRUE>>, NEW p \in Loader!Pools PROVE Loader!Ready(pool[p])
  <2>1. NoFailure /\ answers # <<>>
    <3>1. DOMAIN <<TRUE>> = {1} /\ <<TRUE>>[1] = TRUE /\ <<TRUE>> # <<>>
      OBVIOUS
    <3>2. \A k \in DOMAIN answers : answers[k] = TRUE
      BY <1>1, <3>1
    <3>3. \A k \in DOMAIN answers : answers[k] # FALSE
      BY <3>2, Zenon
    <3> QED
      BY <1>1, <3>1, <3>3 DEF NoFailure, Loader!ToSet
  <2>2. Full(pool[p]) /\ AllPrepared(pool[p])
    BY <1>0, <2>1 DEF LoaderFirst
  <2>3. ~pool[p].shutdown
    BY <1>0, <2>1 DEF LoaderCurrent
  <2> QED
    BY <2>2, <2>3 DEF Full, AllPrepared, Loader!Ready
<1>2. ASSUME answers # <<>>, loading = "no", ~Loader!Last(answers)
      PROVE  /\ _close = <<>>
             /\ \A p \in Loader!Pools : pool[p].connections # Loader!NoConnections => _open # <<>> /\ p = Head(_open)
  <2>1. _close = <<>> /\ Len(<<>>) = 0
    BY <1>0, <1>2 DEF LoaderClosed
  <2>2. \A p : ~IsIn(p, _close)
    BY <2>1 DEF IsIn
  <2> QED
    BY <1>0, <2>1, <2>2 DEF LoaderClosed
<1>3. ASSUME NEW p \in Loader!Pools
      PROVE  /\ FALSE \notin Loader!ToSet(answers) =>
                  /\ ~pool[p].shutdown
                  /\ \A type \in Loader!Types : \A k \in 1..Len(pool[p].connections[type]) :
                       pool[p].connections[type][k].info = pool[p].info
             /\ Loader!OneSocket(pool[p])
  BY <1>0 DEF LoaderCurrent, NoFailure, LoaderType, PoolInv
<1> QED
  BY <1>1, <1>2, <1>3 DEF Loader!LoaderSound

------------------------------------------------------------------------------
(* DbSyncPool                                                              *)

\* The constants of DbSyncPool.
LEMMA SyncConstants ==
  /\ SynchCounts \subseteq Nat /\ SyncIndexMod \in Nat \ {0} /\ LoopBreaker \in Nat
  /\ "nobody" \notin Callers
  BY ConnectionsAssumption

\* Where a caller has a connection, and all the places of a caller.
SyncHolding == Sync!Holding
SyncPlaces == {"idle", "search", "ping", "escape"} \cup SyncHolding

\* The type correctness of the synchronous connections.
SyncType ==
  /\ num_cons \in Nat
  /\ owner \in [Sync!Cons -> Callers \cup {Sync!NoOne}] /\ handle \in [Sync!Cons -> Nat]
  /\ syncPc \in [Callers -> SyncPlaces]
  /\ syncI \in [Callers -> Nat] /\ con \in [Callers -> Int] /\ using \in [Callers -> Nat]
  /\ again \in [Callers -> 0..LoopBreaker]
  /\ syncCrashed \in BOOLEAN /\ syncAborted \in BOOLEAN /\ overlap \in BOOLEAN

\* A mutex belongs to the caller that works with its connection, and the other way
\* round; a caller that does nothing of the kind has no connection.
SyncOwners ==
  /\ \A t \in Callers : syncPc[t] \in SyncHolding => con[t] \in Sync!Cons /\ owner[con[t]] = t
  /\ \A c \in Sync!Cons : owner[c] # Sync!NoOne => con[owner[c]] = c /\ syncPc[owner[c]] \in SyncHolding
  /\ \A t \in Callers : syncPc[t] = "escape" => con[t] = 0 /\ 0 \in Sync!Cons
  /\ \A t \in Callers : syncPc[t] \in {"idle", "search", "ping"} => con[t] = -1

\* A connection has a handle unless its owner is opening it again or that was
\* given up.
SyncOpen(c) ==
  handle[c] = 0 => c \in gaveUp \/ \E t \in Callers : con[t] = c /\ syncPc[t] = "reconnect"

\* The handle a caller uses is that of its connection, unless the connection was
\* opened again under EscapeString.  A connection that is being opened again under
\* EscapeString is known as such.
SyncHandles ==
  /\ \A t \in Callers : syncPc[t] = "using" => using[t] = handle[con[t]]
  /\ \A t \in Callers : syncPc[t] = "escape" => using[t] = handle[0] \/ overlap
  /\ \A t, u \in Callers : syncPc[t] = "reconnect" /\ con[t] = 0 /\ syncPc[u] = "escape" => overlap
  /\ \A c \in Sync!Cons : SyncOpen(c)
  /\ syncCrashed => num_cons = 0 \/ overlap \/ gaveUp # {}

\* The inductive invariant of the synchronous connections.
SyncInv == SyncType /\ SyncOwners /\ SyncHandles

\* No call is made yet.
LEMMA SyncInit == Sync!Init => SyncInv
<1> SUFFICES ASSUME Sync!Init PROVE SyncInv
  OBVIOUS
<1>1. SyncType
  <2>1. num_cons \in Nat /\ syncI \in [Callers -> Nat] /\ con \in [Callers -> Int]
        /\ using \in [Callers -> Nat] /\ handle \in [Sync!Cons -> Nat]
    BY SyncConstants DEF Sync!Init
  <2>2. again \in [Callers -> 0..LoopBreaker]
    BY SyncConstants DEF Sync!Init
  <2>3. owner \in [Sync!Cons -> Callers \cup {Sync!NoOne}] /\ syncPc \in [Callers -> SyncPlaces]
    BY DEF Sync!Init, SyncPlaces
  <2>4. syncCrashed \in BOOLEAN /\ syncAborted \in BOOLEAN /\ overlap \in BOOLEAN
    BY DEF Sync!Init
  <2> QED
    BY <2>1, <2>2, <2>3, <2>4 DEF SyncType
<1>2. SyncOwners
  BY <1>1 DEF Sync!Init, SyncType, SyncOwners, SyncHolding, Sync!Holding
<1>3. SyncHandles
  BY <1>1 DEF Sync!Init, SyncType, SyncHandles, SyncOpen
<1> QED
  BY <1>1, <1>2, <1>3 DEF SyncInv

\* Connections are numbered from 0; nobody is not a caller.
LEMMA SyncFacts ==
  ASSUME SyncInv
  PROVE  /\ num_cons \in Nat /\ Sync!NoOne \notin Callers
         /\ \A c : c \in Sync!Cons <=> c \in Int /\ 0 <= c /\ c < num_cons
  BY SyncConstants DEF SyncInv, SyncType, Sync!Cons, Sync!NoOne

\* A step of a caller that uses no handle before it nor after it.
LEMMA SyncUnused ==
  ASSUME SyncInv, NEW t \in Callers, Sync!Cons' = Sync!Cons,
         syncPc[t] \notin {"using", "escape", "reconnect"},
         syncPc'[t] \notin {"using", "escape", "reconnect"},
         \A u \in Callers : u # t => syncPc'[u] = syncPc[u] /\ con'[u] = con[u] /\ using'[u] = using[u],
         UNCHANGED <<num_cons, handle, syncCrashed, overlap, gaveUp>>
  PROVE  SyncHandles'
<1>1. \A u \in Callers : syncPc'[u] = "using" => using'[u] = handle'[con'[u]]
  BY DEF SyncInv, SyncHandles
<1>2. \A u \in Callers : syncPc'[u] = "escape" => using'[u] = handle'[0] \/ overlap'
  BY DEF SyncInv, SyncHandles
<1>3. \A v, u \in Callers : syncPc'[v] = "reconnect" /\ con'[v] = 0 /\ syncPc'[u] = "escape" => overlap'
  BY DEF SyncInv, SyncHandles
<1>4. \A c \in Sync!Cons : SyncOpen(c)'
  BY DEF SyncInv, SyncHandles, SyncOpen
<1>5. syncCrashed' => num_cons' = 0 \/ overlap' \/ gaveUp' # {}
  BY DEF SyncInv, SyncHandles
<1> QED
  BY <1>1, <1>2, <1>3, <1>4, <1>5 DEF SyncHandles

\* A caller begins a query, a transaction or the pings of KeepAlive.
LEMMA SyncCall ==
  ASSUME SyncInv, NEW t \in Callers, NEW kind \in {"query", "transaction", "keepalive"}, Sync!Call(t, kind)
  PROVE  SyncInv'
<1>1. /\ syncPc[t] = "idle" /\ (syncPc'[t] = "ping" \/ syncPc'[t] = "search")
      /\ \A u \in Callers : u # t => syncPc'[u] = syncPc[u]
      /\ UNCHANGED <<num_cons, owner, handle, con, using, again, syncCrashed, syncAborted, overlap, gaveUp>>
  BY DEF Sync!Call, Sync!Go, SyncInv, SyncType
<1>2. SyncType'
  BY <1>1 DEF Sync!Call, Sync!Go, SyncInv, SyncType, SyncPlaces, Sync!Cons
<1>3. SyncOwners'
  <2>1. Sync!Cons' = Sync!Cons
    BY <1>1 DEF Sync!Cons
  <2>2. \A c \in Sync!Cons : owner[c] # t
    BY <1>1, SyncFacts DEF SyncInv, SyncOwners, SyncHolding, Sync!Holding
  <2> QED
    BY <1>1, <2>1, <2>2 DEF SyncInv, SyncType, SyncOwners, SyncHolding, Sync!Holding
<1>4. SyncHandles'
  BY <1>1, SyncUnused DEF Sync!Cons
<1> QED
  BY <1>2, <1>3, <1>4 DEF SyncInv

\* A caller locks the connection c, which nobody has.
LEMMA SyncTakes ==
  ASSUME SyncInv, NEW t \in Callers, NEW c \in Sync!Cons, owner[c] = Sync!NoOne,
         syncPc[t] \in {"search", "ping"},
         owner' = [owner EXCEPT ![c] = t], con' = [con EXCEPT ![t] = c],
         syncPc' = [syncPc EXCEPT ![t] = "use"],
         syncI' \in [Callers -> Nat],
         UNCHANGED <<num_cons, handle, what, using, again, syncCrashed, syncAborted, overlap, gaveUp>>
  PROVE  SyncInv'
<1>0. Sync!Cons' = Sync!Cons /\ Sync!NoOne \notin Callers /\ c \in Int
  BY SyncFacts DEF Sync!Cons
<1>1. SyncType'
  BY <1>0 DEF SyncInv, SyncType, SyncPlaces, SyncHolding, Sync!Holding
<1>2. SyncOwners'
  <2>1. \A u \in Callers : u # t => syncPc'[u] = syncPc[u] /\ con'[u] = con[u]
    BY DEF SyncInv, SyncType
  <2>2. syncPc'[t] = "use" /\ con'[t] = c /\ owner'[c] = t
    BY DEF SyncInv, SyncType
  <2>3. \A d \in Sync!Cons : d # c => owner'[d] = owner[d] /\ owner[d] # t
    BY <1>0 DEF SyncInv, SyncType, SyncOwners, SyncHolding, Sync!Holding
  <2>4. \A u \in Callers : u # t /\ syncPc[u] \in SyncHolding => con[u] # c
    BY <1>0 DEF SyncInv, SyncOwners
  <2>5. \A d \in Sync!Cons : owner[d] \in Callers \cup {Sync!NoOne}
    BY DEF SyncInv, SyncType
  <2> QED
    BY <1>0, <2>1, <2>2, <2>3, <2>4, <2>5 DEF SyncInv, SyncOwners, SyncHolding, Sync!Holding
<1>3. SyncHandles'
  <2>1. /\ syncPc'[t] = "use" /\ syncPc[t] \notin {"using", "escape", "reconnect"}
        /\ \A u \in Callers : u # t => syncPc'[u] = syncPc[u] /\ con'[u] = con[u] /\ using'[u] = using[u]
    BY DEF SyncInv, SyncType
  <2> QED
    BY <1>0, <2>1, SyncUnused
<1> QED
  BY <1>1, <1>2, <1>3 DEF SyncInv

\* GetFreeConnection tries the lock of the next connection.
LEMMA SyncGetFreeConnection ==
  ASSUME SyncInv, NEW t \in Callers, Sync!GetFreeConnection(t)
  PROVE  SyncInv'
<1>0. syncPc[t] = "search" /\ num_cons \in Nat /\ syncI[t] \in Nat
  BY DEF Sync!GetFreeConnection, SyncInv, SyncType
<1>1. CASE num_cons = 0
  <2>1. syncCrashed' = TRUE
        /\ UNCHANGED <<num_cons, owner, handle, syncPc, what, syncI, con, using, again, syncAborted, overlap, gaveUp>>
    BY <1>1 DEF Sync!GetFreeConnection
  <2> QED
    BY <1>1, <2>1 DEF SyncInv, SyncType, SyncOwners, SyncHandles, SyncOpen, Sync!Cons
<1>2. CASE num_cons # 0
  <2> DEFINE following == (syncI[t] + 1) % SyncIndexMod
             c == following % num_cons
  <2>1. following \in Nat /\ c \in Sync!Cons
    <3>1. following \in 0..(SyncIndexMod - 1)
      <4>1. syncI[t] + 1 \in Int /\ SyncIndexMod \in Nat \ {0}
        BY <1>0, SyncConstants
      <4> QED
        BY <4>1, DivMod
    <3>2. following \in Nat
      BY <3>1, SyncConstants
    <3> HIDE DEF following
    <3>3. c \in 0..(num_cons - 1)
      BY <1>0, <1>2, <3>2, DivMod
    <3> QED
      BY <3>2, <3>3 DEF Sync!Cons
  <2>2. /\ syncI' = [syncI EXCEPT ![t] = following]
        /\ IF owner[c] = Sync!NoOne
           THEN owner' = [owner EXCEPT ![c] = t] /\ con' = [con EXCEPT ![t] = c] /\ Sync!Go(t, "use")
           ELSE UNCHANGED <<owner, con, syncPc>>
        /\ UNCHANGED <<syncCrashed, num_cons, handle, what, using, again, syncAborted, overlap, gaveUp>>
    BY <1>2 DEF Sync!GetFreeConnection
  <2> HIDE DEF following, c
  <2>3. syncI' \in [Callers -> Nat]
    BY <2>1, <2>2 DEF SyncInv, SyncType
  <2>4. CASE owner[c] = Sync!NoOne
    BY <1>0, <2>1, <2>2, <2>3, <2>4, SyncTakes DEF Sync!Go
  <2>5. CASE owner[c] # Sync!NoOne
    BY <2>2, <2>3, <2>5 DEF SyncInv, SyncType, SyncOwners, SyncHandles, SyncOpen, Sync!Cons
  <2> QED
    BY <2>4, <2>5
<1> QED
  BY <1>1, <1>2

\* KeepAlive pings a connection if it can lock it, and goes on to the next.
LEMMA SyncKeepAlive ==
  ASSUME SyncInv, NEW t \in Callers, Sync!KeepAlive(t)
  PROVE  SyncInv'
<1>0. /\ syncPc[t] = "ping" /\ num_cons \in Nat /\ syncI[t] \in Nat
      /\ UNCHANGED <<num_cons, handle, what, using, again, syncCrashed, syncAborted, overlap, gaveUp>>
  BY DEF Sync!KeepAlive, SyncInv, SyncType
<1>1. CASE syncI[t] >= num_cons
  <2>1. syncPc' = [syncPc EXCEPT ![t] = "idle"] /\ UNCHANGED <<owner, con, syncI>>
    BY <1>1 DEF Sync!KeepAlive, Sync!Go
  <2>2. SyncType'
    BY <1>0, <2>1 DEF SyncInv, SyncType, SyncPlaces, Sync!Cons
  <2>3. SyncOwners'
    BY <1>0, <2>1 DEF SyncInv, SyncType, SyncOwners, SyncHolding, Sync!Holding, Sync!Cons
  <2>4. SyncHandles'
    <3>1. /\ syncPc'[t] = "idle"
          /\ \A u \in Callers : u # t => syncPc'[u] = syncPc[u] /\ con'[u] = con[u] /\ using'[u] = using[u]
      BY <1>0, <2>1 DEF SyncInv, SyncType
    <3> QED
      BY <1>0, <2>1, <3>1, SyncUnused DEF Sync!Cons
  <2> QED
    BY <2>2, <2>3, <2>4 DEF SyncInv
<1>2. CASE ~(syncI[t] >= num_cons)
  <2>1. syncI[t] \in Sync!Cons
    BY <1>0, <1>2, SyncFacts
  <2>2. /\ syncI' = [syncI EXCEPT ![t] = @ + 1]
        /\ IF owner[syncI[t]] = Sync!NoOne
           THEN /\ owner' = [owner EXCEPT ![syncI[t]] = t] /\ con' = [con EXCEPT ![t] = syncI[t]]
                /\ Sync!Go(t, "use")
           ELSE UNCHANGED <<owner, con, syncPc>>
    BY <1>2 DEF Sync!KeepAlive
  <2>3. syncI' \in [Callers -> Nat]
    BY <1>0, <2>2 DEF SyncInv, SyncType
  <2>4. CASE owner[syncI[t]] = Sync!NoOne
    BY <1>0, <2>1, <2>2, <2>3, <2>4, SyncTakes DEF Sync!Go
  <2>5. CASE owner[syncI[t]] # Sync!NoOne
    BY <1>0, <2>2, <2>3, <2>5 DEF SyncInv, SyncType, SyncOwners, SyncHandles, SyncOpen, Sync!Cons
  <2> QED
    BY <2>4, <2>5
<1> QED
  BY <1>1, <1>2

\* EscapeString uses the first connection without its lock.
LEMMA SyncEscapeString ==
  ASSUME SyncInv, NEW t \in Callers, Sync!EscapeString(t) \/ Sync!EscapeStringEnds(t)
  PROVE  SyncInv'
<1>0. Sync!Cons' = Sync!Cons /\ num_cons \in Nat /\ num_cons' = num_cons
  BY DEF Sync!EscapeString, Sync!EscapeStringEnds, SyncInv, SyncType, Sync!Cons
<1>1. CASE Sync!EscapeString(t) /\ num_cons = 0
  <2>1. syncCrashed' = TRUE
        /\ UNCHANGED <<num_cons, owner, handle, syncPc, what, syncI, con, using, again, syncAborted, overlap, gaveUp>>
    BY <1>1 DEF Sync!EscapeString
  <2> QED
    BY <1>1, <2>1 DEF SyncInv, SyncType, SyncOwners, SyncHandles, SyncOpen, Sync!Cons
<1>2. CASE Sync!EscapeString(t) /\ num_cons # 0
  <2>1. /\ syncPc[t] = "idle" /\ syncPc' = [syncPc EXCEPT ![t] = "escape"]
        /\ con' = [con EXCEPT ![t] = 0] /\ using' = [using EXCEPT ![t] = handle[0]]
        /\ what' = [what EXCEPT ![t] = "escape"]
        /\ overlap' = (overlap \/ \E u \in Callers : syncPc[u] = "reconnect" /\ con[u] = 0)
        /\ syncCrashed' = (handle[0] = 0)
        /\ UNCHANGED <<owner, handle, syncI, again, syncAborted, gaveUp>>
    BY <1>2 DEF Sync!EscapeString, Sync!Go
  <2>2. 0 \in Sync!Cons
    BY <1>0, <1>2, SyncFacts
  <2>3. SyncType'
    BY <1>0, <2>1, <2>2 DEF SyncInv, SyncType, SyncPlaces
  <2>4. SyncOwners'
    BY <1>0, <2>1, <2>2 DEF SyncInv, SyncType, SyncOwners, SyncHolding, Sync!Holding
  <2>5. SyncHandles'
    <3>1. SyncOpen(0)
      BY <2>2 DEF SyncInv, SyncHandles
    <3>2. syncCrashed' => num_cons' = 0 \/ overlap' \/ gaveUp' # {}
      BY <2>1, <3>1 DEF SyncOpen
    <3>3. /\ syncPc'[t] = "escape" /\ using'[t] = handle'[0] /\ syncPc[t] = "idle"
          /\ \A u \in Callers : u # t => /\ syncPc'[u] = syncPc[u] /\ using'[u] = using[u]
                                        /\ con'[u] = con[u]
      BY <2>1 DEF SyncInv, SyncType
    <3>4. /\ \A u \in Callers : syncPc'[u] = "using" => using'[u] = handle'[con'[u]]
          /\ \A u \in Callers : syncPc'[u] = "escape" => using'[u] = handle'[0] \/ overlap'
      <4>1. handle' = handle /\ (overlap => overlap')
        BY <2>1
      <4>2. \A u \in Callers : syncPc[u] = "escape" => using[u] = handle[0] \/ overlap
        BY DEF SyncInv, SyncHandles
      <4>3. \A u \in Callers : syncPc[u] = "using" => using[u] = handle[con[u]]
        BY DEF SyncInv, SyncHandles
      <4> QED
        BY <3>3, <4>1, <4>2, <4>3
    <3>5. \A c \in Sync!Cons : SyncOpen(c)'
      BY <2>1, <3>3 DEF SyncInv, SyncHandles, SyncOpen
    <3>6. ASSUME NEW v \in Callers, NEW u \in Callers,
                 syncPc'[v] = "reconnect", con'[v] = 0, syncPc'[u] = "escape"
          PROVE  overlap'
      BY <2>1, <3>3, <3>6
    <3> QED
      BY <1>0, <3>2, <3>4, <3>5, <3>6 DEF SyncHandles
  <2> QED
    BY <2>3, <2>4, <2>5 DEF SyncInv
<1>3. CASE Sync!EscapeStringEnds(t)
  <2>1. /\ syncPc[t] = "escape" /\ syncPc' = [syncPc EXCEPT ![t] = "idle"]
        /\ con' = [con EXCEPT ![t] = -1] /\ using' = [using EXCEPT ![t] = 0]
        /\ syncCrashed' = (using[t] # handle[0])
        /\ UNCHANGED <<owner, handle, what, syncI, again, syncAborted, overlap, gaveUp>>
    BY <1>3 DEF Sync!EscapeStringEnds, Sync!Go
  <2>3. SyncType'
    BY <1>0, <2>1 DEF SyncInv, SyncType, SyncPlaces
  <2>4. SyncOwners'
    BY <1>0, <2>1 DEF SyncInv, SyncType, SyncOwners, SyncHolding, Sync!Holding
  <2>5. SyncHandles'
    BY <1>0, <2>1 DEF SyncInv, SyncType, SyncHandles, SyncOpen
  <2> QED
    BY <2>3, <2>4, <2>5 DEF SyncInv
<1> QED
  BY <1>1, <1>2, <1>3

\* A caller that has a connection begins to use its handle, loses it, and opens
\* the connection again or not.
LEMMA SyncUse ==
  ASSUME SyncInv, NEW t \in Callers,
         \/ Sync!Use(t) \/ Sync!LoseConnection(t) \/ Sync!Reconnect(t)
         \/ Sync!ReconnectAborts(t) \/ Sync!ReconnectGivesUp(t)
  PROVE  SyncInv'
<1>0. /\ Sync!Cons' = Sync!Cons /\ num_cons' = num_cons /\ syncPc[t] \in SyncHolding
      /\ con[t] \in Sync!Cons /\ owner[con[t]] = t
      /\ UNCHANGED <<owner, what, syncI, con>>
  BY DEF Sync!Use, Sync!LoseConnection, Sync!Reconnect, Sync!ReconnectAborts, Sync!ReconnectGivesUp,
     SyncInv, SyncOwners, Sync!Cons, SyncHolding, Sync!Holding
<1>a. PICK place \in SyncHolding : syncPc' = [syncPc EXCEPT ![t] = place]
  <2>1. CASE Sync!ReconnectAborts(t)
    BY <1>0, <2>1 DEF Sync!ReconnectAborts, SyncInv, SyncType
  <2> QED
    BY <2>1 DEF Sync!Use, Sync!LoseConnection, Sync!Reconnect, Sync!ReconnectGivesUp, Sync!Go,
       SyncHolding, Sync!Holding
<1>b. /\ syncPc'[t] = place /\ \A u \in Callers : u # t => syncPc'[u] = syncPc[u]
      /\ \A u \in Callers : u # t /\ syncPc[u] \in SyncHolding => con[u] # con[t]
  BY <1>0, <1>a DEF SyncInv, SyncType, SyncOwners
<1>c. SyncOwners'
  BY <1>0, <1>a DEF SyncInv, SyncType, SyncOwners, SyncHolding, Sync!Holding
<1>d. /\ using \in [Callers -> Nat] /\ handle \in [Sync!Cons -> Nat]
      /\ again \in [Callers -> 0..LoopBreaker] /\ 0 \in 0..LoopBreaker /\ using[t] + 1 \in Nat
  BY SyncConstants DEF SyncInv, SyncType
<1>e. syncPc' \in [Callers -> SyncPlaces]
  BY <1>a DEF SyncInv, SyncType, SyncPlaces
<1>1. CASE Sync!Use(t) /\ handle[con[t]] # 0
  <2>1. /\ place = "using" /\ using' = [using EXCEPT ![t] = handle[con[t]]]
        /\ UNCHANGED <<handle, again, syncCrashed, syncAborted, overlap, gaveUp>> /\ syncPc[t] = "use"
    BY <1>1, <1>b DEF Sync!Use, Sync!Go, SyncInv, SyncType
  <2>3. SyncType'
    BY <1>0, <1>d, <1>e, <2>1 DEF SyncInv, SyncType
  <2>5. SyncHandles'
    BY <1>0, <1>b, <1>d, <2>1 DEF SyncInv, SyncHandles, SyncOpen
  <2> QED
    BY <1>c, <2>3, <2>5 DEF SyncInv
<1>2. CASE Sync!Use(t) /\ handle[con[t]] = 0
  <2>1. /\ place = "unlock" /\ using' = [using EXCEPT ![t] = handle[con[t]]]
        /\ again' = [again EXCEPT ![t] = 0] /\ syncCrashed' = (what[t] = "keepalive")
        /\ UNCHANGED <<handle, syncAborted, overlap, gaveUp>> /\ syncPc[t] = "use"
    BY <1>2, <1>b DEF Sync!Use, Sync!Go, SyncInv, SyncType
  <2>2. con[t] \in gaveUp
    BY <1>0, <1>2, <1>b, <2>1 DEF SyncInv, SyncHandles, SyncOpen, SyncHolding, Sync!Holding
  <2>3. SyncType'
    <3>1. again' \in [Callers -> 0..LoopBreaker] /\ using' \in [Callers -> Nat]
      BY <1>0, <1>d, <2>1
    <3>2. syncCrashed' \in BOOLEAN
      BY <2>1
    <3> QED
      BY <1>0, <1>e, <2>1, <3>1, <3>2 DEF SyncInv, SyncType
  <2>5. SyncHandles'
    BY <1>0, <1>b, <1>d, <2>1, <2>2 DEF SyncInv, SyncHandles, SyncOpen
  <2> QED
    BY <1>c, <2>3, <2>5 DEF SyncInv
<1>3. CASE Sync!LoseConnection(t)
  <2>1. /\ syncPc[t] = "using" /\ place = "reconnect"
        /\ handle' = [handle EXCEPT ![con[t]] = 0]
        /\ overlap' = (overlap \/ \E u \in Callers : syncPc[u] = "escape" /\ con[u] = con[t])
        /\ UNCHANGED <<using, again, syncCrashed, syncAborted, gaveUp>>
    BY <1>3, <1>b DEF Sync!LoseConnection, Sync!Go, SyncInv, SyncType
  <2>3. SyncType'
    <3>1. handle' \in [Sync!Cons -> Nat]
      BY <1>0, <1>d, <2>1
    <3>2. overlap' \in BOOLEAN
      BY <2>1
    <3> QED
      BY <1>0, <1>e, <2>1, <3>1, <3>2 DEF SyncInv, SyncType
  <2>5. SyncHandles'
    <3>3. \A d \in Sync!Cons : d # con[t] => handle'[d] = handle[d]
      BY <1>d, <2>1
    <3>5. \A u \in Callers : syncPc[u] = "escape" => con[u] = 0 /\ 0 \in Sync!Cons
      BY DEF SyncInv, SyncOwners
    <3>6. ASSUME NEW u \in Callers, syncPc'[u] = "using" PROVE using'[u] = handle'[con'[u]]
      <4>1. u # t /\ syncPc[u] = "using" /\ con[u] \in Sync!Cons /\ con[u] # con[t]
        BY <1>b, <2>1, <3>6 DEF SyncInv, SyncOwners, SyncHolding, Sync!Holding
      <4> QED
        BY <1>0, <2>1, <3>3, <4>1 DEF SyncInv, SyncHandles
    <3>7. ASSUME NEW u \in Callers, syncPc'[u] = "escape" PROVE using'[u] = handle'[0] \/ overlap'
      <4>1. syncPc[u] = "escape" /\ con[u] = 0 /\ 0 \in Sync!Cons
        BY <1>b, <2>1, <3>5, <3>7
      <4>2. CASE con[t] = 0
        BY <2>1, <4>1, <4>2
      <4>3. CASE con[t] # 0
        BY <2>1, <3>3, <4>1, <4>3 DEF SyncInv, SyncHandles
      <4> QED
        BY <4>2, <4>3
    <3>8. ASSUME NEW c \in Sync!Cons PROVE SyncOpen(c)'
      <4>1. CASE c = con[t]
        BY <1>0, <1>b, <2>1, <4>1 DEF SyncOpen
      <4>2. CASE c # con[t]
        BY <1>0, <1>b, <2>1, <3>3, <4>2 DEF SyncInv, SyncHandles, SyncOpen
      <4> QED
        BY <4>1, <4>2
    <3>9. syncCrashed' => num_cons' = 0 \/ overlap' \/ gaveUp' # {}
      BY <1>0, <2>1 DEF SyncInv, SyncHandles
    <3>10. ASSUME NEW v \in Callers, NEW u \in Callers,
                  syncPc'[v] = "reconnect", con'[v] = 0, syncPc'[u] = "escape"
           PROVE  overlap'
      <4>1. syncPc[u] = "escape" /\ con[u] = 0
        BY <1>b, <2>1, <3>5, <3>10
      <4>2. CASE v = t
        BY <1>0, <2>1, <3>10, <4>1, <4>2
      <4>3. CASE v # t
        BY <1>0, <1>b, <2>1, <3>10, <4>1, <4>3 DEF SyncInv, SyncHandles
      <4> QED
        BY <4>2, <4>3
    <3> QED
      BY <1>0, <3>6, <3>7, <3>8, <3>9, <3>10 DEF SyncHandles
  <2> QED
    BY <1>c, <2>3, <2>5 DEF SyncInv
<1>4. CASE Sync!Reconnect(t)
  <2>1. /\ syncPc[t] = "reconnect" /\ place = "using"
        /\ handle' = [handle EXCEPT ![con[t]] = using[t] + 1]
        /\ using' = [using EXCEPT ![t] = using[t] + 1]
        /\ UNCHANGED <<again, syncCrashed, syncAborted, overlap, gaveUp>>
    BY <1>4, <1>b DEF Sync!Reconnect, Sync!Go, SyncInv, SyncType
  <2>2. /\ handle'[con[t]] = using[t] + 1 /\ using'[t] = using[t] + 1 /\ using[t] + 1 # 0
        /\ \A d \in Sync!Cons : d # con[t] => handle'[d] = handle[d]
        /\ \A u \in Callers : u # t => using'[u] = using[u]
    BY <1>0, <1>d, <2>1
  <2>3. SyncType'
    BY <1>0, <1>d, <1>e, <2>1 DEF SyncInv, SyncType
  <2>5. SyncHandles'
    <3>5. \A u \in Callers : syncPc[u] = "escape" => con[u] = 0 /\ 0 \in Sync!Cons
      BY DEF SyncInv, SyncOwners
    <3>6. ASSUME NEW u \in Callers, syncPc'[u] = "using" PROVE using'[u] = handle'[con'[u]]
      <4>1. CASE u = t
        BY <1>0, <2>2, <4>1
      <4>2. CASE u # t
        <5>1. syncPc[u] = "using" /\ con[u] \in Sync!Cons /\ con[u] # con[t]
          BY <1>b, <3>6, <4>2 DEF SyncInv, SyncOwners, SyncHolding, Sync!Holding
        <5> QED
          BY <1>0, <2>2, <4>2, <5>1 DEF SyncInv, SyncHandles
      <4> QED
        BY <4>1, <4>2
    <3>7. ASSUME NEW u \in Callers, syncPc'[u] = "escape" PROVE using'[u] = handle'[0] \/ overlap'
      <4>1. u # t /\ syncPc[u] = "escape" /\ con[u] = 0 /\ 0 \in Sync!Cons
        BY <1>b, <2>1, <3>5, <3>7
      <4>2. CASE con[t] = 0
        BY <2>1, <4>1, <4>2 DEF SyncInv, SyncHandles
      <4>3. CASE con[t] # 0
        BY <2>1, <2>2, <4>1, <4>3 DEF SyncInv, SyncHandles
      <4> QED
        BY <4>2, <4>3
    <3>8. ASSUME NEW c \in Sync!Cons PROVE SyncOpen(c)'
      <4>1. CASE c = con[t]
        BY <2>2, <4>1 DEF SyncOpen
      <4>2. CASE c # con[t]
        BY <1>0, <1>b, <2>1, <2>2, <4>2 DEF SyncInv, SyncHandles, SyncOpen
      <4> QED
        BY <4>1, <4>2
    <3>9. syncCrashed' => num_cons' = 0 \/ overlap' \/ gaveUp' # {}
      BY <1>0, <2>1 DEF SyncInv, SyncHandles
    <3>10. ASSUME NEW v \in Callers, NEW u \in Callers,
                  syncPc'[v] = "reconnect", con'[v] = 0, syncPc'[u] = "escape"
           PROVE  overlap'
      BY <1>0, <1>b, <2>1, <3>10 DEF SyncInv, SyncHandles
    <3> QED
      BY <1>0, <3>6, <3>7, <3>8, <3>9, <3>10 DEF SyncHandles
  <2> QED
    BY <1>c, <2>3, <2>5 DEF SyncInv
<1>5. CASE Sync!ReconnectAborts(t)
  <2>1. /\ syncPc' = syncPc /\ syncAborted' = TRUE
        /\ UNCHANGED <<handle, using, again, syncCrashed, overlap, gaveUp>>
    BY <1>5 DEF Sync!ReconnectAborts
  <2>3. SyncType'
    BY <1>0, <2>1 DEF SyncInv, SyncType
  <2>5. SyncHandles'
    BY <1>0, <2>1 DEF SyncInv, SyncHandles, SyncOpen
  <2> QED
    BY <1>c, <2>3, <2>5 DEF SyncInv
<1>6. CASE Sync!ReconnectGivesUp(t)
  <2>1. /\ syncPc[t] = "reconnect" /\ place = "unlock"
        /\ gaveUp' = gaveUp \cup {con[t]}
        /\ using' = [using EXCEPT ![t] = 0] /\ again' = [again EXCEPT ![t] = 0]
        /\ UNCHANGED <<handle, syncCrashed, syncAborted, overlap>>
    BY <1>6, <1>b DEF Sync!ReconnectGivesUp, Sync!Go, SyncInv, SyncType
  <2>3. SyncType'
    BY <1>0, <1>d, <1>e, <2>1 DEF SyncInv, SyncType
  <2>5. SyncHandles'
    BY <1>0, <1>b, <1>d, <2>1 DEF SyncInv, SyncHandles, SyncOpen
  <2> QED
    BY <1>c, <2>3, <2>5 DEF SyncInv
<1> QED
  BY <1>1, <1>2, <1>3, <1>4, <1>5, <1>6

\* The use ends, with a new handle when the old one was lost.
LEMMA SyncUseEnds ==
  ASSUME SyncInv, NEW t \in Callers, NEW deadlock \in BOOLEAN, Sync!UseEnds(t, deadlock)
  PROVE  SyncInv'
<1>0. /\ Sync!Cons' = Sync!Cons /\ num_cons' = num_cons /\ syncPc[t] = "using"
      /\ using[t] = handle[con[t]] /\ syncCrashed' = FALSE
      /\ using' = [using EXCEPT ![t] = 0]
      /\ UNCHANGED <<owner, handle, what, syncI, con, syncAborted, overlap, gaveUp>>
  BY DEF Sync!UseEnds, SyncInv, SyncHandles, SyncOpen, Sync!Cons
<1>1. PICK left \in Nat, place \in {"use", "unlock"} :
         left <= LoopBreaker /\ again' = [again EXCEPT ![t] = left] /\ syncPc' = [syncPc EXCEPT ![t] = place]
  <2> DEFINE left == IF again[t] = 0 THEN LoopBreaker + 1 ELSE again[t]
  <2>1. left \in Nat /\ left <= LoopBreaker + 1
    BY SyncConstants DEF SyncInv, SyncType
  <2>2. IF deadlock /\ left > 1
        THEN again' = [again EXCEPT ![t] = left - 1] /\ Sync!Go(t, "use")
        ELSE again' = [again EXCEPT ![t] = 0] /\ Sync!Go(t, "unlock")
    BY DEF Sync!UseEnds
  <2> HIDE DEF left
  <2>3. CASE deadlock /\ left > 1
    <3>1. left - 1 \in Nat /\ left - 1 <= LoopBreaker
      BY <2>1, <2>3, SyncConstants
    <3> QED
      BY <2>2, <2>3, <3>1 DEF Sync!Go
  <2>4. CASE ~(deadlock /\ left > 1)
    BY <2>2, <2>4, SyncConstants DEF Sync!Go
  <2> QED
    BY <2>3, <2>4
<1>3. SyncType'
  <2>1. again' \in [Callers -> 0..LoopBreaker]
    <3>1. left \in 0..LoopBreaker
      BY <1>1, SyncConstants
    <3> QED
      BY <1>1, <3>1 DEF SyncInv, SyncType
  <2>2. syncPc' \in [Callers -> SyncPlaces] /\ using' \in [Callers -> Nat]
    BY <1>0, <1>1 DEF SyncInv, SyncType, SyncPlaces, SyncHolding, Sync!Holding
  <2> QED
    BY <1>0, <2>1, <2>2 DEF SyncInv, SyncType
<1>4. SyncOwners'
  BY <1>0, <1>1 DEF SyncInv, SyncType, SyncOwners, SyncHolding, Sync!Holding
<1>5. SyncHandles'
  BY <1>0, <1>1 DEF SyncInv, SyncType, SyncHandles, SyncOpen
<1> QED
  BY <1>3, <1>4, <1>5 DEF SyncInv

\* The caller unlocks its connection.
LEMMA SyncUnlock ==
  ASSUME SyncInv, NEW t \in Callers, Sync!Unlock(t)
  PROVE  SyncInv'
<1>0. /\ Sync!Cons' = Sync!Cons /\ num_cons' = num_cons /\ syncPc[t] = "unlock"
      /\ con[t] \in Sync!Cons /\ owner[con[t]] = t
      /\ owner' = [owner EXCEPT ![con[t]] = Sync!NoOne] /\ con' = [con EXCEPT ![t] = -1]
      /\ UNCHANGED <<handle, what, syncI, using, again, syncCrashed, syncAborted, overlap, gaveUp>>
  BY DEF Sync!Unlock, SyncInv, SyncOwners, Sync!Cons, SyncHolding, Sync!Holding
<1>1. PICK place \in {"ping", "idle"} : syncPc' = [syncPc EXCEPT ![t] = place]
  BY DEF Sync!Unlock, Sync!Go
<1>3. SyncType'
  BY <1>0, <1>1 DEF SyncInv, SyncType, SyncPlaces
<1>4. SyncOwners'
  <2>1. \A u \in Callers : u # t => syncPc'[u] = syncPc[u] /\ con'[u] = con[u]
    BY <1>0, <1>1 DEF SyncInv, SyncType
  <2>2. syncPc'[t] \in {"ping", "idle"} /\ con'[t] = -1
    BY <1>0, <1>1 DEF SyncInv, SyncType
  <2>3. \A d \in Sync!Cons : d # con[t] => owner'[d] = owner[d] /\ owner[d] # t
    BY <1>0, SyncFacts DEF SyncInv, SyncType, SyncOwners
  <2>4. owner'[con[t]] = Sync!NoOne
    BY <1>0 DEF SyncInv, SyncType
  <2>5. \A d \in Sync!Cons : owner[d] \in Callers \cup {Sync!NoOne}
    BY DEF SyncInv, SyncType
  <2>6. \A u \in Callers : u # t /\ syncPc[u] \in SyncHolding => con[u] # con[t]
    BY <1>0 DEF SyncInv, SyncOwners
  <2> QED
    BY <1>0, <2>1, <2>2, <2>3, <2>4, <2>5, <2>6 DEF SyncInv, SyncOwners, SyncHolding, Sync!Holding
<1>5. SyncHandles'
  BY <1>0, <1>1 DEF SyncInv, SyncType, SyncHandles, SyncOpen
<1> QED
  BY <1>3, <1>4, <1>5 DEF SyncInv

\* Every step keeps the locks with the callers that use their connections.
LEMMA SyncNext == SyncInv /\ [Sync!Next]_syncVars => SyncInv'
<1> SUFFICES ASSUME SyncInv, [Sync!Next]_syncVars PROVE SyncInv'
  OBVIOUS
<1>1. CASE UNCHANGED syncVars
  BY <1>1 DEF syncVars, SyncInv, SyncType, SyncOwners, SyncHandles, SyncOpen, Sync!Cons
<1>2. CASE Sync!Next
  BY <1>2, SyncCall, SyncGetFreeConnection, SyncEscapeString, SyncUse, SyncUseEnds, SyncUnlock,
     SyncKeepAlive DEF Sync!Next
<1> QED
  BY <1>1, <1>2

\* A connection that is locked has one user, and the users are apart.
LEMMA SyncSound == SyncInv => Sync!SyncConnections
<1> SUFFICES ASSUME SyncInv PROVE Sync!SyncConnections
  OBVIOUS
<1>1. \A c \in Sync!Cons :
         owner[c] # Sync!NoOne <=> \E t \in Callers : con[t] = c /\ syncPc[t] \in SyncHolding
  BY SyncFacts DEF SyncInv, SyncType, SyncOwners
<1>2. \A t, u \in Callers : t # u /\ con[t] # -1 /\ con[t] = con[u] => "escape" \in {syncPc[t], syncPc[u]}
  BY DEF SyncInv, SyncType, SyncOwners, SyncPlaces
<1>3. \A t \in Callers : syncPc[t] \in SyncHolding => owner[con[t]] = t
  BY DEF SyncInv, SyncOwners
<1>4. \A t \in Callers : again[t] <= LoopBreaker
  BY DEF SyncInv, SyncType
<1>5. syncCrashed => num_cons = 0 \/ overlap \/ gaveUp # {}
  BY DEF SyncInv, SyncHandles
<1>6. \A c \in Sync!Cons : handle[c] = 0 =>
        c \in gaveUp \/ \E t \in Callers : con[t] = c /\ syncPc[t] = "reconnect"
  BY DEF SyncInv, SyncHandles, SyncOpen
<1> QED
  BY <1>1, <1>2, <1>3, <1>4, <1>5, <1>6 DEF Sync!SyncConnections, SyncHolding, Sync!Holding

------------------------------------------------------------------------------
(* ConnPool                                                                *)

\* There is a connection.
LEMMA ConnConstants ==
  PoolSize \in Nat \ {0}
  BY ConnectionsAssumption

\* The type correctness of mysqlconnpool.
ConnType ==
  /\ conn_ \in [Conn!Conns -> {"uninitialised", "null", "open"}]
  /\ connWorker \in [Conn!Conns -> {"none", "pop", "execute", "exited"}]
  /\ connOp \in [Conn!Conns -> Nat] /\ connQueue \in Seq(Nat)
  /\ promise \in Seq({"pending", "rows", "null"}) /\ connPending \in Seq(Nat)
  /\ connAt \in 0..Len(connPending) /\ connPhase \in {"init", "open", "cancelled", "gone"}
  /\ making \in Conn!Conns /\ invoked \in Seq(Nat \X {"rows", "null"})
  /\ connNonblock \in BOOLEAN /\ connCrashed \in BOOLEAN /\ openFailed \in BOOLEAN

\* The callback of every query is pending or ran, at one place, and with the result
\* of the query.
ConnCallbacks ==
  /\ \A k \in 1..Len(connPending) : connPending[k] \in 1..Len(promise)
  /\ \A k \in 1..Len(invoked) : /\ invoked[k][1] \in 1..Len(promise)
                                /\ invoked[k][2] = promise[invoked[k][1]]
  /\ \A j, k \in 1..Len(connPending) : connPending[j] = connPending[k] => j = k
  /\ \A j, k \in 1..Len(invoked) : invoked[j][1] = invoked[k][1] => j = k
  /\ \A j \in 1..Len(connPending), k \in 1..Len(invoked) : connPending[j] # invoked[k][1]
  /\ \A q \in 1..Len(promise) : \/ \E k \in 1..Len(connPending) : connPending[k] = q
                                \/ \E k \in 1..Len(invoked) : invoked[k][1] = q

\* An operation without a result is at one place, the queue or a worker.
ConnOperations ==
  /\ \A k \in 1..Len(connQueue) : connQueue[k] \in 1..Len(promise) /\ promise[connQueue[k]] = "pending"
  /\ \A c \in Conn!Conns : connOp[c] # 0 => connOp[c] \in 1..Len(promise) /\ promise[connOp[c]] = "pending"
  /\ \A j, k \in 1..Len(connQueue) : connQueue[j] = connQueue[k] => j = k
  /\ \A c, d \in Conn!Conns : connOp[c] = connOp[d] /\ connOp[c] # 0 => c = d
  /\ \A k \in 1..Len(connQueue), c \in Conn!Conns : connQueue[k] # connOp[c]
  /\ \A q \in 1..Len(promise) : promise[q] = "pending" =>
        \/ \E k \in 1..Len(connQueue) : connQueue[k] = q
        \/ \E c \in Conn!Conns : connOp[c] = q
  /\ \A c \in Conn!Conns : connOp[c] # 0 <=> connWorker[c] = "execute"

\* The workers, while the pool is made and destroyed.
ConnWorkers ==
  /\ connNonblock => connPhase \in {"cancelled", "gone"}
  /\ \A c \in Conn!Conns : connWorker[c] = "exited" => connNonblock /\ connQueue = <<>>
  /\ connPhase = "init" => \A c \in Conn!Conns : c >= making => connWorker[c] = "none"
  /\ connPhase = "cancelled" => \A c \in Conn!Conns : c < making => connWorker[c] = "exited"
  /\ connPhase = "open" => making = 1
  /\ connPhase = "gone" => \A c \in Conn!Conns : connWorker[c] = "exited"

\* As long as every Open succeeds, a worker that runs has a connection.
ConnOpened ==
  /\ connCrashed => openFailed
  /\ ~openFailed => \A c \in Conn!Conns :
       /\ connWorker[c] # "none" => conn_[c] # "uninitialised"
       /\ connWorker[c] \in {"pop", "execute"} => conn_[c] = "open"

\* The inductive invariant of mysqlconnpool.
ConnInv == ConnType /\ ConnCallbacks /\ ConnOperations /\ ConnWorkers /\ ConnOpened

\* A pool without queries.
LEMMA ConnInit == Conn!Init => ConnInv
<1> SUFFICES ASSUME Conn!Init PROVE ConnInv
  OBVIOUS
<1>0. /\ conn_ \in [Conn!Conns -> {"uninitialised", "null"}] /\ connWorker = [c \in Conn!Conns |-> "none"]
      /\ connOp = [c \in Conn!Conns |-> 0] /\ connQueue = <<>> /\ connNonblock = FALSE
      /\ promise = <<>> /\ connPending = <<>> /\ connAt = 0 /\ connPhase = "init" /\ making = 1
      /\ invoked = <<>> /\ connCrashed = FALSE /\ openFailed = FALSE
  BY DEF Conn!Init
<1>1. 1 \in Conn!Conns
  BY ConnConstants DEF Conn!Conns
<1>2. ConnType
  <2>1. connPending \in Seq(Nat) /\ connAt \in 0..Len(connPending)
    BY <1>0
  <2>2. connQueue \in Seq(Nat) /\ promise \in Seq({"pending", "rows", "null"})
        /\ invoked \in Seq(Nat \X {"rows", "null"})
    BY <1>0
  <2>3. conn_ \in [Conn!Conns -> {"uninitialised", "null", "open"}] /\ connOp \in [Conn!Conns -> Nat]
        /\ connWorker \in [Conn!Conns -> {"none", "pop", "execute", "exited"}]
    BY <1>0
  <2> QED
    BY <1>0, <1>1, <2>1, <2>2, <2>3 DEF ConnType
<1>3. ConnCallbacks
  BY <1>0 DEF ConnCallbacks
<1>4. ConnOperations
  BY <1>0 DEF ConnOperations
<1>5. ConnWorkers
  BY <1>0 DEF ConnWorkers
<1>6. ConnOpened
  BY <1>0 DEF ConnOpened
<1> QED
  BY <1>2, <1>3, <1>4, <1>5, <1>6 DEF ConnInv

\* The next connection is made.
LEMMA ConnInitPool ==
  ASSUME ConnInv, NEW outcome \in {"ok", "connect", "setSchema", "lost"}, Conn!InitPool(outcome)
  PROVE  ConnInv'
<1> DEFINE after == Conn!AfterOpen(conn_[making], outcome)
<1>0. /\ connPhase = "init" /\ connWorker' = [connWorker EXCEPT ![making] = "pop"]
      /\ conn_' = [conn_ EXCEPT ![making] = after]
      /\ connCrashed' = (outcome = "lost" /\ conn_[making] = "uninitialised")
      /\ openFailed' = (openFailed \/ outcome # "ok")
      /\ making' = IF making = PoolSize THEN 1 ELSE making + 1
      /\ connPhase' = IF making = PoolSize THEN "open" ELSE "init"
      /\ connOp' = connOp /\ connQueue' = connQueue /\ connNonblock' = connNonblock /\ promise' = promise
      /\ connPending' = connPending /\ connAt' = connAt /\ invoked' = invoked
  BY DEF Conn!InitPool
<1>1. making \in Conn!Conns /\ Conn!Conns = 1..PoolSize /\ PoolSize \in Nat \ {0} /\ conn_[making] \in {"uninitialised", "null", "open"}
  BY ConnConstants DEF ConnInv, ConnType, Conn!Conns
<1>2. after \in {"uninitialised", "null", "open"} /\ (outcome = "ok" => after = "open")
  BY <1>1 DEF Conn!AfterOpen
<1> HIDE DEF after
<1>3. connWorker[making] = "none" /\ ~connNonblock
  BY <1>0, <1>1 DEF ConnInv, ConnWorkers
<1>4. making' \in Conn!Conns
  BY <1>0, <1>1
<1>5. ConnType'
  BY <1>0, <1>2, <1>4 DEF ConnInv, ConnType
<1>6. ConnCallbacks'
  BY <1>0, SMTT(30) DEF ConnInv, ConnCallbacks
<1>7. ConnOperations'
  <2>1. \A c \in Conn!Conns : connOp'[c] # 0 <=> connWorker'[c] = "execute"
    BY <1>0, <1>1, <1>3 DEF ConnInv, ConnOperations, ConnType
  <2> QED
    BY <1>0, <2>1 DEF ConnInv, ConnOperations
<1>8. ConnWorkers'
  <2>1. \A c \in Conn!Conns : connWorker'[c] = IF c = making THEN "pop" ELSE connWorker[c]
    BY <1>0, <1>1 DEF ConnInv, ConnType
  <2>2. connPhase' = "init" => \A c \in Conn!Conns : c >= making' => connWorker'[c] = "none"
    BY <1>0, <1>1, <2>1 DEF ConnInv, ConnWorkers
  <2> QED
    BY <1>0, <1>3, <2>1, <2>2 DEF ConnInv, ConnWorkers
<1>9. ConnOpened'
  <2>1. ASSUME ~openFailed' PROVE /\ ~openFailed /\ outcome = "ok" /\ after = "open"
    BY <1>0, <1>2, <2>1
  <2>2. \A c \in Conn!Conns : c # making => connWorker'[c] = connWorker[c] /\ conn_'[c] = conn_[c]
    BY <1>0 DEF ConnInv, ConnType
  <2>3. conn_'[making] = after
    BY <1>0, <1>1 DEF ConnInv, ConnType
  <2>4. connCrashed' => openFailed'
    BY <1>0
  <2> QED
    BY <2>1, <2>2, <2>3, <2>4 DEF ConnInv, ConnOpened
<1> QED
  BY <1>5, <1>6, <1>7, <1>8, <1>9 DEF ConnInv

\* A query: its promise, its place in the queue and its callback.
LEMMA ConnQuery ==
  ASSUME ConnInv, Conn!Query
  PROVE  ConnInv'
<1> DEFINE n == Len(promise) + 1
<1>0. /\ connPhase = "open" /\ connAt = 0 /\ promise' = Append(promise, "pending")
      /\ connQueue' = Append(connQueue, Len(promise')) /\ connPending' = Append(connPending, Len(promise'))
      /\ conn_' = conn_ /\ connWorker' = connWorker /\ connOp' = connOp /\ connNonblock' = connNonblock
      /\ connAt' = connAt /\ connPhase' = connPhase /\ making' = making /\ invoked' = invoked
      /\ connCrashed' = connCrashed /\ openFailed' = openFailed
  BY DEF Conn!Query, Conn!Push
<1>1. /\ promise \in Seq({"pending", "rows", "null"}) /\ connQueue \in Seq(Nat) /\ connPending \in Seq(Nat)
      /\ invoked \in Seq(Nat \X {"rows", "null"})
  BY DEF ConnInv, ConnType
<1>2. /\ n \in Nat /\ Len(promise') = n /\ promise' \in Seq({"pending", "rows", "null"})
      /\ promise'[n] = "pending" /\ \A k \in 1..Len(promise) : promise'[k] = promise[k]
  BY <1>0, <1>1
<1>3. /\ connQueue' \in Seq(Nat) /\ Len(connQueue') = Len(connQueue) + 1
      /\ connQueue'[Len(connQueue) + 1] = n /\ \A k \in 1..Len(connQueue) : connQueue'[k] = connQueue[k]
  BY <1>0, <1>1, <1>2
<1>4. /\ connPending' \in Seq(Nat) /\ Len(connPending') = Len(connPending) + 1
      /\ connPending'[Len(connPending) + 1] = n /\ \A k \in 1..Len(connPending) : connPending'[k] = connPending[k]
  BY <1>0, <1>1, <1>2
<1>5. Len(promise) \in Nat /\ Len(connQueue) \in Nat /\ Len(connPending) \in Nat /\ Len(invoked) \in Nat
  BY <1>1
<1>p. PICK P, Q, W, I, qn, wn, e : /\ P = 1..Len(promise) /\ Q = 1..Len(connQueue) /\ W = 1..Len(connPending)
                              /\ I = 1..Len(invoked)
                              /\ qn = Len(connQueue) + 1 /\ wn = Len(connPending) + 1 /\ e = n
  OBVIOUS
<1>6. 1..Len(promise') = P \cup {e} /\ e \notin P /\ e # 0
  BY <1>2, <1>5, <1>p
<1>7. 1..Len(connQueue') = Q \cup {qn} /\ qn \notin Q
  BY <1>3, <1>5, <1>p
<1>8. 1..Len(connPending') = W \cup {wn} /\ wn \notin W
  BY <1>4, <1>5, <1>p
<1>a. promise'[e] = "pending" /\ \A k \in P : promise'[k] = promise[k]
  BY <1>2, <1>p
<1>b. connQueue'[qn] = e /\ \A k \in Q : connQueue'[k] = connQueue[k]
  BY <1>3, <1>p
<1>c. connPending'[wn] = e /\ \A k \in W : connPending'[k] = connPending[k]
  BY <1>4, <1>p
<1>d. 1..Len(invoked') = I
  BY <1>0, <1>p
<1> HIDE DEF n
<1>9. ConnType'
  <2>1. connAt' \in 0..Len(connPending')
    BY <1>0, <1>4, <1>5
  <2> QED
    BY <1>0, <1>2, <1>3, <1>4, <2>1 DEF ConnInv, ConnType
<1>10. ConnCallbacks'
  <2>1. /\ \A k \in W : connPending[k] \in P
        /\ \A k \in I : invoked[k][1] \in P /\ invoked[k][2] = promise[invoked[k][1]]
        /\ \A j, k \in W : connPending[j] = connPending[k] => j = k
        /\ \A j, k \in I : invoked[j][1] = invoked[k][1] => j = k
        /\ \A j \in W, k \in I : connPending[j] # invoked[k][1]
        /\ \A q \in P : \/ \E k \in W : connPending[k] = q
                        \/ \E k \in I : invoked[k][1] = q
    <3>1. ConnCallbacks
      BY DEF ConnInv
    <3>2. /\ \A k \in W : connPending[k] \in P
          /\ \A k \in I : invoked[k][1] \in P /\ invoked[k][2] = promise[invoked[k][1]]
      BY <1>p, <3>1 DEF ConnCallbacks
    <3>3. /\ \A j, k \in W : connPending[j] = connPending[k] => j = k
          /\ \A j, k \in I : invoked[j][1] = invoked[k][1] => j = k
      BY <1>p, <3>1 DEF ConnCallbacks
    <3>4. \A j \in W, k \in I : connPending[j] # invoked[k][1]
      BY <1>p, <3>1 DEF ConnCallbacks
    <3>5. \A q \in P : \/ \E k \in W : connPending[k] = q
                       \/ \E k \in I : invoked[k][1] = q
      BY <1>p, <3>1 DEF ConnCallbacks
    <3> QED
      BY <3>2, <3>3, <3>4, <3>5
  <2>2. \A k \in (W \cup {wn}) : connPending'[k] \in (P \cup {e})
    BY <1>c, <1>6, <1>8, <2>1
  <2>3. \A k \in I : invoked'[k][1] \in (P \cup {e}) /\ invoked'[k][2] = promise'[invoked'[k][1]]
    BY <1>0, <1>a, <1>6, <2>1
  <2>4. \A j, k \in (W \cup {wn}) : connPending'[j] = connPending'[k] => j = k
    BY <1>c, <1>6, <1>8, <2>1
  <2>5. \A j, k \in I : invoked'[j][1] = invoked'[k][1] => j = k
    BY <1>0, <2>1
  <2>6. \A j \in (W \cup {wn}), k \in I : connPending'[j] # invoked'[k][1]
    BY <1>0, <1>c, <1>6, <1>8, <2>1
  <2>7. \A q \in (P \cup {e}) : \/ \E k \in (W \cup {wn}) : connPending'[k] = q
                                \/ \E k \in I : invoked'[k][1] = q
    <3>1. ASSUME NEW q \in P
          PROVE  \/ \E k \in (W \cup {wn}) : connPending'[k] = q
                 \/ \E k \in I : invoked'[k][1] = q
      BY <1>0, <1>c, <1>8, <2>1
    <3>2. \E k \in (W \cup {wn}) : connPending'[k] = e
      BY <1>c, <1>8
    <3> QED
      BY <1>6, <3>1, <3>2
  <2> QED
    BY <2>2, <2>3, <2>4, <2>5, <2>6, <2>7, <1>6, <1>8, <1>d DEF ConnCallbacks
<1>11. ConnOperations'
  <2>1. /\ \A k \in Q : connQueue[k] \in P /\ promise[connQueue[k]] = "pending"
        /\ \A c \in Conn!Conns : connOp[c] # 0 => connOp[c] \in P /\ promise[connOp[c]] = "pending"
        /\ \A j, k \in Q : connQueue[j] = connQueue[k] => j = k
        /\ \A c, d \in Conn!Conns : connOp[c] = connOp[d] /\ connOp[c] # 0 => c = d
        /\ \A k \in Q, c \in Conn!Conns : connQueue[k] # connOp[c]
        /\ \A q \in P : promise[q] = "pending" =>
              (\E k \in Q : connQueue[k] = q) \/ \E c \in Conn!Conns : connOp[c] = q
        /\ \A c \in Conn!Conns : connOp[c] # 0 <=> connWorker[c] = "execute"
    BY <1>p DEF ConnInv, ConnOperations
  <2>2. \A k \in (Q \cup {qn}) : connQueue'[k] \in (P \cup {e}) /\ promise'[connQueue'[k]] = "pending"
    BY <1>a, <1>b, <1>6, <1>7, <2>1
  <2>3. \A c \in Conn!Conns : connOp'[c] # 0 => connOp'[c] \in (P \cup {e}) /\ promise'[connOp'[c]] = "pending"
    BY <1>0, <1>a, <1>6, <2>1
  <2>4. \A j, k \in (Q \cup {qn}) : connQueue'[j] = connQueue'[k] => j = k
    BY <1>b, <1>6, <1>7, <2>1
  <2>5. \A k \in (Q \cup {qn}), c \in Conn!Conns : connQueue'[k] # connOp'[c]
    <3>1. \A c \in Conn!Conns : connOp[c] # e
      BY <1>6, <2>1
    <3> QED
      BY <1>0, <1>b, <1>7, <2>1, <3>1
  <2>6. \A q \in (P \cup {e}) : promise'[q] = "pending" =>
          (\E k \in (Q \cup {qn}) : connQueue'[k] = q) \/ \E c \in Conn!Conns : connOp'[c] = q
    <3>1. ASSUME NEW q \in P, promise'[q] = "pending"
          PROVE  (\E k \in (Q \cup {qn}) : connQueue'[k] = q) \/ \E c \in Conn!Conns : connOp'[c] = q
      <4>1. (\E k \in Q : connQueue[k] = q) \/ \E c \in Conn!Conns : connOp[c] = q
        BY <1>a, <2>1, <3>1
      <4>2. \A k \in Q : k \in (Q \cup {qn}) /\ connQueue'[k] = connQueue[k]
        BY <1>b
      <4> QED
        BY <1>0, <4>1, <4>2
    <3>2. \E k \in (Q \cup {qn}) : connQueue'[k] = e
      BY <1>b, <1>7
    <3> QED
      BY <1>6, <3>1, <3>2
  <2>7. /\ \A c, d \in Conn!Conns : connOp'[c] = connOp'[d] /\ connOp'[c] # 0 => c = d
        /\ \A c \in Conn!Conns : connOp'[c] # 0 <=> connWorker'[c] = "execute"
    BY <1>0, <2>1
  <2> QED
    BY <2>2, <2>3, <2>4, <2>5, <2>6, <2>7, <1>6, <1>7 DEF ConnOperations
<1>12. ConnWorkers'
  BY <1>0 DEF ConnInv, ConnWorkers
<1>13. ConnOpened'
  BY <1>0 DEF ConnInv, ConnOpened
<1> QED
  BY <1>9, <1>10, <1>11, <1>12, <1>13 DEF ConnInv

\* A worker takes the first operation, or ends.
LEMMA ConnPop ==
  ASSUME ConnInv, NEW c \in Conn!Conns, Conn!Pop(c)
  PROVE  ConnInv'
<1>0. /\ connWorker[c] = "pop" /\ (connQueue # <<>> \/ connNonblock)
      /\ conn_' = conn_ /\ connNonblock' = connNonblock /\ promise' = promise /\ connPending' = connPending
      /\ connAt' = connAt /\ connPhase' = connPhase /\ making' = making /\ invoked' = invoked
      /\ connCrashed' = connCrashed /\ openFailed' = openFailed
  BY DEF Conn!Pop, Conn!NotEmptyOrNonblock
<1>1. ConnType /\ ConnCallbacks /\ ConnOperations /\ ConnWorkers /\ ConnOpened
  BY DEF ConnInv
<1>2. ConnCallbacks'
  BY <1>0, <1>1 DEF ConnCallbacks
<1>3. ASSUME NEW w, connWorker' = [connWorker EXCEPT ![c] = w], w \in {"execute", "exited"},
             w = "exited" => connNonblock /\ connQueue = <<>>, connQueue = <<>> => connQueue' = <<>>
      PROVE  ConnWorkers' /\ ConnOpened'
  <2>1. connWorker'[c] = w /\ \A d \in Conn!Conns : d # c => connWorker'[d] = connWorker[d]
    BY <1>1, <1>3 DEF ConnType
  <2>2. ConnWorkers'
    <3>1. \A d \in Conn!Conns : connWorker'[d] = "exited" => connNonblock' /\ connQueue' = <<>>
      BY <1>0, <1>1, <1>3, <2>1 DEF ConnWorkers
    <3>2. connPhase' = "init" => \A d \in Conn!Conns : d >= making' => connWorker'[d] = "none"
      BY <1>0, <1>1, <2>1 DEF ConnWorkers
    <3>3. connPhase' = "cancelled" => \A d \in Conn!Conns : d < making' => connWorker'[d] = "exited"
      BY <1>0, <1>1, <2>1 DEF ConnWorkers
    <3>4. connPhase' = "gone" => \A d \in Conn!Conns : connWorker'[d] = "exited"
      BY <1>0, <1>1, <2>1 DEF ConnWorkers
    <3> QED
      BY <1>0, <1>1, <3>1, <3>2, <3>3, <3>4 DEF ConnWorkers
  <2>3. ConnOpened'
    BY <1>0, <1>1, <1>3, <2>1 DEF ConnOpened
  <2> QED
    BY <2>2, <2>3
<1>4. CASE connQueue = <<>>
  <2>0. connWorker' = [connWorker EXCEPT ![c] = "exited"] /\ connOp' = connOp /\ connQueue' = connQueue
    BY <1>4 DEF Conn!Pop
  <2>1. ConnWorkers' /\ ConnOpened'
    BY <1>0, <1>3, <1>4, <2>0
  <2>2. ConnType'
    BY <1>0, <1>1, <2>0 DEF ConnType
  <2>3. \A d \in Conn!Conns : connOp'[d] # 0 <=> connWorker'[d] = "execute"
    BY <1>0, <1>1, <2>0 DEF ConnOperations, ConnType
  <2>4. ConnOperations'
    BY <1>0, <1>1, <2>0, <2>3 DEF ConnOperations
  <2> QED
    BY <1>2, <2>1, <2>2, <2>4 DEF ConnInv
<1>5. CASE connQueue # <<>>
  <2>0. /\ connWorker' = [connWorker EXCEPT ![c] = "execute"]
        /\ connOp' = [connOp EXCEPT ![c] = Head(connQueue)] /\ connQueue' = Tail(connQueue)
    BY <1>5 DEF Conn!Pop
  <2>1. connQueue \in Seq(Nat) /\ Len(connQueue) \in Nat /\ Len(connQueue) # 0
    BY <1>1, <1>5 DEF ConnType
  <2>p. PICK e : e = connQueue[1]
    OBVIOUS
  <2>2. /\ connQueue' \in Seq(Nat) /\ Len(connQueue') = Len(connQueue) - 1
        /\ \A k \in 1..Len(connQueue') : connQueue'[k] = connQueue[k + 1]
    BY <2>0, <2>1
  <2>3. connOp' = [connOp EXCEPT ![c] = e] /\ 1 \in 1..Len(connQueue)
    BY <2>0, <2>1, <2>p
  <2>4. /\ \A k \in 1..Len(connQueue') : k + 1 \in 1..Len(connQueue) /\ k + 1 # 1
        /\ \A k \in 1..Len(connQueue) : k # 1 => k - 1 \in 1..Len(connQueue') /\ connQueue'[k - 1] = connQueue[k]
    <3>1. ASSUME NEW k \in 1..Len(connQueue), k # 1
          PROVE  k - 1 \in 1..Len(connQueue') /\ connQueue'[k - 1] = connQueue[k]
      <4>1. k - 1 \in 1..Len(connQueue') /\ (k - 1) + 1 = k
        BY <2>1, <2>2, <3>1
      <4> QED
        BY <2>2, <4>1
    <3>2. ASSUME NEW k \in 1..Len(connQueue') PROVE k + 1 \in 1..Len(connQueue) /\ k + 1 # 1
      BY <2>1, <2>2
    <3> QED
      BY <3>1, <3>2
  <2>5. ConnWorkers' /\ ConnOpened'
    BY <1>3, <1>5, <2>0
  <2>6. e \in 1..Len(promise) /\ promise[e] = "pending" /\ e # 0 /\ e \in Nat
    BY <1>1, <2>3, <2>p DEF ConnOperations
  <2>7. connOp'[c] = e /\ \A d \in Conn!Conns : d # c => connOp'[d] = connOp[d]
    BY <1>1, <2>3 DEF ConnType
  <2>8. connWorker'[c] = "execute" /\ \A d \in Conn!Conns : d # c => connWorker'[d] = connWorker[d]
    BY <1>1, <2>0 DEF ConnType
  <2>9. ConnType'
    BY <1>0, <1>1, <2>0, <2>2, <2>3, <2>6 DEF ConnType
  <2>10. ConnOperations'
    <3>0. /\ \A k \in 1..Len(connQueue) : connQueue[k] \in 1..Len(promise) /\ promise[connQueue[k]] = "pending"
          /\ \A d \in Conn!Conns : connOp[d] # 0 => connOp[d] \in 1..Len(promise) /\ promise[connOp[d]] = "pending"
          /\ \A j, k \in 1..Len(connQueue) : connQueue[j] = connQueue[k] => j = k
          /\ \A b, d \in Conn!Conns : connOp[b] = connOp[d] /\ connOp[b] # 0 => b = d
          /\ \A k \in 1..Len(connQueue), d \in Conn!Conns : connQueue[k] # connOp[d]
          /\ \A q \in 1..Len(promise) : promise[q] = "pending" =>
                (\E k \in 1..Len(connQueue) : connQueue[k] = q) \/ \E d \in Conn!Conns : connOp[d] = q
          /\ \A d \in Conn!Conns : connOp[d] # 0 <=> connWorker[d] = "execute"
      BY <1>1 DEF ConnOperations
    <3>1. \A k \in 1..Len(connQueue') : connQueue'[k] \in 1..Len(promise) /\ promise[connQueue'[k]] = "pending"
      BY <2>2, <2>4, <3>0
    <3>2. \A d \in Conn!Conns : connOp'[d] # 0 => connOp'[d] \in 1..Len(promise) /\ promise[connOp'[d]] = "pending"
      BY <2>6, <2>7, <3>0
    <3>3. \A j, k \in 1..Len(connQueue') : connQueue'[j] = connQueue'[k] => j = k
      <4>1. ASSUME NEW j \in 1..Len(connQueue'), NEW k \in 1..Len(connQueue'), connQueue'[j] = connQueue'[k]
            PROVE  j = k
        <5>1. connQueue[j + 1] = connQueue[k + 1] /\ j + 1 \in 1..Len(connQueue) /\ k + 1 \in 1..Len(connQueue)
          BY <2>2, <2>4, <4>1
        <5>2. j + 1 = k + 1
          BY <3>0, <5>1
        <5> QED
          BY <2>1, <2>2, <5>2
      <4> QED
        BY <4>1
    <3>4. \A d \in Conn!Conns : connOp[d] # e
      BY <2>3, <2>p, <3>0
    <3>5. \A b, d \in Conn!Conns : connOp'[b] = connOp'[d] /\ connOp'[b] # 0 => b = d
      BY <2>7, <3>0, <3>4
    <3>6. \A k \in 1..Len(connQueue') : connQueue'[k] # e
      BY <2>2, <2>3, <2>4, <2>p, <3>0
    <3>7. \A k \in 1..Len(connQueue'), d \in Conn!Conns : connQueue'[k] # connOp'[d]
      BY <2>2, <2>4, <2>7, <3>0, <3>6
    <3>8. \A q \in 1..Len(promise) : promise[q] = "pending" =>
             (\E k \in 1..Len(connQueue') : connQueue'[k] = q) \/ \E d \in Conn!Conns : connOp'[d] = q
      <4>1. ASSUME NEW q \in 1..Len(promise), promise[q] = "pending", q # e
            PROVE  (\E k \in 1..Len(connQueue') : connQueue'[k] = q) \/ \E d \in Conn!Conns : connOp'[d] = q
        <5>1. CASE \E k \in 1..Len(connQueue) : connQueue[k] = q
          <6>1. PICK k \in 1..Len(connQueue) : connQueue[k] = q
            BY <5>1
          <6>2. k - 1 \in 1..Len(connQueue') /\ connQueue'[k - 1] = q
            BY <2>4, <2>p, <4>1, <6>1
          <6> QED
            BY <6>2
        <5>2. CASE \E d \in Conn!Conns : connOp[d] = q
          <6>1. PICK d \in Conn!Conns : connOp[d] = q
            BY <5>2
          <6>2. connOp[c] = 0 /\ q # 0
            BY <1>0, <3>0
          <6> QED
            BY <2>7, <6>1, <6>2
        <5> QED
          BY <3>0, <4>1, <5>1, <5>2
      <4> QED
        BY <2>7, <4>1
    <3>9. \A d \in Conn!Conns : connOp'[d] # 0 <=> connWorker'[d] = "execute"
      BY <2>6, <2>7, <2>8, <3>0
    <3> QED
      BY <1>0, <3>1, <3>2, <3>3, <3>5, <3>7, <3>8, <3>9 DEF ConnOperations
  <2> QED
    BY <1>2, <2>5, <2>9, <2>10 DEF ConnInv
<1> QED
  BY <1>4, <1>5

\* A worker without a connection crashes; otherwise the promise gets its result.
LEMMA ConnExecute ==
  ASSUME ConnInv, NEW c \in Conn!Conns, NEW result \in {"rows", "null"},
         NEW outcome \in {"none", "ok", "connect", "setSchema"}, Conn!Execute(c, result, outcome)
  PROVE  ConnInv'
<1>0. /\ connWorker[c] = "execute" /\ connQueue' = connQueue /\ connNonblock' = connNonblock
      /\ connPending' = connPending /\ connAt' = connAt /\ connPhase' = connPhase /\ making' = making
      /\ invoked' = invoked
  BY DEF Conn!Execute
<1>1. ConnType /\ ConnCallbacks /\ ConnOperations /\ ConnWorkers /\ ConnOpened
  BY DEF ConnInv
<1>2. CASE conn_[c] # "open"
  <2>0. /\ connCrashed' = TRUE /\ conn_' = conn_ /\ connWorker' = connWorker /\ connOp' = connOp
        /\ promise' = promise /\ openFailed' = openFailed
    BY <1>2 DEF Conn!Execute
  <2>1. openFailed
    BY <1>0, <1>1, <1>2 DEF ConnOpened, ConnType
  <2>2. ConnType'
    BY <1>0, <1>1, <2>0 DEF ConnType
  <2>3. ConnCallbacks'
    BY <1>0, <1>1, <2>0 DEF ConnCallbacks
  <2>4. ConnOperations'
    BY <1>0, <1>1, <2>0 DEF ConnOperations
  <2>5. ConnWorkers'
    BY <1>0, <1>1, <2>0 DEF ConnWorkers
  <2>6. ConnOpened'
    BY <1>0, <1>1, <2>0, <2>1 DEF ConnOpened
  <2> QED
    BY <2>2, <2>3, <2>4, <2>5, <2>6 DEF ConnInv
<1>3. CASE conn_[c] = "open"
  <2>p. PICK e, a : e = connOp[c] /\ a = Conn!AfterOpen("null", outcome)
    OBVIOUS
  <2>0. /\ promise' = [promise EXCEPT ![e] = result] /\ connOp' = [connOp EXCEPT ![c] = 0]
        /\ connWorker' = [connWorker EXCEPT ![c] = "pop"]
        /\ conn_' = IF outcome = "none" THEN conn_ ELSE [conn_ EXCEPT ![c] = a]
        /\ openFailed' = (openFailed \/ outcome \notin {"none", "ok"})
        /\ connCrashed' = connCrashed
    BY <1>3, <2>p DEF Conn!Execute
  <2>1. e \in 1..Len(promise) /\ promise[e] = "pending" /\ e # 0
    BY <1>0, <1>1, <2>p DEF ConnOperations
  <2>2. outcome # "none" => a \in {"null", "open"} /\ (outcome = "ok" => a = "open")
    <3>1. outcome = "ok" => Conn!AfterOpen("null", outcome) = "open"
      BY DEF Conn!AfterOpen
    <3>2. outcome = "setSchema" => Conn!AfterOpen("null", outcome) = "open"
      BY DEF Conn!AfterOpen
    <3>3. outcome = "connect" => Conn!AfterOpen("null", outcome) = "null"
      BY DEF Conn!AfterOpen
    <3> QED
      BY <2>p, <3>1, <3>2, <3>3
  <2>3. /\ promise \in Seq({"pending", "rows", "null"})
        /\ promise' \in Seq({"pending", "rows", "null"}) /\ Len(promise') = Len(promise)
        /\ promise'[e] = result /\ \A q \in 1..Len(promise) : q # e => promise'[q] = promise[q]
    BY <1>1, <2>0, <2>1 DEF ConnType
  <2>4. connOp'[c] = 0 /\ \A d \in Conn!Conns : d # c => connOp'[d] = connOp[d]
    BY <1>1, <2>0 DEF ConnType
  <2>5. connWorker'[c] = "pop" /\ \A d \in Conn!Conns : d # c => connWorker'[d] = connWorker[d]
    BY <1>1, <2>0 DEF ConnType
  <2>6. ConnType'
    BY <1>0, <1>1, <2>0, <2>2, <2>3 DEF ConnType
  <2>7. ConnCallbacks'
    <3>1. \A k \in 1..Len(invoked) : invoked[k][1] # e
      <4>1. \A k \in 1..Len(invoked) : invoked[k][2] \in {"rows", "null"}
        BY <1>1 DEF ConnType
      <4>2. \A k \in 1..Len(invoked) : invoked[k][2] = promise[invoked[k][1]]
        BY <1>1 DEF ConnCallbacks
      <4> QED
        BY <2>1, <4>1, <4>2
    <3>2. \A k \in 1..Len(invoked) : invoked[k][1] \in 1..Len(promise) /\ invoked[k][2] = promise'[invoked[k][1]]
      BY <1>1, <2>3, <3>1 DEF ConnCallbacks
    <3> QED
      BY <1>0, <1>1, <2>3, <3>2, ZenonT(30) DEF ConnCallbacks
  <2>8. ConnOperations'
    <3>0. /\ \A k \in 1..Len(connQueue) : connQueue[k] \in 1..Len(promise) /\ promise[connQueue[k]] = "pending"
          /\ \A d \in Conn!Conns : connOp[d] # 0 => connOp[d] \in 1..Len(promise) /\ promise[connOp[d]] = "pending"
          /\ \A j, k \in 1..Len(connQueue) : connQueue[j] = connQueue[k] => j = k
          /\ \A b, d \in Conn!Conns : connOp[b] = connOp[d] /\ connOp[b] # 0 => b = d
          /\ \A k \in 1..Len(connQueue), d \in Conn!Conns : connQueue[k] # connOp[d]
          /\ \A q \in 1..Len(promise) : promise[q] = "pending" =>
                (\E k \in 1..Len(connQueue) : connQueue[k] = q) \/ \E d \in Conn!Conns : connOp[d] = q
          /\ \A d \in Conn!Conns : connOp[d] # 0 <=> connWorker[d] = "execute"
      BY <1>1 DEF ConnOperations
    <3>1. \A k \in 1..Len(connQueue) : connQueue[k] \in 1..Len(promise) /\ promise'[connQueue[k]] = "pending"
      BY <2>3, <2>p, <3>0
    <3>2. \A d \in Conn!Conns : connOp'[d] # 0 => connOp'[d] \in 1..Len(promise) /\ promise'[connOp'[d]] = "pending"
      BY <2>1, <2>3, <2>4, <2>p, <3>0
    <3>3. \A b, d \in Conn!Conns : connOp'[b] = connOp'[d] /\ connOp'[b] # 0 => b = d
      BY <2>4, <3>0
    <3>4. \A k \in 1..Len(connQueue), d \in Conn!Conns : connQueue[k] # connOp'[d]
      <4>1. \A k \in 1..Len(connQueue) : connQueue[k] # 0
        BY <3>0
      <4> QED
        BY <2>4, <3>0, <4>1
    <3>5. \A q \in 1..Len(promise) : promise'[q] = "pending" =>
             (\E k \in 1..Len(connQueue) : connQueue[k] = q) \/ \E d \in Conn!Conns : connOp'[d] = q
      <4>1. ASSUME NEW q \in 1..Len(promise), promise'[q] = "pending"
            PROVE  (\E k \in 1..Len(connQueue) : connQueue[k] = q) \/ \E d \in Conn!Conns : connOp'[d] = q
        <5>1. q # e /\ promise[q] = "pending"
          BY <2>3, <4>1
        <5>2. (\E k \in 1..Len(connQueue) : connQueue[k] = q) \/ \E d \in Conn!Conns : connOp[d] = q
          BY <3>0, <5>1
        <5>3. \A d \in Conn!Conns : connOp[d] = q => connOp'[d] = q
          BY <2>4, <2>p, <5>1
        <5> QED
          BY <5>2, <5>3
      <4> QED
        BY <4>1
    <3>6. \A d \in Conn!Conns : connOp'[d] # 0 <=> connWorker'[d] = "execute"
      BY <2>4, <2>5, <3>0
    <3> QED
      BY <1>0, <2>3, <3>0, <3>1, <3>2, <3>3, <3>4, <3>5, <3>6 DEF ConnOperations
  <2>9. ConnWorkers'
    <3>1. \A d \in Conn!Conns : connWorker'[d] = "exited" => connNonblock /\ connQueue = <<>>
      BY <1>1, <2>5 DEF ConnWorkers
    <3>2. connPhase = "init" => \A d \in Conn!Conns : d >= making => connWorker'[d] = "none"
      BY <1>0, <1>1, <2>5 DEF ConnWorkers
    <3>3. connPhase = "cancelled" => \A d \in Conn!Conns : d < making => connWorker'[d] = "exited"
      BY <1>0, <1>1, <2>5 DEF ConnWorkers
    <3>4. connPhase = "gone" => \A d \in Conn!Conns : connWorker'[d] = "exited"
      BY <1>0, <1>1, <2>5 DEF ConnWorkers
    <3> QED
      BY <1>0, <1>1, <3>1, <3>2, <3>3, <3>4 DEF ConnWorkers
  <2>10. ConnOpened'
    <3>1. ASSUME ~openFailed' PROVE conn_'[c] = "open" /\ ~openFailed
      <4>1. ~openFailed /\ outcome \in {"none", "ok"}
        BY <2>0, <3>1
      <4> QED
        BY <1>1, <1>3, <2>0, <2>2, <4>1 DEF ConnType
    <3>2. \A d \in Conn!Conns : d # c => conn_'[d] = conn_[d]
      BY <1>1, <2>0 DEF ConnType
    <3>3. connCrashed' => openFailed'
      BY <1>1, <2>0 DEF ConnOpened
    <3> QED
      BY <1>1, <2>5, <3>1, <3>2, <3>3 DEF ConnOpened
  <2> QED
    BY <2>6, <2>7, <2>8, <2>9, <2>10 DEF ConnInv
<1> QED
  BY <1>2, <1>3

\* What erasing one element leaves, place by place.
LEMMA ConnErased ==
  ASSUME NEW s \in Seq(Nat), NEW p \in 1..Len(s)
  PROVE  /\ Conn!RemoveAt(s, p) \in Seq(Nat) /\ Len(Conn!RemoveAt(s, p)) = Len(s) - 1
         /\ \A i \in 1..(p - 1) : Conn!RemoveAt(s, p)[i] = s[i]
         /\ \A i \in p..(Len(s) - 1) : Conn!RemoveAt(s, p)[i] = s[i + 1]
<1> DEFINE a == SubSeq(s, 1, p - 1)
           b == SubSeq(s, p + 1, Len(s))
<1>0. Len(s) \in Nat /\ p \in Nat /\ p >= 1 /\ p <= Len(s) /\ \A i \in 1..Len(s) : s[i] \in Nat
  OBVIOUS
<1>1. a \in Seq(Nat) /\ Len(a) = p - 1 /\ \A i \in 1..(p - 1) : a[i] = s[i]
  BY <1>0
<1>2. b \in Seq(Nat) /\ Len(b) = Len(s) - p /\ \A i \in 1..(Len(s) - p) : b[i] = s[p + i]
  BY <1>0
<1>3. Conn!RemoveAt(s, p) = a \o b
  BY DEF Conn!RemoveAt
<1> HIDE DEF a, b
<1>4. /\ a \o b \in Seq(Nat) /\ Len(a \o b) = Len(s) - 1
      /\ \A i \in 1..(p - 1) : (a \o b)[i] = s[i]
  BY <1>0, <1>1, <1>2
<1>5. ASSUME NEW i \in p..(Len(s) - 1) PROVE (a \o b)[i] = s[i + 1]
  <2>1. i - (p - 1) \in 1..(Len(s) - p) /\ p + (i - (p - 1)) = i + 1 /\ i \in 1..(Len(a) + Len(b)) /\ i > Len(a)
    BY <1>0, <1>1, <1>2
  <2>2. (a \o b)[i] = b[i - Len(a)]
    <3>1. a \in Seq(Nat) /\ b \in Seq(Nat)
      BY <1>1, <1>2
    <3>2. \A j \in 1..(Len(a) + Len(b)) : (a \o b)[j] = IF j <= Len(a) THEN a[j] ELSE b[j - Len(a)]
      BY <3>1, ConcatProperties
    <3>3. ~(i <= Len(a))
      BY <1>0, <1>1, <2>1
    <3> QED
      BY <2>1, <3>2, <3>3
  <2> QED
    BY <1>1, <1>2, <2>1, <2>2
<1> QED
  BY <1>3, <1>4, <1>5

\* InvokeIfReady looks at the next query: a result goes to its callback.
LEMMA ConnInvoke ==
  ASSUME ConnInv, Conn!InvokeIfReady
  PROVE  ConnInv'
<1>0. /\ connAt # 0 /\ conn_' = conn_ /\ connWorker' = connWorker /\ connOp' = connOp /\ connQueue' = connQueue
      /\ connNonblock' = connNonblock /\ promise' = promise /\ connPhase' = connPhase /\ making' = making
      /\ connCrashed' = connCrashed /\ openFailed' = openFailed
  BY DEF Conn!InvokeIfReady
<1>1. ConnType /\ ConnCallbacks /\ ConnOperations /\ ConnWorkers /\ ConnOpened
  BY DEF ConnInv
<1>2. ConnOperations' /\ ConnWorkers' /\ ConnOpened'
  <2>1. ConnOperations'
    BY <1>0, <1>1 DEF ConnOperations
  <2>2. ConnWorkers'
    BY <1>0, <1>1 DEF ConnWorkers
  <2>3. ConnOpened'
    BY <1>0, <1>1 DEF ConnOpened
  <2> QED
    BY <2>1, <2>2, <2>3
<1>p. PICK e, p, m, n : e = connPending[connAt] /\ p = connAt /\ m = Len(connPending) /\ n = Len(invoked)
  OBVIOUS
<1>3. /\ connPending \in Seq(Nat) /\ invoked \in Seq(Nat \X {"rows", "null"})
      /\ m \in Nat /\ p \in 1..m /\ p \in Nat /\ n \in Nat /\ e = connPending[p] /\ e \in 1..Len(promise) /\ e \in Nat
  <2>1. /\ connPending \in Seq(Nat) /\ invoked \in Seq(Nat \X {"rows", "null"}) /\ connAt \in 0..Len(connPending)
    BY <1>1 DEF ConnType
  <2>2. m \in Nat /\ n \in Nat /\ p \in 1..m
    BY <1>0, <1>p, <2>1
  <2>3. e \in 1..Len(promise)
    BY <1>1, <1>p, <2>2 DEF ConnCallbacks
  <2> QED
    BY <1>p, <2>1, <2>2, <2>3
<1>4. CASE promise[e] = "pending"
  <2>0. connPending' = connPending /\ invoked' = invoked /\ connAt' = IF p = m THEN 0 ELSE p + 1
    BY <1>4, <1>p DEF Conn!InvokeIfReady
  <2>1. connAt' \in 0..Len(connPending)
    BY <1>3, <1>p, <2>0
  <2>2. ConnType'
    BY <1>0, <1>1, <2>0, <2>1 DEF ConnType
  <2>3. ConnCallbacks'
    BY <1>0, <1>1, <2>0 DEF ConnCallbacks
  <2> QED
    BY <1>2, <2>2, <2>3 DEF ConnInv
<1>5. CASE promise[e] # "pending"
  <2>0. /\ invoked' = Append(invoked, <<e, promise[e]>>) /\ connPending' = Conn!RemoveAt(connPending, p)
        /\ connAt' = IF p > Len(connPending') THEN 0 ELSE p
    BY <1>5, <1>p DEF Conn!InvokeIfReady
  <2>1. promise[e] \in {"rows", "null"}
    BY <1>1, <1>3, <1>5 DEF ConnType
  <2>2. /\ connPending' \in Seq(Nat) /\ Len(connPending') = m - 1
        /\ \A i \in 1..(p - 1) : connPending'[i] = connPending[i]
        /\ \A i \in p..(m - 1) : connPending'[i] = connPending[i + 1]
    BY <1>3, <1>p, <2>0, ConnErased
  <2>3. /\ invoked' \in Seq(Nat \X {"rows", "null"}) /\ Len(invoked') = n + 1
        /\ invoked'[n + 1] = <<e, promise[e]>> /\ \A k \in 1..n : invoked'[k] = invoked[k]
    <3>1. <<e, promise[e]>> \in Nat \X {"rows", "null"}
      BY <1>3, <2>1
    <3> QED
      BY <1>3, <1>p, <2>0, <3>1
  <2>4. connAt' \in 0..Len(connPending')
    BY <1>3, <2>0, <2>2
  <2>5. ConnType'
    BY <1>0, <1>1, <2>2, <2>3, <2>4 DEF ConnType
  <2>6. \A i \in 1..(m - 1) : \E k \in 1..m : k # p /\ connPending'[i] = connPending[k] /\ k = IF i < p THEN i ELSE i + 1
    <3>1. ASSUME NEW i \in 1..(m - 1), i < p
          PROVE  i \in 1..m /\ i # p /\ connPending'[i] = connPending[i]
      BY <1>3, <2>2, <3>1
    <3>2. ASSUME NEW i \in 1..(m - 1), ~(i < p)
          PROVE  i + 1 \in 1..m /\ i + 1 # p /\ connPending'[i] = connPending[i + 1]
      BY <1>3, <2>2, <3>2
    <3> QED
      BY <3>1, <3>2
  <2>7. \A k \in 1..m : k # p => \E i \in 1..(m - 1) : connPending'[i] = connPending[k]
    <3>1. ASSUME NEW k \in 1..m, k < p PROVE k \in 1..(m - 1) /\ connPending'[k] = connPending[k]
      BY <1>3, <2>2, <3>1
    <3>2. ASSUME NEW k \in 1..m, k > p PROVE k - 1 \in 1..(m - 1) /\ connPending'[k - 1] = connPending[k]
      <4>1. k - 1 \in p..(m - 1) /\ (k - 1) + 1 = k /\ k - 1 \in 1..(m - 1)
        BY <1>3, <3>2
      <4> QED
        BY <2>2, <4>1
    <3>3. \A k \in 1..m : k # p => k < p \/ k > p
      BY <1>3
    <3> QED
      BY <3>1, <3>2, <3>3
  <2>8. ConnCallbacks'
    <3>0. /\ \A k \in 1..m : connPending[k] \in 1..Len(promise)
          /\ \A k \in 1..n : invoked[k][1] \in 1..Len(promise) /\ invoked[k][2] = promise[invoked[k][1]]
          /\ \A j, k \in 1..m : connPending[j] = connPending[k] => j = k
          /\ \A j, k \in 1..n : invoked[j][1] = invoked[k][1] => j = k
          /\ \A j \in 1..m, k \in 1..n : connPending[j] # invoked[k][1]
      BY <1>1, <1>p DEF ConnCallbacks
    <3>a. \A q \in 1..Len(promise) : (\E k \in 1..m : connPending[k] = q) \/ \E k \in 1..n : invoked[k][1] = q
      BY <1>1, <1>p DEF ConnCallbacks
    <3>b. 1..(n + 1) = 1..n \cup {n + 1} /\ n + 1 \notin 1..n
      BY <1>3
    <3>q. PICK x, I, W : x = n + 1 /\ I = 1..n /\ W = 1..(m - 1)
      OBVIOUS
    <3>c. /\ 1..Len(invoked') = I \cup {x} /\ x \notin I /\ invoked'[x] = <<e, promise[e]>>
          /\ \A k \in I : invoked'[k] = invoked[k]
      BY <2>3, <3>b, <3>q
    <3>d. 1..Len(connPending') = W
      BY <2>2, <3>q
    <3>1. \A k \in W : connPending'[k] \in 1..Len(promise) /\ connPending'[k] # e
      <4>1. ASSUME NEW k \in W PROVE connPending'[k] \in 1..Len(promise) /\ connPending'[k] # e
        <5>1. PICK j \in 1..m : j # p /\ connPending'[k] = connPending[j]
          BY <2>6, <3>q
        <5> QED
          BY <1>3, <3>0, <5>1
      <4> QED
        BY <4>1
    <3>2. \A k \in I \cup {x} : invoked'[k][1] \in 1..Len(promise) /\ invoked'[k][2] = promise[invoked'[k][1]]
      <4>1. \A k \in I : invoked'[k][1] \in 1..Len(promise) /\ invoked'[k][2] = promise[invoked'[k][1]]
        BY <3>0, <3>c, <3>q
      <4>2. invoked'[x][1] = e /\ invoked'[x][2] = promise[e]
        BY <3>c
      <4> QED
        BY <1>3, <4>1, <4>2
    <3>3. \A j, k \in W : connPending'[j] = connPending'[k] => j = k
      <4>1. ASSUME NEW j \in W, NEW k \in W, connPending'[j] = connPending'[k] PROVE j = k
        <5>1. (IF j < p THEN j ELSE j + 1) = (IF k < p THEN k ELSE k + 1)
          BY <2>6, <3>0, <3>q, <4>1
        <5> QED
          BY <1>3, <3>q, <5>1
      <4> QED
        BY <4>1
    <3>4. \A k \in I : invoked[k][1] # e
      BY <1>3, <3>0, <3>q
    <3>5. \A j, k \in I \cup {x} : invoked'[j][1] = invoked'[k][1] => j = k
      BY <3>0, <3>4, <3>c, <3>q
    <3>6. \A j \in W, k \in I \cup {x} : connPending'[j] # invoked'[k][1]
      <4>1. \A j \in W, k \in I : connPending'[j] # invoked[k][1]
        BY <2>6, <3>0, <3>q
      <4> QED
        BY <3>1, <3>c, <4>1
    <3>7. \A q \in 1..Len(promise) : (\E k \in W : connPending'[k] = q) \/ \E k \in I \cup {x} : invoked'[k][1] = q
      <4>1. ASSUME NEW q \in 1..Len(promise)
            PROVE  (\E k \in W : connPending'[k] = q) \/ \E k \in I \cup {x} : invoked'[k][1] = q
        <5>1. CASE q = e
          <6>1. x \in I \cup {x} /\ invoked'[x][1] = q
            BY <3>c, <5>1
          <6> QED
            BY <6>1
        <5>2. CASE q # e /\ \E k \in 1..m : connPending[k] = q
          BY <1>3, <2>7, <3>q, <5>2
        <5>3. CASE \E k \in 1..n : invoked[k][1] = q
          BY <3>c, <3>q, <5>3
        <5> QED
          BY <3>a, <5>1, <5>2, <5>3
      <4> QED
        BY <4>1
    <3> QED
      BY <1>0, <3>1, <3>2, <3>3, <3>5, <3>6, <3>7, <3>c, <3>d, ZenonT(30) DEF ConnCallbacks
  <2> QED
    BY <1>2, <2>5, <2>8 DEF ConnInv
<1> QED
  BY <1>4, <1>5

\* The steps of the client that leave the queries alone.
LEMMA ConnRest ==
  ASSUME ConnInv, Conn!Poll \/ Conn!Cancel \/ Conn!DestroyConn
  PROVE  ConnInv'
<1>0. /\ connWorker' = connWorker /\ connOp' = connOp /\ connQueue' = connQueue /\ promise' = promise
      /\ connPending' = connPending /\ invoked' = invoked /\ openFailed' = openFailed
  BY DEF Conn!Poll, Conn!Cancel, Conn!DestroyConn
<1>1. ConnType /\ ConnCallbacks /\ ConnOperations /\ ConnWorkers /\ ConnOpened
  BY DEF ConnInv
<1>2. ConnCallbacks'
  BY <1>0, <1>1 DEF ConnCallbacks
<1>3. ConnOperations'
  BY <1>0, <1>1 DEF ConnOperations
<1>4. CASE Conn!Poll
  <2>0. /\ connPending # <<>> /\ connAt' = 1 /\ conn_' = conn_ /\ connNonblock' = connNonblock
        /\ connPhase' = connPhase /\ making' = making /\ connCrashed' = connCrashed
    BY <1>4 DEF Conn!Poll
  <2>1. connAt' \in 0..Len(connPending)
    <3>1. connPending \in Seq(Nat)
      BY <1>1 DEF ConnType
    <3>2. Len(connPending) \in Nat /\ Len(connPending) # 0
      BY <2>0, <3>1
    <3> QED
      BY <2>0, <3>2
  <2>2. ConnType'
    BY <1>0, <1>1, <2>0, <2>1 DEF ConnType
  <2>3. ConnWorkers'
    BY <1>0, <1>1, <2>0 DEF ConnWorkers
  <2>4. ConnOpened'
    BY <1>0, <1>1, <2>0 DEF ConnOpened
  <2> QED
    BY <1>2, <1>3, <2>2, <2>3, <2>4 DEF ConnInv
<1>5. CASE Conn!Cancel
  <2>0. /\ connPhase = "open" /\ connNonblock' = TRUE /\ connPhase' = "cancelled" /\ conn_' = conn_
        /\ connAt' = connAt /\ making' = making /\ connCrashed' = connCrashed
    BY <1>5 DEF Conn!Cancel
  <2>1. making = 1
    BY <1>1, <2>0 DEF ConnWorkers
  <2>2. ConnType'
    BY <1>0, <1>1, <2>0 DEF ConnType
  <2>3. ConnWorkers'
    <3>1. \A c \in Conn!Conns : ~(c < making)
      BY <2>1 DEF Conn!Conns
    <3>2. \A c \in Conn!Conns : connWorker'[c] = "exited" => connNonblock' /\ connQueue' = <<>>
      BY <1>0, <1>1, <2>0 DEF ConnWorkers
    <3> QED
      BY <2>0, <3>1, <3>2 DEF ConnWorkers
  <2>4. ConnOpened'
    BY <1>0, <1>1, <2>0 DEF ConnOpened
  <2> QED
    BY <1>2, <1>3, <2>2, <2>3, <2>4 DEF ConnInv
<1>6. CASE Conn!DestroyConn
  <2>0. /\ connPhase = "cancelled" /\ connWorker[making] = "exited"
        /\ connCrashed' = (conn_[making] = "uninitialised") /\ conn_' = [conn_ EXCEPT ![making] = "null"]
        /\ making' = IF making = PoolSize THEN 1 ELSE making + 1
        /\ connPhase' = IF making = PoolSize THEN "gone" ELSE connPhase
        /\ connNonblock' = connNonblock /\ connAt' = connAt
    BY <1>6 DEF Conn!DestroyConn
  <2>1. making \in 1..PoolSize /\ Conn!Conns = 1..PoolSize /\ PoolSize \in Nat \ {0}
    BY <1>1, ConnConstants DEF ConnType, Conn!Conns
  <2>2. making' \in Conn!Conns
    BY <2>0, <2>1
  <2>3. ConnType'
    <3>1. conn_' \in [Conn!Conns -> {"uninitialised", "null", "open"}]
      BY <1>1, <2>0 DEF ConnType
    <3> QED
      BY <1>0, <1>1, <2>0, <2>2, <3>1 DEF ConnType
  <2>4. ConnWorkers'
    <3>1. connPhase' = "cancelled" => \A c \in Conn!Conns : c < making' => connWorker[c] = "exited"
      <4>1. ASSUME making # PoolSize, NEW c \in Conn!Conns, c < making + 1 PROVE connWorker[c] = "exited"
        <5>1. c < making \/ c = making
          BY <2>1, <4>1
        <5> QED
          BY <1>1, <2>0, <5>1 DEF ConnWorkers
      <4> QED
        BY <2>0, <4>1
    <3>2. connPhase' = "gone" => \A c \in Conn!Conns : connWorker[c] = "exited"
      <4>1. ASSUME making = PoolSize, NEW c \in Conn!Conns PROVE connWorker[c] = "exited"
        <5>1. c < making \/ c = making
          BY <2>1, <4>1
        <5> QED
          BY <1>1, <2>0, <5>1 DEF ConnWorkers
      <4> QED
        BY <2>0, <4>1
    <3>3. connPhase' \in {"cancelled", "gone"}
      BY <2>0
    <3> QED
      BY <1>0, <1>1, <2>0, <3>1, <3>2, <3>3 DEF ConnWorkers
  <2>5. ConnOpened'
    <3>1. \A c \in Conn!Conns : c # making => conn_'[c] = conn_[c]
      BY <1>1, <2>0 DEF ConnType
    <3>2. conn_'[making] = "null"
      BY <1>1, <2>0 DEF ConnType
    <3>3. connCrashed' => openFailed
      BY <1>1, <2>0 DEF ConnOpened, ConnType
    <3> QED
      BY <1>0, <1>1, <2>0, <3>1, <3>2, <3>3 DEF ConnOpened
  <2> QED
    BY <1>2, <1>3, <2>3, <2>4, <2>5 DEF ConnInv
<1> QED
  BY <1>4, <1>5, <1>6

\* Every step keeps the invariant of mysqlconnpool.
LEMMA ConnNext == ConnInv /\ [Conn!Next]_connVars => ConnInv'
<1> SUFFICES ASSUME ConnInv, [Conn!Next]_connVars PROVE ConnInv'
  OBVIOUS
<1>1. CASE Conn!Next
  BY <1>1, ConnInitPool, ConnQuery, ConnPop, ConnExecute, ConnInvoke, ConnRest DEF Conn!Next
<1>2. CASE UNCHANGED connVars
  <2>1. /\ conn_' = conn_ /\ connWorker' = connWorker /\ connOp' = connOp /\ connQueue' = connQueue
        /\ connNonblock' = connNonblock /\ promise' = promise /\ connPending' = connPending
        /\ connAt' = connAt /\ connPhase' = connPhase /\ making' = making /\ invoked' = invoked
        /\ connCrashed' = connCrashed /\ openFailed' = openFailed
    BY <1>2 DEF connVars
  <2> QED
    BY <2>1 DEF ConnInv, ConnType, ConnCallbacks, ConnOperations, ConnWorkers, ConnOpened
<1> QED
  BY <1>1, <1>2

\* The invariant gives the property.
LEMMA ConnSound == ConnInv => Conn!ConnPoolSound
<1> SUFFICES ASSUME ConnInv PROVE Conn!ConnPoolSound
  OBVIOUS
<1>0. ConnType /\ ConnCallbacks /\ ConnOperations /\ ConnWorkers /\ ConnOpened
  BY DEF ConnInv
<1>1. /\ DOMAIN promise = 1..Len(promise) /\ DOMAIN connPending = 1..Len(connPending)
      /\ DOMAIN invoked = 1..Len(invoked) /\ DOMAIN connQueue = 1..Len(connQueue)
  BY <1>0 DEF ConnType
<1>2. ASSUME NEW q \in 1..Len(promise)
      PROVE  Conn!Cardinality({k \in 1..Len(connPending) : connPending[k] = q})
               + Conn!Cardinality({k \in 1..Len(invoked) : invoked[k][1] = q}) = 1
  <2>1. \A S : Conn!Cardinality(S) = Cardinality(S)
    BY DEF Conn!Cardinality, Cardinality
  <2> DEFINE A == {k \in 1..Len(connPending) : connPending[k] = q}
             B == {k \in 1..Len(invoked) : invoked[k][1] = q}
  <2> SUFFICES Conn!Cardinality(A) + Conn!Cardinality(B) = 1
    OBVIOUS
  <2>2. CASE \E k \in 1..Len(connPending) : connPending[k] = q
    <3>1. PICK k \in 1..Len(connPending) : connPending[k] = q
      BY <2>2
    <3>2. A = {k}
      BY <1>0, <3>1 DEF ConnCallbacks
    <3>3. B = {}
      BY <1>0, <3>1 DEF ConnCallbacks
    <3>4. Cardinality({k}) = 1 /\ Cardinality({}) = 0
      BY FS_Singleton, FS_EmptySet
    <3>5. Conn!Cardinality({k}) = 1 /\ Conn!Cardinality({}) = 0
      BY <2>1, <3>4
    <3> HIDE DEF A, B
    <3> QED
      BY <3>2, <3>3, <3>5
  <2>3. CASE \E k \in 1..Len(invoked) : invoked[k][1] = q
    <3>1. PICK k \in 1..Len(invoked) : invoked[k][1] = q
      BY <2>3
    <3>2. B = {k}
      BY <1>0, <3>1 DEF ConnCallbacks
    <3>3. A = {}
      BY <1>0, <3>1 DEF ConnCallbacks
    <3>4. Cardinality({k}) = 1 /\ Cardinality({}) = 0
      BY FS_Singleton, FS_EmptySet
    <3>5. Conn!Cardinality({k}) = 1 /\ Conn!Cardinality({}) = 0
      BY <2>1, <3>4
    <3> HIDE DEF A, B
    <3> QED
      BY <3>2, <3>3, <3>5
  <2> QED
    BY <1>0, <2>2, <2>3 DEF ConnCallbacks
<1>3. ASSUME NEW q \in 1..Len(promise)
      PROVE  promise[q] = "pending" <=> (\E k \in 1..Len(connQueue) : connQueue[k] = q)
                                        \/ \E c \in Conn!Conns : connOp[c] = q
  BY <1>0 DEF ConnOperations
<1>4. \A k \in 1..Len(invoked) : invoked[k][2] = promise[invoked[k][1]]
  BY <1>0 DEF ConnCallbacks
<1>5. ASSUME connPhase = "gone"
      PROVE  (\A q \in 1..Len(promise) : promise[q] # "pending") /\ \A c \in Conn!Conns : connWorker[c] = "exited"
  <2>1. \A c \in Conn!Conns : connWorker[c] = "exited"
    BY <1>0, <1>5 DEF ConnWorkers
  <2>2. 1 \in Conn!Conns
    BY ConnConstants DEF Conn!Conns
  <2>3. connQueue = <<>>
    BY <1>0, <2>1, <2>2 DEF ConnWorkers
  <2>4. \A c \in Conn!Conns : connOp[c] = 0
    BY <1>0, <2>1 DEF ConnOperations
  <2>5. ASSUME NEW q \in 1..Len(promise), promise[q] = "pending" PROVE FALSE
    <3>1. \A k : k \notin 1..Len(connQueue)
      BY <2>3
    <3>2. q # 0
      OBVIOUS
    <3> QED
      BY <1>3, <2>4, <2>5, <3>1, <3>2
  <2> QED
    BY <2>1, <2>5
<1>6. connCrashed => openFailed
  BY <1>0 DEF ConnOpened
<1>7. \A q \in DOMAIN promise :
        /\ Conn!Cardinality({k \in DOMAIN connPending : connPending[k] = q})
             + Conn!Cardinality({k \in DOMAIN invoked : invoked[k][1] = q}) = 1
        /\ promise[q] = "pending" <=> (\E k \in DOMAIN connQueue : connQueue[k] = q)
                                      \/ \E c \in Conn!Conns : connOp[c] = q
  BY <1>1, <1>2, <1>3
<1>8. \A k \in DOMAIN invoked : invoked[k][2] = promise[invoked[k][1]]
  BY <1>1, <1>4
<1>9. connPhase = "gone" =>
        (\A q \in DOMAIN promise : promise[q] # "pending") /\ \A c \in Conn!Conns : connWorker[c] = "exited"
  BY <1>1, <1>5
<1> QED
  BY <1>6, <1>7, <1>8, <1>9, Zenon DEF Conn!ConnPoolSound

------------------------------------------------------------------------------
(* The connections together                                                *)

\* The inductive invariants of the loader, the synchronous connections and mysqlconnpool.
ConnectionsInv == LoaderInv /\ SyncInv /\ ConnInv

\* A step of one of the three leaves the others alone.
LEMMA ConnectionsInvStep == ConnectionsInv /\ [ConnectionsNext]_connectionsVars => ConnectionsInv'
<1> SUFFICES ASSUME ConnectionsInv, [ConnectionsNext]_connectionsVars PROVE ConnectionsInv'
  OBVIOUS
<1>1. [Loader!Next]_loaderVars
  BY DEF ConnectionsNext, connectionsVars
<1>2. [Sync!Next]_syncVars
  BY DEF ConnectionsNext, connectionsVars
<1>3. [Conn!Next]_connVars
  BY DEF ConnectionsNext, connectionsVars
<1> QED
  BY <1>1, <1>2, <1>3, LoaderNext, SyncNext, ConnNext DEF ConnectionsInv

\* With any number of databases, of connections and of callers: a load that fails has
\* closed what it opened, last opened first, no caller uses a synchronous connection
\* whose lock another one has, and the workers of mysqlconnpool answer every query
\* they take, whose callback runs once and with its result.
THEOREM Connections == ConnectionsSpec => []ConnectionsSound
<1>1. ConnectionsInit => ConnectionsInv
  BY LoaderInit, SyncInit, ConnInit DEF ConnectionsInit, ConnectionsInv
<1>2. ConnectionsInv /\ [ConnectionsNext]_connectionsVars => ConnectionsInv'
  BY ConnectionsInvStep
<1>3. ConnectionsInv => ConnectionsSound
  BY LoaderSound, SyncSound, ConnSound DEF ConnectionsInv, ConnectionsSound
<1> QED
  BY <1>1, <1>2, <1>3, PTL DEF ConnectionsSpec
==============================================================================
