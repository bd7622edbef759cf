--------------------------- MODULE ComponentProofs ---------------------------
(***************************************************************************)
(* Theorems about ThreadPool, for every number of workers and of tasks,    *)
(* and about Components: atomic_lock, the memory pool, the millisecond     *)
(* timers and network_buffer_design.                                       *)
(***************************************************************************)
EXTENDS ThreadPool, Components, Division, FiniteSetTheorems, SequenceTheorems, TLAPS

------------------------------------------------------------------------------
(* Type correctness                                                        *)

\* A pool under construction is well typed.
LEMMA InitType == Init => TypeOK
<1> SUFFICES ASSUME Init PROVE TypeOK
  OBVIOUS
<1>1. queue_ \in Seq(1..MaxTasks) /\ begun \in Seq(1..MaxTasks)
  BY DEF Init, BQInit
<1>2. nonblock_ \in BOOLEAN /\ notEmpty \in SUBSET Workers
  BY DEF Init, BQInit
<1>3. /\ joined \in 0..ThreadNum /\ posted \in 0..MaxTasks
      /\ pc \in [Workers -> {"unborn", "pop", "run", "exited"}]
      /\ task \in [Workers -> 0..MaxTasks]
      /\ \A w \in Workers : pc[w] = "run" <=> task[w] # 0
  BY ThreadPoolAssumption DEF Init
<1>4. finished \in SUBSET (1..MaxTasks) /\ phase \in {"ctor", "live", "dtor", "gone"}
  BY DEF Init
<1> QED
  BY <1>1, <1>2, <1>3, <1>4 DEF TypeOK

\* Post keeps the queue and its waiters typed.
LEMMA PostTaskType ==
  ASSUME TypeOK, PostTask
  PROVE  /\ queue_' \in Seq(1..MaxTasks)
         /\ nonblock_' \in BOOLEAN
         /\ notEmpty' \in SUBSET Workers
         /\ posted' \in 0..MaxTasks
<1> USE DEF PostTask, Push, NotifyOne, TypeOK
<1>1. queue_' \in Seq(1..MaxTasks)
  BY ThreadPoolAssumption
<1>2. nonblock_' \in BOOLEAN
  OBVIOUS
<1>3. notEmpty' \in SUBSET Workers
  OBVIOUS
<1>4. posted' \in 0..MaxTasks
  BY ThreadPoolAssumption
<1> QED
  BY <1>1, <1>2, <1>3, <1>4

\* Every step of the pool, its workers and its users keeps the types.
LEMMA NextType == TypeOK /\ [Next]_vars => TypeOK'
<1> SUFFICES ASSUME TypeOK, [Next]_vars PROVE TypeOK'
  OBVIOUS
<1>1. ASSUME NEW w \in Workers, StartWorker(w) PROVE TypeOK'
  BY <1>1 DEF StartWorker, bqVars, TypeOK
<1>2. CASE Post
  BY <1>2, PostTaskType DEF Post, TypeOK
<1>3. ASSUME NEW w \in Workers, PostFromTask(w) PROVE TypeOK'
  BY <1>3, PostTaskType DEF PostFromTask, TypeOK
<1>4. ASSUME NEW w \in Workers, WorkerTake(w) PROVE TypeOK'
  <2>1. PICK v \in 1..MaxTasks : /\ PopFront(w, v)
                                 /\ task' = [task EXCEPT ![w] = v]
                                 /\ begun' = Append(begun, v)
    BY <1>4 DEF WorkerTake
  <2>2. queue_' \in Seq(1..MaxTasks) /\ begun' \in Seq(1..MaxTasks)
    BY <2>1 DEF PopFront, TypeOK
  <2>3. /\ task' \in [Workers -> 0..MaxTasks]
        /\ \A u \in Workers : pc'[u] = "run" <=> task'[u] # 0
    BY <1>4, <2>1, ThreadPoolAssumption DEF TypeOK, WorkerTake
  <2> QED
    BY <1>4, <2>1, <2>2, <2>3 DEF WorkerTake, PopFront, TypeOK
<1>5. ASSUME NEW w \in Workers, WorkerSleep(w) PROVE TypeOK'
  BY <1>5 DEF WorkerSleep, PopWait, poolVars, TypeOK
<1>6. ASSUME NEW w \in Workers, WorkerExit(w) PROVE TypeOK'
  BY <1>6 DEF WorkerExit, PopFalse, bqVars, TypeOK
<1>7. ASSUME NEW w \in Workers, WorkerRun(w) PROVE TypeOK'
  <2>1. task[w] \in 1..MaxTasks
    BY <1>7, ThreadPoolAssumption DEF TypeOK, WorkerRun
  <2>2. finished' \in SUBSET (1..MaxTasks)
    BY <1>7, <2>1 DEF TypeOK, WorkerRun
  <2>3. /\ task' \in [Workers -> 0..MaxTasks]
        /\ pc' \in [Workers -> {"unborn", "pop", "run", "exited"}]
        /\ \A u \in Workers : pc'[u] = "run" <=> task'[u] # 0
    BY <1>7, ThreadPoolAssumption DEF TypeOK, WorkerRun
  <2> QED
    BY <1>7, <2>2, <2>3 DEF WorkerRun, bqVars, TypeOK
<1>8. ASSUME NEW w \in Workers, WorkerWake(w) PROVE TypeOK'
  BY <1>8 DEF WorkerWake, SpuriousWake, poolVars, TypeOK
<1>9. CASE DestroyBegin
  BY <1>9 DEF DestroyBegin, Cancel, TypeOK
<1>10. CASE Join
  BY <1>10, ThreadPoolAssumption DEF Join, bqVars, TypeOK
<1>11. CASE Stopped \/ UNCHANGED vars
  BY <1>11 DEF Stopped, vars, bqVars, poolVars, TypeOK
<1> QED
  BY <1>1, <1>2, <1>3, <1>4, <1>5, <1>6, <1>7, <1>8, <1>9, <1>10, <1>11
     DEF Next, WorkerStep

\* Every reachable state of the pool is well typed; in particular the
\* destructor never joins past the last worker.
THEOREM TypeCorrect == Spec => []TypeOK
  BY InitType, NextType, PTL DEF Spec

------------------------------------------------------------------------------
(* The order of the tasks, and what became of each of them.                *)

\* Element by element, what TakenInPostOrder says, and for each task taken
\* whether it has finished or which worker runs it.
Accounting ==
    /\ Len(begun) + Len(queue_) = posted
    /\ \A i \in 1..Len(begun) : begun[i] = i
    /\ \A i \in 1..Len(queue_) : queue_[i] = Len(begun) + i
    /\ \A i \in 1..Len(begun) : i \in finished \/ \E w \in Workers : task[w] = i
    /\ \A i \in finished : i <= Len(begun)
    /\ \A w \in Workers : task[w] <= Len(begun)

\* Before the first Post there is nothing to account for.
LEMMA AccountingInit == Init => Accounting
  BY DEF Init, BQInit, Accounting

\* Post appends one task and counts it.
LEMMA AccountingPost ==
  ASSUME TypeOK, Accounting, PostTask, UNCHANGED <<task, begun, finished>>
  PROVE  Accounting'
<1>1. queue_' = Append(queue_, posted + 1) /\ posted' = posted + 1
  BY DEF PostTask, Push
<1>2. Len(queue_') = Len(queue_) + 1
  BY <1>1 DEF TypeOK
<1>3. \A i \in 1..Len(queue_') : queue_'[i] = Len(begun) + i
  BY <1>1, <1>2 DEF TypeOK, Accounting
<1> QED
  BY <1>1, <1>2, <1>3 DEF TypeOK, Accounting

\* Pop moves the front of the queue to the tasks begun.
LEMMA AccountingTake ==
  ASSUME TypeOK, Accounting, NEW w \in Workers, WorkerTake(w)
  PROVE  Accounting'
<1>1. PICK v \in 1..MaxTasks : /\ PopFront(w, v)
                               /\ task' = [task EXCEPT ![w] = v]
                               /\ begun' = Append(begun, v)
  BY DEF WorkerTake
<1>2. /\ queue_ # <<>> /\ v = Head(queue_) /\ queue_' = Tail(queue_)
      /\ posted' = posted /\ finished' = finished
  BY <1>1 DEF PopFront, WorkerTake
<1>3. /\ Len(queue_) \in Nat \ {0} /\ Len(begun) \in Nat
      /\ v = Len(begun) + 1
  BY <1>2 DEF TypeOK, Accounting
<1>4. Len(begun') = Len(begun) + 1 /\ Len(queue_') = Len(queue_) - 1
  BY <1>1, <1>2 DEF TypeOK
<1>5. \A i \in 1..Len(begun') : begun'[i] = i
  BY <1>1, <1>3, <1>4 DEF TypeOK, Accounting
<1>6. \A i \in 1..Len(queue_') : queue_'[i] = Len(begun') + i
  BY <1>2, <1>3, <1>4 DEF TypeOK, Accounting
<1>7. task[w] = 0
  BY DEF WorkerTake, TypeOK
<1>8. \A i \in 1..Len(begun') : i \in finished' \/ \E u \in Workers : task'[u] = i
  <2> SUFFICES ASSUME NEW i \in 1..Len(begun'), i \notin finished
               PROVE  \E u \in Workers : task'[u] = i
    BY <1>2
  <2>1. CASE i = v
    BY <2>1, <1>1 DEF TypeOK
  <2>2. CASE i # v
    <3>1. i \in 1..Len(begun)
      BY <2>2, <1>3, <1>4
    <3>2. PICK u \in Workers : task[u] = i
      BY <3>1 DEF Accounting
    <3>3. u # w
      BY <3>1, <3>2, <1>7
    <3> QED
      BY <3>2, <3>3, <1>1 DEF TypeOK
  <2> QED
    BY <2>1, <2>2
<1>9. \A u \in Workers : task'[u] <= Len(begun')
  BY <1>1, <1>3, <1>4 DEF TypeOK, Accounting
<1>10. \A i \in finished' : i <= Len(begun')
  <2> SUFFICES ASSUME NEW i \in finished PROVE i <= Len(begun')
    BY <1>2
  <2>1. i \in Nat /\ i <= Len(begun)
    BY ThreadPoolAssumption DEF TypeOK, Accounting
  <2> QED
    BY <2>1, <1>3, <1>4
<1>11. Len(begun') + Len(queue_') = posted'
  <2>1. Len(begun) + Len(queue_) = posted
    BY DEF Accounting
  <2> QED
    BY <2>1, <1>2, <1>3, <1>4
<1> QED
  BY <1>5, <1>6, <1>8, <1>9, <1>10, <1>11 DEF Accounting

\* A worker that has run its task has finished it.
LEMMA AccountingRun ==
  ASSUME TypeOK, Accounting, NEW w \in Workers, WorkerRun(w)
  PROVE  Accounting'
<1>1. /\ UNCHANGED <<queue_, posted, begun>>
      /\ finished' = finished \cup {task[w]}
      /\ task' = [task EXCEPT ![w] = 0]
  BY DEF WorkerRun, bqVars
<1>2. \A i \in 1..Len(begun) : i \in finished' \/ \E u \in Workers : task'[u] = i
  <2> SUFFICES ASSUME NEW i \in 1..Len(begun), i \notin finished'
               PROVE  \E u \in Workers : task'[u] = i
    OBVIOUS
  <2>1. PICK u \in Workers : task[u] = i
    BY <1>1 DEF Accounting
  <2>2. u # w
    BY <2>1, <1>1
  <2> QED
    BY <2>1, <2>2, <1>1 DEF TypeOK
<1>3. \A i \in finished' : i <= Len(begun)
  BY <1>1 DEF Accounting
<1>4. \A u \in Workers : task'[u] <= Len(begun)
  BY <1>1 DEF Accounting, TypeOK
<1> QED
  BY <1>1, <1>2, <1>3, <1>4 DEF Accounting

\* Every step keeps the tasks accounted for.
LEMMA AccountingNext == TypeOK /\ Accounting /\ [Next]_vars => Accounting'
<1> SUFFICES ASSUME TypeOK, Accounting, [Next]_vars PROVE Accounting'
  OBVIOUS
<1>1. ASSUME UNCHANGED <<queue_, posted, task, begun, finished>> PROVE Accounting'
  BY <1>1 DEF Accounting
<1>2. ASSUME NEW w \in Workers, StartWorker(w) PROVE Accounting'
  BY <1>1, <1>2 DEF StartWorker, bqVars
<1>3. CASE Post
  BY <1>3, AccountingPost DEF Post
<1>4. ASSUME NEW w \in Workers, PostFromTask(w) PROVE Accounting'
  BY <1>4, AccountingPost DEF PostFromTask
<1>5. ASSUME NEW w \in Workers, WorkerStep(w) PROVE Accounting'
  <2>1. CASE WorkerTake(w)
    BY <2>1, AccountingTake
  <2>2. CASE WorkerSleep(w)
    BY <2>2, <1>1 DEF WorkerSleep, PopWait, poolVars
  <2>3. CASE WorkerExit(w)
    BY <2>3, <1>1 DEF WorkerExit, PopFalse, bqVars
  <2>4. CASE WorkerRun(w)
    BY <2>4, AccountingRun
  <2> QED
    BY <1>5, <2>1, <2>2, <2>3, <2>4 DEF WorkerStep
<1>6. ASSUME NEW w \in Workers, WorkerWake(w) PROVE Accounting'
  BY <1>1, <1>6 DEF WorkerWake, SpuriousWake, poolVars
<1>7. CASE DestroyBegin
  BY <1>1, <1>7 DEF DestroyBegin, Cancel
<1>8. CASE Join
  BY <1>1, <1>8 DEF Join, bqVars
<1>9. CASE Stopped \/ UNCHANGED vars
  BY <1>1, <1>9 DEF Stopped, vars, bqVars, poolVars
<1> QED
  BY <1>2, <1>3, <1>4, <1>5, <1>6, <1>7, <1>8, <1>9 DEF Next

\* Every task posted is queued, being run or finished, in every state.
LEMMA AccountingInvariant == Spec => [](TypeOK /\ Accounting)
  BY TypeCorrect, AccountingInit, AccountingNext, PTL DEF Spec

\* For every number of workers: tasks are taken in the order they were
\* posted, and none is lost or taken twice.
THEOREM TasksTakenInPostOrder == Spec => []TakenInPostOrder
<1>1. TypeOK /\ Accounting => TakenInPostOrder
  <2> SUFFICES ASSUME TypeOK, Accounting
               PROVE  begun \o queue_ = [i \in 1..posted |-> i]
    BY DEF TakenInPostOrder
  <2> DEFINE both == begun \o queue_
  <2>1. /\ Len(begun) \in Nat /\ Len(queue_) \in Nat /\ posted \in Nat
        /\ Len(begun) + Len(queue_) = posted
    BY DEF TypeOK, Accounting
  <2>2. both \in Seq(1..MaxTasks) /\ Len(both) = posted
    BY <2>1 DEF TypeOK
  <2>3. ASSUME NEW i \in 1..posted PROVE both[i] = i
    <3>1. CASE i \in 1..Len(begun)
      BY <3>1, <2>1 DEF TypeOK, Accounting
    <3>2. CASE i \in Len(begun) + 1 .. posted
      <4>1. i - Len(begun) \in 1..Len(queue_)
        BY <3>2, <2>1
      <4>2. both[i] = queue_[i - Len(begun)]
        BY <3>2, <2>1 DEF TypeOK
      <4> QED
        BY <4>1, <4>2, <2>1 DEF Accounting
    <3> QED
      BY <3>1, <3>2, <2>1
  <2>4. both = [i \in 1..posted |-> both[i]]
    <3> HIDE DEF both
    <3>1. both \in [1..posted -> 1..MaxTasks]
      BY <2>2, LenProperties
    <3> QED
      BY <3>1
  <2>5. [i \in 1..posted |-> both[i]] = [i \in 1..posted |-> i]
    <3> HIDE DEF both
    <3> QED
      BY <2>3
  <2> QED
    BY <2>4, <2>5
<1> QED
  BY <1>1, AccountingInvariant, PTL

------------------------------------------------------------------------------
(* Shutting down.  The invariant ties the pool's phase to the queue's mode *)
(* and to what the workers may still do: a worker ends only on an empty    *)
(* cancelled queue, and only a running worker can put a task there after   *)
(* that, so the queue is empty once the last of them has ended.            *)

Lifecycle ==
    /\ nonblock_ <=> phase \in {"dtor", "gone"}
    /\ nonblock_ => notEmpty = {}
    /\ \A w \in notEmpty : pc[w] = "pop"
    /\ \A w \in Workers : pc[w] = "exited" => nonblock_
    /\ (\A w \in Workers : pc[w] = "exited") => queue_ = <<>>
    /\ \A w \in 1..joined : pc[w] = "exited"
    /\ phase = "gone" => joined = ThreadNum

\* The phases of the pool are consistent at the start of the constructor.
LEMMA LifecycleInit == Init => Lifecycle
<1> SUFFICES ASSUME Init PROVE Lifecycle
  OBVIOUS
<1>1. /\ queue_ = <<>> /\ nonblock_ = FALSE /\ notEmpty = {} /\ phase = "ctor"
      /\ joined = 0
  BY DEF Init, BQInit
<1>2. \A w \in Workers : pc[w] = "unborn"
  BY DEF Init
<1>3. 1..joined = {}
  BY <1>1
<1> QED
  BY <1>1, <1>2, <1>3 DEF Lifecycle

\* Somebody can still post, so some worker has not ended.
LEMMA LifecyclePost ==
  ASSUME TypeOK, Lifecycle, PostTask, UNCHANGED <<phase, joined, pc>>,
         NEW w \in Workers, pc[w] # "exited"
  PROVE  Lifecycle'
<1>1. /\ nonblock_' = nonblock_
      /\ notEmpty' \subseteq notEmpty
  BY DEF PostTask, Push, NotifyOne
<1>2. ~ \A u \in Workers : pc'[u] = "exited"
  OBVIOUS
<1> QED
  BY <1>1, <1>2 DEF Lifecycle

\* Every step keeps the phases, the joins and the workers consistent.
LEMMA LifecycleNext == TypeOK /\ Lifecycle /\ [Next]_vars => Lifecycle'
<1> SUFFICES ASSUME TypeOK, Lifecycle, [Next]_vars PROVE Lifecycle'
  OBVIOUS
<1>a. 1 \in Workers /\ 1..joined \subseteq Workers /\ notEmpty \subseteq Workers
  BY ThreadPoolAssumption DEF TypeOK, Workers
<1>1. ASSUME NEW w \in Workers, StartWorker(w) PROVE Lifecycle'
  <2>1. pc[w] = "unborn" /\ pc' = [pc EXCEPT ![w] = "pop"]
    BY <1>1 DEF StartWorker
  <2>2. /\ UNCHANGED <<queue_, nonblock_, notEmpty, joined>>
        /\ phase = "ctor" /\ phase' \in {"ctor", "live"}
    BY <1>1 DEF StartWorker, bqVars
  <2>3. \A u \in Workers : pc'[u] = "exited" <=> pc[u] = "exited"
    BY <2>1 DEF TypeOK
  <2>4. \A u \in Workers : pc[u] = "pop" => pc'[u] = "pop"
    BY <2>1 DEF TypeOK
  <2>5. ~nonblock_
    BY <2>2 DEF Lifecycle
  <2>6. ~ \A u \in Workers : pc'[u] = "exited"
    BY <2>1, <2>3
  <2> QED
    BY <1>a, <2>2, <2>3, <2>4, <2>5, <2>6 DEF Lifecycle
<1>2. CASE Post
  <2>1. pc[1] # "exited"
    BY <1>2, <1>a DEF Post, Lifecycle
  <2> QED
    BY <1>2, <1>a, <2>1, LifecyclePost DEF Post
<1>3. ASSUME NEW w \in Workers, PostFromTask(w) PROVE Lifecycle'
  BY <1>3, LifecyclePost DEF PostFromTask
<1>4. ASSUME NEW w \in Workers, WorkerTake(w) PROVE Lifecycle'
  <2>1. /\ pc[w] = "pop" /\ pc' = [pc EXCEPT ![w] = "run"] /\ w \notin notEmpty
        /\ UNCHANGED <<nonblock_, notEmpty, phase, joined>>
    BY <1>4 DEF WorkerTake, PopFront
  <2>2. /\ pc'[w] = "run"
        /\ \A u \in Workers : u # w => pc'[u] = pc[u]
    BY <2>1 DEF TypeOK
  <2> QED
    BY <1>a, <2>1, <2>2 DEF Lifecycle
<1>5. ASSUME NEW w \in Workers, WorkerSleep(w) PROVE Lifecycle'
  BY <1>5 DEF WorkerSleep, PopWait, poolVars, Lifecycle
<1>6. ASSUME NEW w \in Workers, WorkerExit(w) PROVE Lifecycle'
  <2>1. /\ pc[w] = "pop" /\ pc' = [pc EXCEPT ![w] = "exited"] /\ w \notin notEmpty
        /\ nonblock_ /\ queue_ = <<>>
        /\ UNCHANGED <<queue_, nonblock_, notEmpty, phase, joined>>
    BY <1>6 DEF WorkerExit, PopFalse, bqVars
  <2>2. /\ pc'[w] = "exited"
        /\ \A u \in Workers : u # w => pc'[u] = pc[u]
    BY <2>1 DEF TypeOK
  <2> QED
    BY <1>a, <2>1, <2>2 DEF Lifecycle
<1>7. ASSUME NEW w \in Workers, WorkerRun(w) PROVE Lifecycle'
  <2>1. /\ pc[w] = "run" /\ pc' = [pc EXCEPT ![w] = "pop"]
        /\ UNCHANGED <<queue_, nonblock_, notEmpty, phase, joined>>
    BY <1>7 DEF WorkerRun, bqVars
  <2>2. /\ pc'[w] = "pop"
        /\ \A u \in Workers : u # w => pc'[u] = pc[u]
    BY <2>1 DEF TypeOK
  <2> QED
    BY <1>a, <2>1, <2>2 DEF Lifecycle
<1>8. ASSUME NEW w \in Workers, WorkerWake(w) PROVE Lifecycle'
  BY <1>8 DEF WorkerWake, SpuriousWake, poolVars, Lifecycle
<1>9. CASE DestroyBegin
  BY <1>9 DEF DestroyBegin, Cancel, Lifecycle
<1>10. CASE Join
  <2>1. /\ UNCHANGED <<queue_, nonblock_, notEmpty, pc>>
        /\ phase = "dtor" /\ phase' \in {"dtor", "gone"}
        /\ joined' = joined + 1 /\ pc[joined + 1] = "exited"
        /\ phase' = "gone" => joined' = ThreadNum
    BY <1>10 DEF Join, bqVars
  <2>2. \A u \in 1..joined' : u \in 1..joined \/ u = joined + 1
    BY <2>1 DEF TypeOK
  <2> QED
    BY <2>1, <2>2 DEF Lifecycle
<1>11. CASE Stopped \/ UNCHANGED vars
  BY <1>11 DEF Stopped, vars, bqVars, poolVars, Lifecycle
<1> QED
  BY <1>1, <1>2, <1>3, <1>4, <1>5, <1>6, <1>7, <1>8, <1>9, <1>10, <1>11
     DEF Next, WorkerStep

\* Workers end only after Cancel and with an empty queue, in every state.
LEMMA LifecycleInvariant == Spec => [](TypeOK /\ Lifecycle)
  BY TypeCorrect, LifecycleInit, LifecycleNext, PTL DEF Spec

\* When ~ThreadPool has returned, no worker thread is left that could touch
\* the queue it destroys.
THEOREM WorkersEndBeforePool == Spec => []NoWorkerOutlivesPool
<1>1. TypeOK /\ Lifecycle => NoWorkerOutlivesPool
  BY ThreadPoolAssumption DEF Lifecycle, NoWorkerOutlivesPool, Workers
<1> QED
  BY <1>1, LifecycleInvariant, PTL

\* When ~ThreadPool has returned, every task ever posted has finished: Cancel
\* does not drop the backlog, nor what running tasks post during shutdown.
THEOREM PoolDrains == Spec => []DrainedWhenGone
<1>1. TypeOK /\ Accounting /\ Lifecycle => DrainedWhenGone
  <2> SUFFICES ASSUME TypeOK, Accounting, Lifecycle, phase = "gone"
               PROVE  finished = 1..posted
    BY DEF DrainedWhenGone
  <2>1. \A w \in Workers : pc[w] = "exited"
    BY ThreadPoolAssumption DEF Lifecycle, Workers
  <2>2. queue_ = <<>> /\ Len(begun) = posted
    BY <2>1 DEF Lifecycle, Accounting, TypeOK
  <2>3. \A w \in Workers : task[w] = 0
    BY <2>1 DEF TypeOK
  <2>4. \A i \in 1..posted : i \in finished
    BY <2>2, <2>3 DEF Accounting
  <2>5. \A i \in finished : i \in 1..posted
    BY <2>2, ThreadPoolAssumption DEF Accounting, TypeOK
  <2> QED
    BY <2>4, <2>5
<1> QED
  BY <1>1, AccountingInvariant, LifecycleInvariant, PTL

------------------------------------------------------------------------------
(* No lost wakeup.                                                         *)

\* The awake workers can be counted.
LEMMA ReadyFinite ==
  /\ IsFiniteSet(Ready) /\ Cardinality(Ready) \in Nat
  /\ IsFiniteSet(Ready') /\ Cardinality(Ready') \in Nat
<1>1. IsFiniteSet(Workers)
  BY FS_Interval, ThreadPoolAssumption DEF Workers
<1>2. Ready \in SUBSET Workers /\ Ready' \in SUBSET Workers
  BY DEF Ready
<1> QED
  BY <1>1, <1>2, FS_Subset, FS_CardinalityType

\* The awake workers grow: the backlog stays covered if it does not grow.
LEMMA CoverGrows ==
  ASSUME TypeOK, WakeupsCoverBacklog, queue_' = queue_,
         notEmpty' \subseteq notEmpty, Ready \subseteq Ready'
  PROVE  WakeupsCoverBacklog'
<1>1. Cardinality(Ready) <= Cardinality(Ready')
  BY ReadyFinite, FS_Subset
<1>2. Len(queue_) \in Nat
  BY DEF TypeOK
<1> QED
  BY ReadyFinite, <1>1, <1>2 DEF WakeupsCoverBacklog

\* Post adds a task, and wakes a worker if one sleeps.
LEMMA CoverPost ==
  ASSUME TypeOK, Lifecycle, WakeupsCoverBacklog, PostTask, UNCHANGED pc
  PROVE  WakeupsCoverBacklog'
<1>1. CASE notEmpty = {}
  BY <1>1 DEF PostTask, Push, NotifyOne, WakeupsCoverBacklog
<1>2. CASE notEmpty # {}
  <2>1. PICK t \in notEmpty : notEmpty' = notEmpty \ {t}
    BY <1>2 DEF PostTask, Push, NotifyOne
  <2>2. t \in Workers /\ pc[t] = "pop" /\ t \notin Ready
    BY DEF TypeOK, Lifecycle, Ready
  <2>3. Ready' = Ready \cup {t}
    BY <2>1, <2>2 DEF Ready
  <2>4. Cardinality(Ready') = Cardinality(Ready) + 1 /\ Cardinality(Ready) \in Nat
    BY <2>2, <2>3, ReadyFinite, FS_AddElement
  <2>5. Len(queue_') = Len(queue_) + 1 /\ Len(queue_) \in Nat
    BY DEF PostTask, Push, TypeOK
  <2>6. Len(queue_) <= Cardinality(Ready)
    BY <1>2 DEF WakeupsCoverBacklog
  <2> QED
    BY <2>4, <2>5, <2>6 DEF WakeupsCoverBacklog
<1> QED
  BY <1>1, <1>2

\* A worker that takes a task uses up itself and the task.
LEMMA CoverTake ==
  ASSUME TypeOK, WakeupsCoverBacklog, NEW w \in Workers, WorkerTake(w)
  PROVE  WakeupsCoverBacklog'
<1>1. /\ pc[w] = "pop" /\ w \notin notEmpty /\ notEmpty' = notEmpty
      /\ pc' = [pc EXCEPT ![w] = "run"]
      /\ queue_ # <<>> /\ queue_' = Tail(queue_)
  BY DEF WorkerTake, PopFront
<1>2. w \in Ready /\ Ready' = Ready \ {w}
  BY <1>1 DEF Ready, TypeOK
<1>3. Cardinality(Ready') = Cardinality(Ready) - 1 /\ Cardinality(Ready) \in Nat
  BY <1>2, ReadyFinite, FS_RemoveElement
<1>4. Len(queue_') = Len(queue_) - 1 /\ Len(queue_) \in Nat
  BY <1>1 DEF TypeOK
<1> QED
  BY <1>1, <1>3, <1>4 DEF WakeupsCoverBacklog

\* Every step leaves enough workers awake for the backlog.
LEMMA CoverNext ==
  TypeOK /\ Lifecycle /\ WakeupsCoverBacklog /\ [Next]_vars
    => WakeupsCoverBacklog'
<1> SUFFICES ASSUME TypeOK, Lifecycle, WakeupsCoverBacklog, [Next]_vars
             PROVE  WakeupsCoverBacklog'
  OBVIOUS
<1>1. ASSUME NEW w \in Workers, StartWorker(w) PROVE WakeupsCoverBacklog'
  <2>1. pc' = [pc EXCEPT ![w] = "pop"] /\ UNCHANGED <<queue_, notEmpty>>
    BY <1>1 DEF StartWorker, bqVars
  <2>2. Ready \subseteq Ready'
    BY <2>1 DEF Ready, TypeOK
  <2> QED
    BY <2>1, <2>2, CoverGrows
<1>2. CASE Post
  BY <1>2, CoverPost DEF Post
<1>3. ASSUME NEW w \in Workers, PostFromTask(w) PROVE WakeupsCoverBacklog'
  BY <1>3, CoverPost DEF PostFromTask
<1>4. ASSUME NEW w \in Workers, WorkerTake(w) PROVE WakeupsCoverBacklog'
  BY <1>4, CoverTake
<1>5. ASSUME NEW w \in Workers, WorkerSleep(w) PROVE WakeupsCoverBacklog'
  <2>1. queue_' = <<>>
    BY <1>5 DEF WorkerSleep, PopWait
  <2> QED
    BY <2>1, ReadyFinite DEF WakeupsCoverBacklog
<1>6. ASSUME NEW w \in Workers, WorkerExit(w) PROVE WakeupsCoverBacklog'
  <2>1. notEmpty' = {}
    BY <1>6 DEF WorkerExit, PopFalse, bqVars, Lifecycle
  <2> QED
    BY <2>1 DEF WakeupsCoverBacklog
<1>7. ASSUME NEW w \in Workers, WorkerRun(w) PROVE WakeupsCoverBacklog'
  <2>1. pc' = [pc EXCEPT ![w] = "pop"] /\ UNCHANGED <<queue_, notEmpty>>
    BY <1>7 DEF WorkerRun, bqVars
  <2>2. Ready \subseteq Ready'
    BY <2>1 DEF Ready, TypeOK
  <2> QED
    BY <2>1, <2>2, CoverGrows
<1>8. ASSUME NEW w \in Workers, WorkerWake(w) PROVE WakeupsCoverBacklog'
  <2>1. pc' = pc /\ queue_' = queue_ /\ notEmpty' = notEmpty \ {w}
    BY <1>8 DEF WorkerWake, SpuriousWake, poolVars
  <2>2. Ready \subseteq Ready'
    BY <2>1 DEF Ready
  <2> QED
    BY <2>1, <2>2, CoverGrows
<1>9. CASE DestroyBegin
  BY <1>9 DEF DestroyBegin, Cancel, WakeupsCoverBacklog
<1>10. CASE Join
  BY <1>10 DEF Join, bqVars, WakeupsCoverBacklog, Ready
<1>11. CASE Stopped \/ UNCHANGED vars
  BY <1>11 DEF Stopped, vars, bqVars, poolVars, WakeupsCoverBacklog, Ready
<1> QED
  BY <1>1, <1>2, <1>3, <1>4, <1>5, <1>6, <1>7, <1>8, <1>9, <1>10, <1>11
     DEF Next, WorkerStep

\* No notification is lost, for every number of workers: while a worker
\* sleeps in not_empty_, there is an awake worker for every queued task.
THEOREM NoLostWakeup == Spec => []WakeupsCoverBacklog
<1>1. Init => WakeupsCoverBacklog
  BY DEF Init, BQInit, WakeupsCoverBacklog
<1> QED
  BY <1>1, CoverNext, LifecycleInvariant, PTL DEF Spec

------------------------------------------------------------------------------
(* MemoryPool                                                              *)

\* The constants of MemoryPool.
LEMMA MemConstants ==
  /\ MemPoolSize \in Nat /\ MemPoolSize >= 2 /\ MemSizes \subseteq Nat
  /\ MaxAllocFromPool \in Nat
  BY ArithmeticAssumption

\* Where the first allocation of a node begins.
Behind(p) == IF p = 1 THEN 7 ELSE 4

\* A block of the pool, and a part of it that was given away.
MemNode == [last : Nat, end : Nat, failed : Nat]
MemPart == [node : Nat, from : Nat, size : Nat, entry : BOOLEAN, aligned : BOOLEAN]

\* The type correctness of the pool; every block has the length of the first.
MemType ==
  /\ nodes \in Seq(MemNode) /\ Len(nodes) # 0 /\ current \in 1..Len(nodes)
  /\ \A p \in 1..Len(nodes) : nodes[p].end = Behind(p) + MemPoolSize
  /\ large \in Seq(Nat) /\ mallocs \subseteq Nat /\ given \subseteq MemPart /\ serial \in Nat
  /\ garbage \in BOOLEAN /\ wrapped \in BOOLEAN /\ memCrashed \in BOOLEAN /\ memGone \in BOOLEAN

\* What is in use ends before last, which is in the block.
MemUse ==
  ~wrapped =>
    /\ \A p \in 1..Len(nodes) : Behind(p) <= nodes[p].last /\ nodes[p].last <= nodes[p].end
    /\ \A g \in given : /\ g.node \in 1..Len(nodes) /\ Behind(g.node) <= g.from
                        /\ g.from + g.size <= nodes[g.node].last
                        /\ g.aligned => g.from = Mem!mp_align(g.from)
    /\ \A g, h \in given : g # h => ~Mem!Overlap(g, h)

\* A large allocation is in the list, at one place.
MemLarge ==
  /\ \A j, k \in 1..Len(large) : large[j] = large[k] /\ large[j] # 0 => j = k
  /\ \A m \in mallocs : m # 0 /\ \E k \in 1..Len(large) : large[k] = m
  /\ \A k \in 1..Len(large) : large[k] <= serial

\* What went wrong, and why.
MemWrong ==
  /\ wrapped => \E p \in 1..Len(nodes) : nodes[p].end # Mem!mp_align(nodes[p].end)
  /\ memGone => mallocs = {}
  /\ memCrashed => garbage

\* The inductive invariant of the pool.
MemInv == MemType /\ MemUse /\ MemLarge /\ MemWrong

\* Alignment rounds up, and keeps the order.
LEMMA Aligned ==
  ASSUME NEW x \in Nat
  PROVE  /\ Mem!mp_align(x) \in Nat /\ x <= Mem!mp_align(x)
         /\ Mem!mp_align(Mem!mp_align(x)) = Mem!mp_align(x)
         /\ \A y \in Nat : x <= y => Mem!mp_align(x) <= Mem!mp_align(y)
         /\ Mem!mp_align(4) = 4
  BY DEF Mem!mp_align, Mem!Alignment

\* mp_create_pool
LEMMA MemInit == Mem!Init => MemInv
<1> SUFFICES ASSUME Mem!Init PROVE MemInv
  OBVIOUS
<1> DEFINE n == [last |-> 7, end |-> 7 + MemPoolSize, failed |-> 0]
<1>0. /\ nodes = <<n>> /\ current = 1 /\ garbage \in BOOLEAN /\ large = <<>> /\ mallocs = {} /\ given = {}
      /\ wrapped = FALSE /\ memCrashed = FALSE /\ memGone = FALSE /\ serial = 0
  BY DEF Mem!Init, Mem!PoolHeader, Mem!NodeHeader
<1>1. n \in MemNode /\ n.last = 7 /\ n.end = 7 + MemPoolSize /\ MemPoolSize \in Nat
  BY MemConstants DEF MemNode
<1> HIDE DEF n
<1>2. nodes \in Seq(MemNode) /\ Len(nodes) = 1 /\ nodes[1] = n
  BY <1>0, <1>1
<1>3. MemType
  <2>1. large \in Seq(Nat) /\ mallocs \subseteq Nat /\ given \subseteq MemPart /\ serial \in Nat
    BY <1>0
  <2>2. current \in 1..Len(nodes) /\ \A p \in 1..Len(nodes) : nodes[p].end = Behind(p) + MemPoolSize
    BY <1>0, <1>1, <1>2 DEF Behind
  <2>3. garbage \in BOOLEAN /\ wrapped \in BOOLEAN /\ memCrashed \in BOOLEAN /\ memGone \in BOOLEAN
    BY <1>0
  <2>4. Len(nodes) # 0
    BY <1>2
  <2> QED
    BY <1>2, <2>1, <2>2, <2>3, <2>4 DEF MemType
<1>4. MemUse
  BY <1>0, <1>1, <1>2 DEF MemUse, Behind
<1>5. MemLarge
  BY <1>0 DEF MemLarge
<1>6. MemWrong
  BY <1>0 DEF MemWrong
<1> QED
  BY <1>3, <1>4, <1>5, <1>6 DEF MemInv

\* A set of numbers up to a bound has a greatest.
LEMMA GreatestElement ==
  ASSUME NEW b \in Nat, NEW T, T \subseteq 0..b, T # {}
  PROVE  \E x \in T : \A y \in T : x >= y
<1> DEFINE D == {b - x : x \in T}
<1>1. D \subseteq Nat /\ D # {}
  <2>1. \A x \in T : b - x \in Nat
    OBVIOUS
  <2> QED
    BY <2>1
<1>2. PICK d \in D : \A e \in D : d <= e
  BY <1>1, LeastElement
<1>3. PICK x \in T : d = b - x
  BY <1>2
<1>4. ASSUME NEW y \in T PROVE x >= y
  <2>1. b - y \in D /\ x \in 0..b /\ y \in 0..b
    OBVIOUS
  <2>2. b - x <= b - y
    BY <1>2, <1>3, <2>1
  <2> QED
    BY <2>1, <2>2
<1> QED
  BY <1>4

\* The node the search finds.
LEMMA MemFit ==
  ASSUME MemInv, NEW size \in Nat, NEW aligned \in BOOLEAN
  PROVE  \/ Mem!FirstFit(size, aligned) = 0
         \/ /\ Mem!FirstFit(size, aligned) \in current..Len(nodes)
            /\ Mem!Fits(Mem!FirstFit(size, aligned), size, aligned)
<1> DEFINE T == {p \in current..Len(nodes) : Mem!Fits(p, size, aligned)}
<1>0. Len(nodes) \in Nat /\ current \in 1..Len(nodes)
  BY DEF MemInv, MemType
<1>1. T \subseteq Nat
  BY <1>0
<1>2. Mem!FirstFit(size, aligned) = IF T = {} THEN 0 ELSE CHOOSE p \in T : \A q \in T : p <= q
  BY DEF Mem!FirstFit
<1>3. ASSUME T # {} PROVE (CHOOSE p \in T : \A q \in T : p <= q) \in T
  <2> HIDE DEF T
  <2>1. \E p \in T : \A q \in T : p <= q
    BY <1>1, <1>3, LeastElement
  <2> QED
    BY <2>1
<1> QED
  BY <1>2, <1>3

\* The node the next search begins at.
LEMMA MemCurrent ==
  ASSUME MemInv
  PROVE  Mem!NewCurrent \in 1..Len(nodes)
<1> DEFINE T == {p \in current..(Len(nodes) - 1) : nodes[p].failed > FailedLimit}
<1>0. Len(nodes) \in Nat /\ Len(nodes) # 0 /\ current \in 1..Len(nodes)
  BY DEF MemInv, MemType
<1>1. T \subseteq 0..(Len(nodes) - 1) /\ Len(nodes) - 1 \in Nat /\ \A p \in T : 1 + p \in 1..Len(nodes)
  BY <1>0
<1>2. Mem!NewCurrent = IF T = {} THEN current ELSE 1 + (CHOOSE p \in T : \A q \in T : p >= q)
  BY DEF Mem!NewCurrent
<1>3. ASSUME T # {} PROVE (CHOOSE p \in T : \A q \in T : p >= q) \in T
  <2> HIDE DEF T
  <2>1. \E p \in T : \A q \in T : p >= q
    BY <1>1, <1>3, GreatestElement
  <2> QED
    BY <2>1
<1> QED
  BY <1>0, <1>1, <1>2, <1>3

\* Where mp_alloc put what it gives, and the pool after it, s.
Placed(s, size, aligned) ==
  /\ s.nodes \in Seq(MemNode) /\ s.node \in 1..Len(s.nodes) /\ s.current \in 1..Len(s.nodes)
  /\ s.at \in Nat /\ s.wraps \in BOOLEAN /\ 1..Len(nodes) \subseteq 1..Len(s.nodes)
  /\ \A p \in 1..Len(s.nodes) : /\ s.nodes[p].end = Behind(p) + MemPoolSize
                                /\ p # s.node => p \in 1..Len(nodes) /\ s.nodes[p].last = nodes[p].last
  /\ s.nodes[s.node].last = s.at + size /\ Behind(s.node) <= s.at
  /\ s.node \in 1..Len(nodes) => nodes[s.node].last <= s.at
  /\ aligned => s.at = Mem!mp_align(s.at)
  /\ ~s.wraps => s.at + size <= s.nodes[s.node].end
  /\ s.wraps => s.nodes[s.node].end # Mem!mp_align(s.nodes[s.node].end)

\* What mp_alloc gives is placed behind last of a node, or in a new one.
LEMMA MemSmall ==
  ASSUME MemInv, ~wrapped, NEW size \in Nat, size <= MemPoolSize, NEW aligned \in BOOLEAN,
         NEW s, s = Mem!Small(size, aligned)
  PROVE  Placed(s, size, aligned)
<1>0. /\ nodes \in Seq(MemNode) /\ Len(nodes) \in Nat /\ Len(nodes) # 0 /\ current \in 1..Len(nodes)
      /\ \A p \in 1..Len(nodes) : /\ nodes[p] \in MemNode /\ nodes[p].end = Behind(p) + MemPoolSize
                                  /\ Behind(p) <= nodes[p].last /\ nodes[p].last <= nodes[p].end
      /\ MemPoolSize \in Nat
  BY MemConstants DEF MemInv, MemType, MemUse
<1>1. \A p : Behind(p) \in Nat
  BY DEF Behind
<1>p. PICK p : p = Mem!FirstFit(size, aligned)
  OBVIOUS
<1>2. CASE p # 0
  <2>1. p \in 1..Len(nodes) /\ p \in current..Len(nodes) /\ Mem!Fits(p, size, aligned)
    <3>1. p \in current..Len(nodes) /\ Mem!Fits(p, size, aligned)
      BY <1>2, <1>p, MemFit
    <3> QED
      BY <1>0, <3>1
  <2>q. PICK b : b = Mem!Begins(p, aligned)
    OBVIOUS
  <2>2. /\ b \in Nat /\ nodes[p].last <= b /\ (aligned => b = Mem!mp_align(nodes[p].last) /\ b = Mem!mp_align(b))
        /\ ~aligned => b = nodes[p].last
    <3>1. nodes[p].last \in Nat
      BY <1>0, <2>1 DEF MemNode
    <3>2. CASE aligned
      BY <2>q, <3>1, <3>2, Aligned DEF Mem!Begins
    <3>3. CASE ~aligned
      BY <2>q, <3>1, <3>3 DEF Mem!Begins
    <3> QED
      BY <3>2, <3>3
  <2>3. /\ s.node = p /\ s.at = b /\ s.wraps = (nodes[p].end < b) /\ s.current = current
        /\ s.nodes = [nodes EXCEPT ![p] = [nodes[p] EXCEPT !.last = b + size]]
    BY <1>2, <1>p, <2>q DEF Mem!Small
  <2>4. /\ nodes[p] \in MemNode /\ b + size \in Nat
    BY <1>0, <2>1, <2>2
  <2>5. /\ [nodes[p] EXCEPT !.last = b + size] \in MemNode
        /\ [nodes[p] EXCEPT !.last = b + size].last = b + size
        /\ [nodes[p] EXCEPT !.last = b + size].end = nodes[p].end
    BY <2>4 DEF MemNode
  <2>6. /\ s.nodes \in Seq(MemNode) /\ Len(s.nodes) = Len(nodes)
        /\ s.nodes[p].last = b + size /\ s.nodes[p].end = nodes[p].end
        /\ \A q \in 1..Len(nodes) : q # p => s.nodes[q] = nodes[q]
    BY <1>0, <2>1, <2>3, <2>5
  <2>7. /\ ~s.wraps => b + size <= nodes[p].end
        /\ s.wraps => nodes[p].end # Mem!mp_align(nodes[p].end)
    <3>1. nodes[p].last \in Nat /\ nodes[p].end \in Nat /\ nodes[p].last <= nodes[p].end
      BY <1>0, <2>1 DEF MemNode
    <3>2. nodes[p].end - b < 0 \/ nodes[p].end - b >= size
      BY <2>1, <2>q DEF Mem!Fits
    <3>3. ASSUME nodes[p].end < b PROVE nodes[p].end # Mem!mp_align(nodes[p].end)
      <4>1. aligned
        BY <2>2, <3>1, <3>3
      <4>2. b <= Mem!mp_align(nodes[p].end) /\ Mem!mp_align(nodes[p].end) \in Nat
        BY <2>2, <3>1, <4>1, Aligned
      <4> QED
        BY <2>2, <3>1, <3>3, <4>2
    <3>4. s.wraps <=> nodes[p].end < b
      BY <2>3
    <3>5. ASSUME ~(nodes[p].end < b) PROVE b + size <= nodes[p].end
      BY <2>2, <3>1, <3>2, <3>5
    <3> QED
      BY <3>3, <3>4, <3>5
  <2>8. Behind(p) <= b /\ nodes[p].last <= b
    <3>1. nodes[p].last \in Nat /\ Behind(p) <= nodes[p].last /\ Behind(p) \in Nat
      BY <1>0, <1>1, <2>1 DEF MemNode
    <3> QED
      BY <2>2, <3>1
  <2>9. /\ s.node \in 1..Len(s.nodes) /\ s.current \in 1..Len(s.nodes) /\ s.at \in Nat /\ s.wraps \in BOOLEAN
        /\ 1..Len(nodes) \subseteq 1..Len(s.nodes)
    BY <1>0, <2>1, <2>2, <2>3, <2>6
  <2>10. \A q \in 1..Len(s.nodes) : /\ s.nodes[q].end = Behind(q) + MemPoolSize
                                    /\ q # s.node => q \in 1..Len(nodes) /\ s.nodes[q].last = nodes[q].last
    BY <1>0, <2>1, <2>3, <2>6
  <2> QED
    BY <2>2, <2>3, <2>6, <2>7, <2>8, <2>9, <2>10 DEF Placed
<1>3. CASE p = 0
  <2> DEFINE old == [q \in DOMAIN nodes |-> IF q \in current..(Len(nodes) - 1)
                                            THEN [nodes[q] EXCEPT !.failed = @ + 1]
                                            ELSE nodes[q]]
             new == [last |-> 4 + size, end |-> 4 + MemPoolSize, failed |-> 0]
             n == Len(nodes)
  <2>1. Mem!mp_align(Mem!NodeHeader) = 4 /\ Mem!BlockSize = 4 + MemPoolSize
    <3>1. nodes[1].end = 7 + MemPoolSize
      BY <1>0 DEF Behind
    <3> QED
      BY <1>0, <3>1, Aligned DEF Mem!NodeHeader, Mem!BlockSize, Mem!PoolHeader
  <2>2. /\ s.node = n + 1 /\ s.at = 4 /\ s.wraps = FALSE /\ s.current = Mem!NewCurrent
        /\ s.nodes = Append(old, new)
    BY <1>3, <1>p, <2>1 DEF Mem!Small
  <2>3. /\ old \in Seq(MemNode) /\ Len(old) = n
        /\ \A q \in 1..n : old[q].last = nodes[q].last /\ old[q].end = nodes[q].end
    <3>1. DOMAIN nodes = 1..n
      BY <1>0
    <3>2. ASSUME NEW q \in 1..n
          PROVE  old[q] \in MemNode /\ old[q].last = nodes[q].last /\ old[q].end = nodes[q].end
      <4>1. old[q] = IF q \in current..(Len(nodes) - 1) THEN [nodes[q] EXCEPT !.failed = nodes[q].failed + 1] ELSE nodes[q]
        BY <3>1
      <4>2. nodes[q] \in MemNode
        BY <1>0
      <4>3. /\ [nodes[q] EXCEPT !.failed = nodes[q].failed + 1] \in MemNode
            /\ [nodes[q] EXCEPT !.failed = nodes[q].failed + 1].last = nodes[q].last
            /\ [nodes[q] EXCEPT !.failed = nodes[q].failed + 1].end = nodes[q].end
        BY <4>2 DEF MemNode
      <4> HIDE DEF old
      <4> QED
        BY <4>1, <4>2, <4>3
    <3>3. DOMAIN old = 1..n /\ old = [q \in 1..n |-> old[q]]
      BY <3>1
    <3> HIDE DEF old
    <3>4. old \in [1..n -> MemNode]
      BY <3>2, <3>3
    <3>5. old \in Seq(MemNode) /\ Len(old) = n
      BY <1>0, <3>4
    <3> QED
      BY <3>2, <3>5
  <2>4. new \in MemNode /\ new.last = 4 + size /\ new.end = 4 + MemPoolSize
    BY <1>0 DEF MemNode
  <2> HIDE DEF old, new
  <2>5. /\ s.nodes \in Seq(MemNode) /\ Len(s.nodes) = n + 1 /\ s.nodes[n + 1] = new
        /\ \A q \in 1..n : s.nodes[q] = old[q]
    BY <1>0, <2>2, <2>3, <2>4
  <2>6. n \in Nat /\ n # 0 /\ n + 1 # 1 /\ Behind(n + 1) = 4 /\ n + 1 \notin 1..n
    BY <1>0 DEF Behind
  <2>7. s.current \in 1..n
    BY <2>2, MemCurrent
  <2>8. \A q \in 1..(n + 1) : q # n + 1 => q \in 1..n
    BY <2>6
  <2>9. /\ s.node \in 1..Len(s.nodes) /\ s.current \in 1..Len(s.nodes) /\ s.at \in Nat /\ s.wraps \in BOOLEAN
        /\ 1..Len(nodes) \subseteq 1..Len(s.nodes)
    <3>1. s.wraps \in BOOLEAN
      BY <2>2
    <3>2. n + 1 \in 1..(n + 1) /\ 1..n \subseteq 1..(n + 1) /\ 4 \in Nat
      BY <2>6
    <3> QED
      BY <2>2, <2>5, <2>7, <3>1, <3>2
  <2>10. \A q \in 1..Len(s.nodes) : /\ s.nodes[q].end = Behind(q) + MemPoolSize
                                    /\ q # s.node => q \in 1..Len(nodes) /\ s.nodes[q].last = nodes[q].last
    <3>1. ASSUME NEW q \in 1..n PROVE s.nodes[q].end = Behind(q) + MemPoolSize /\ s.nodes[q].last = nodes[q].last
      BY <1>0, <2>3, <2>5
    <3>2. s.nodes[n + 1].end = Behind(n + 1) + MemPoolSize
      BY <2>4, <2>5, <2>6
    <3> QED
      BY <2>2, <2>5, <2>8, <3>1, <3>2
  <2>11. /\ s.nodes[s.node].last = s.at + size /\ Behind(s.node) <= s.at /\ s.node \notin 1..Len(nodes)
         /\ s.at = Mem!mp_align(s.at) /\ s.at + size <= s.nodes[s.node].end /\ ~s.wraps
    <3>1. 4 + size <= 4 + MemPoolSize /\ Mem!mp_align(4) = 4
      BY <1>0, Aligned
    <3> QED
      BY <2>2, <2>4, <2>5, <2>6, <3>1
  <2> QED
    BY <2>5, <2>9, <2>10, <2>11 DEF Placed
<1> QED
  BY <1>2, <1>3

\* What is given is behind everything that was given before.
LEMMA MemGive ==
  ASSUME MemInv, ~wrapped, NEW size \in Nat, size <= MemPoolSize, NEW entry \in BOOLEAN,
         NEW aligned \in BOOLEAN, Mem!Give(Mem!Small(size, aligned), size, entry, aligned)
  PROVE  /\ nodes' \in Seq(MemNode) /\ Len(nodes') # 0 /\ current' \in 1..Len(nodes')
         /\ \A p \in 1..Len(nodes') : nodes'[p].end = Behind(p) + MemPoolSize
         /\ given' \subseteq MemPart /\ wrapped' \in BOOLEAN /\ MemUse'
         /\ wrapped' => \E p \in 1..Len(nodes') : nodes'[p].end # Mem!mp_align(nodes'[p].end)
<1>p. PICK s : s = Mem!Small(size, aligned)
  OBVIOUS
<1> DEFINE g == [node |-> s.node, from |-> s.at, size |-> size, entry |-> entry, aligned |-> aligned]
<1>0. /\ nodes' = s.nodes /\ current' = s.current /\ given' = given \cup {g} /\ wrapped' = (wrapped \/ s.wraps)
  BY <1>p DEF Mem!Give
<1>1. /\ s.nodes \in Seq(MemNode) /\ s.node \in 1..Len(s.nodes) /\ s.current \in 1..Len(s.nodes)
      /\ s.at \in Nat /\ s.wraps \in BOOLEAN /\ 1..Len(nodes) \subseteq 1..Len(s.nodes)
      /\ \A p \in 1..Len(s.nodes) : /\ s.nodes[p].end = Behind(p) + MemPoolSize
                                    /\ p # s.node => p \in 1..Len(nodes) /\ s.nodes[p].last = nodes[p].last
      /\ s.nodes[s.node].last = s.at + size /\ Behind(s.node) <= s.at
      /\ s.node \in 1..Len(nodes) => nodes[s.node].last <= s.at
      /\ aligned => s.at = Mem!mp_align(s.at)
      /\ ~s.wraps => s.at + size <= s.nodes[s.node].end
      /\ s.wraps => s.nodes[s.node].end # Mem!mp_align(s.nodes[s.node].end)
  <2>1. Placed(s, size, aligned)
    BY <1>p, MemSmall
  <2> QED
    BY <2>1 DEF Placed
<1>2. MemType /\ MemUse
  BY DEF MemInv
<1>3. /\ g \in MemPart /\ g.node = s.node /\ g.from = s.at /\ g.size = size /\ g.aligned = aligned
  BY <1>1 DEF MemPart
<1> HIDE DEF g
<1>4. given' \subseteq MemPart /\ given \subseteq MemPart
  BY <1>0, <1>2, <1>3 DEF MemType
<1>5. /\ nodes' \in Seq(MemNode) /\ Len(nodes') # 0 /\ current' \in 1..Len(nodes')
      /\ \A p \in 1..Len(nodes') : nodes'[p].end = Behind(p) + MemPoolSize
  <2>1. Len(s.nodes) # 0
    BY <1>1
  <2> QED
    BY <1>0, <1>1, <2>1
<1>6. wrapped' <=> s.wraps
  BY <1>0
<1>7. wrapped' => \E p \in 1..Len(nodes') : nodes'[p].end # Mem!mp_align(nodes'[p].end)
  BY <1>0, <1>1, <1>6
<1>8. MemUse'
  <2> SUFFICES ASSUME ~wrapped'
               PROVE  /\ \A p \in 1..Len(nodes') : Behind(p) <= nodes'[p].last /\ nodes'[p].last <= nodes'[p].end
                      /\ \A h \in given' : /\ h.node \in 1..Len(nodes') /\ Behind(h.node) <= h.from
                                           /\ h.from + h.size <= nodes'[h.node].last
                                           /\ h.aligned => h.from = Mem!mp_align(h.from)
                      /\ \A h, k \in given' : h # k => ~Mem!Overlap(h, k)
    BY DEF MemUse, Mem!mp_align, Mem!Overlap
  <2>1. /\ \A p \in 1..Len(nodes) : Behind(p) <= nodes[p].last /\ nodes[p].last <= nodes[p].end
        /\ \A h \in given : /\ h.node \in 1..Len(nodes) /\ Behind(h.node) <= h.from
                            /\ h.from + h.size <= nodes[h.node].last
                            /\ h.aligned => h.from = Mem!mp_align(h.from)
        /\ \A h, k \in given : h # k => ~Mem!Overlap(h, k)
    BY <1>2 DEF MemUse
  <2>2. /\ \A p : Behind(p) \in Nat
        /\ \A p \in 1..Len(nodes) : nodes[p].last \in Nat /\ nodes[p].end = Behind(p) + MemPoolSize
        /\ \A h \in given : h.from \in Nat /\ h.size \in Nat
    <3>1. \A p \in 1..Len(nodes) : nodes[p] \in MemNode /\ nodes[p].end = Behind(p) + MemPoolSize
      BY <1>2 DEF MemType
    <3> QED
      BY <1>4, <3>1 DEF Behind, MemNode, MemPart
  <2>3. ASSUME NEW p \in 1..Len(nodes') PROVE Behind(p) <= nodes'[p].last /\ nodes'[p].last <= nodes'[p].end
    <3>1. CASE p = s.node
      <4>1. Behind(p) <= s.at + size
        BY <1>1, <2>2, <3>1
      <4> QED
        BY <1>0, <1>1, <1>6, <3>1, <4>1
    <3>2. CASE p # s.node
      BY <1>0, <1>1, <2>1, <2>2, <3>2
    <3> QED
      BY <3>1, <3>2
  <2>4. ASSUME NEW h \in given
        PROVE  /\ h.node \in 1..Len(nodes') /\ h.from + h.size <= nodes'[h.node].last
               /\ ~Mem!Overlap(h, g) /\ ~Mem!Overlap(g, h)
    <3>1. h.node \in 1..Len(nodes) /\ h.from + h.size <= nodes[h.node].last /\ h.from \in Nat /\ h.size \in Nat
          /\ nodes[h.node].last \in Nat
      BY <2>1, <2>2
    <3>2. CASE h.node = s.node
      <4>1. nodes[h.node].last <= s.at /\ nodes'[h.node].last = s.at + size
        BY <1>0, <1>1, <3>1, <3>2
      <4>2. h.from + h.size <= s.at
        BY <1>1, <3>1, <4>1, SMTT(30)
      <4>3. ~(s.at < h.from + h.size) /\ h.from + h.size <= s.at + size
        BY <1>1, <3>1, <4>2
      <4> QED
        BY <1>0, <1>1, <1>3, <3>1, <4>1, <4>3 DEF Mem!Overlap
    <3>3. CASE h.node # s.node
      BY <1>0, <1>1, <1>3, <3>1, <3>3 DEF Mem!Overlap
    <3> QED
      BY <3>2, <3>3
  <2>5. /\ g.node \in 1..Len(nodes') /\ Behind(g.node) <= g.from /\ g.from + g.size <= nodes'[g.node].last
        /\ g.aligned => g.from = Mem!mp_align(g.from)
    BY <1>0, <1>1, <1>3
  <2>6. \A h \in given' : /\ h.node \in 1..Len(nodes') /\ Behind(h.node) <= h.from
                          /\ h.from + h.size <= nodes'[h.node].last
                          /\ h.aligned => h.from = Mem!mp_align(h.from)
    BY <1>0, <2>1, <2>4, <2>5
  <2>7. \A h, k \in given' : h # k => ~Mem!Overlap(h, k)
    BY <1>0, <2>1, <2>4
  <2> QED
    BY <2>3, <2>6, <2>7
<1> QED
  BY <1>1, <1>4, <1>5, <1>6, <1>7, <1>8

\* Parts of the invariant that a step leaves alone.
LEMMA MemKept ==
  ASSUME MemInv
  PROVE  /\ UNCHANGED <<nodes, given, wrapped>> => MemUse'
         /\ UNCHANGED <<large, mallocs, serial>> => MemLarge'
<1>1. ASSUME nodes' = nodes, given' = given, wrapped' = wrapped PROVE MemUse'
  BY <1>1 DEF MemInv, MemUse, Mem!Overlap, Mem!mp_align
<1>2. ASSUME large' = large, mallocs' = mallocs, serial' = serial PROVE MemLarge'
  BY <1>2 DEF MemInv, MemLarge
<1> QED
  BY <1>1, <1>2

\* mp_alloc of a small size.
LEMMA MemAllocSmall ==
  ASSUME MemInv, NEW size \in MemSizes, NEW aligned \in BOOLEAN, Mem!AllocSmall(size, aligned)
  PROVE  MemInv'
<1>0. /\ ~wrapped /\ size <= Mem!poolMax /\ garbage' = garbage /\ large' = large /\ mallocs' = mallocs
      /\ memGone' = memGone /\ serial' = serial
  BY DEF Mem!AllocSmall, Mem!Alive
<1>1. size \in Nat /\ size <= MemPoolSize
  <2>1. Mem!poolMax \in Nat /\ Mem!poolMax <= MemPoolSize
    BY MemConstants DEF Mem!poolMax
  <2> QED
    BY <1>0, <2>1, MemConstants
<1>2. MemLarge'
  BY <1>0, MemKept
<1>3. CASE Mem!Follows(size, aligned)
  <2>0. memCrashed' = TRUE /\ nodes' = nodes /\ current' = current /\ given' = given /\ wrapped' = wrapped /\ garbage
    BY <1>3 DEF Mem!AllocSmall, Mem!Follows
  <2>1. MemUse'
    BY <2>0, MemKept
  <2>2. MemType'
    BY <1>0, <2>0 DEF MemInv, MemType
  <2>3. MemWrong'
    BY <1>0, <2>0 DEF MemInv, MemWrong, Mem!mp_align
  <2> QED
    BY <1>2, <2>1, <2>2, <2>3 DEF MemInv
<1>4. CASE ~Mem!Follows(size, aligned)
  <2>0. Mem!Give(Mem!Small(size, aligned), size, FALSE, aligned) /\ memCrashed' = memCrashed
    BY <1>4 DEF Mem!AllocSmall
  <2>1. /\ nodes' \in Seq(MemNode) /\ Len(nodes') # 0 /\ current' \in 1..Len(nodes')
        /\ \A p \in 1..Len(nodes') : nodes'[p].end = Behind(p) + MemPoolSize
        /\ given' \subseteq MemPart /\ wrapped' \in BOOLEAN /\ MemUse'
        /\ wrapped' => \E p \in 1..Len(nodes') : nodes'[p].end # Mem!mp_align(nodes'[p].end)
    BY <1>0, <1>1, <2>0, MemGive, ZenonT(60)
  <2>2. MemType'
    BY <1>0, <2>0, <2>1 DEF MemInv, MemType
  <2>3. MemWrong'
    BY <1>0, <2>0, <2>1 DEF MemInv, MemWrong, Mem!mp_align
  <2> QED
    BY <1>2, <2>1, <2>2, <2>3 DEF MemInv
<1> QED
  BY <1>3, <1>4

\* mp_alloc_large and mp_memalign.
LEMMA MemAllocLarge ==
  ASSUME MemInv, NEW reuse \in BOOLEAN, Mem!AllocLarge(reuse)
  PROVE  MemInv'
<1>0. /\ ~wrapped /\ ~memGone /\ serial' = serial + 1 /\ garbage' = garbage /\ memGone' = memGone
  BY DEF Mem!AllocLarge, Mem!Alive
<1>1. MemType /\ MemUse /\ MemLarge /\ MemWrong
  BY DEF MemInv
<1>p. PICK n : n = serial + 1
  OBVIOUS
<1>2. /\ large \in Seq(Nat) /\ Len(large) \in Nat /\ mallocs \subseteq Nat /\ serial \in Nat /\ n \in Nat /\ n # 0
      /\ serial' = n /\ n <= n
      /\ \A k \in 1..Len(large) : large[k] \in Nat /\ large[k] <= n /\ large[k] # n
  <2>1. large \in Seq(Nat) /\ Len(large) \in Nat /\ mallocs \subseteq Nat /\ serial \in Nat
    BY <1>1 DEF MemType
  <2>2. \A k \in 1..Len(large) : large[k] \in Nat /\ large[k] <= serial
    BY <1>1, <2>1 DEF MemLarge
  <2> QED
    BY <1>0, <1>p, <2>1, <2>2
<1>3. CASE reuse /\ Mem!FreeEntry # 0
  <2>p. PICK f : f = Mem!FreeEntry
    OBVIOUS
  <2>0. /\ large' = [large EXCEPT ![f] = n] /\ mallocs' = mallocs \cup {n}
        /\ nodes' = nodes /\ current' = current /\ given' = given /\ wrapped' = wrapped /\ memCrashed' = memCrashed
    BY <1>0, <1>3, <1>p, <2>p DEF Mem!AllocLarge
  <2>1. f \in 1..Len(large) /\ large[f] = 0
    <3> DEFINE T == {k \in 1..Len(large) : k <= 5 /\ large[k] = 0}
    <3>1. T \subseteq Nat /\ Mem!FreeEntry = IF T = {} THEN 0 ELSE CHOOSE k \in T : \A j \in T : k <= j
      BY DEF Mem!FreeEntry
    <3>2. T # {} /\ f = CHOOSE k \in T : \A j \in T : k <= j
      BY <1>3, <2>p, <3>1
    <3>3. f \in T
      <4> HIDE DEF T
      <4>1. \E k \in T : \A j \in T : k <= j
        BY <3>1, <3>2, LeastElement
      <4> QED
        BY <3>2, <4>1
    <3> QED
      BY <3>3
  <2>2. /\ large' \in Seq(Nat) /\ Len(large') = Len(large) /\ large'[f] = n
        /\ \A k \in 1..Len(large) : k # f => large'[k] = large[k]
    BY <1>2, <2>0, <2>1
  <2>3. MemLarge'
    <3>1. \A j, k \in 1..Len(large') : large'[j] = large'[k] /\ large'[j] # 0 => j = k
      BY <1>1, <1>2, <2>2 DEF MemLarge
    <3>2. ASSUME NEW m \in mallocs' PROVE m # 0 /\ \E k \in 1..Len(large') : large'[k] = m
      <4>1. CASE m = n
        BY <1>2, <2>1, <2>2, <4>1
      <4>2. CASE m # n
        <5>1. m # 0 /\ \E k \in 1..Len(large) : large[k] = m
          BY <1>1, <2>0, <4>2 DEF MemLarge
        <5>2. PICK k \in 1..Len(large) : large[k] = m
          BY <5>1
        <5>3. k # f
          BY <2>1, <5>1, <5>2
        <5> QED
          BY <2>2, <5>1, <5>2, <5>3
      <4> QED
        BY <4>1, <4>2
    <3>3. \A k \in 1..Len(large') : large'[k] <= serial'
      BY <1>2, <2>2
    <3> QED
      BY <3>1, <3>2, <3>3 DEF MemLarge
  <2>4. MemUse'
    BY <2>0, MemKept
  <2>5. MemType'
    BY <1>0, <1>1, <1>2, <2>0, <2>2 DEF MemType
  <2>6. MemWrong'
    BY <1>0, <1>1, <2>0 DEF MemWrong, Mem!mp_align
  <2> QED
    BY <2>3, <2>4, <2>5, <2>6 DEF MemInv
<1>4. CASE ~(reuse /\ Mem!FreeEntry # 0) /\ Mem!Follows(Mem!LargeEntry, TRUE)
  <2>0. /\ memCrashed' = TRUE /\ nodes' = nodes /\ current' = current /\ given' = given /\ wrapped' = wrapped
        /\ large' = large /\ mallocs' = mallocs /\ garbage
    BY <1>4 DEF Mem!AllocLarge, Mem!Follows
  <2>1. MemUse'
    BY <2>0, MemKept
  <2>2. MemType'
    BY <1>0, <1>1, <1>2, <2>0 DEF MemType
  <2>3. MemLarge'
    <3>1. \A k \in 1..Len(large) : large[k] <= serial'
      BY <1>2
    <3> QED
      BY <1>1, <2>0, <3>1 DEF MemLarge
  <2>4. MemWrong'
    BY <1>0, <1>1, <2>0 DEF MemWrong, Mem!mp_align
  <2> QED
    BY <2>1, <2>2, <2>3, <2>4 DEF MemInv
<1>5. CASE ~(reuse /\ Mem!FreeEntry # 0) /\ ~Mem!Follows(Mem!LargeEntry, TRUE)
  <2>0. /\ Mem!Give(Mem!Small(Mem!LargeEntry, TRUE), Mem!LargeEntry, TRUE, TRUE)
        /\ large' = <<n>> \o large /\ mallocs' = mallocs \cup {n} /\ memCrashed' = memCrashed
    BY <1>0, <1>5, <1>p DEF Mem!AllocLarge
  <2>1. Mem!LargeEntry \in Nat /\ Mem!LargeEntry <= MemPoolSize
    BY MemConstants DEF Mem!LargeEntry
  <2>2. /\ nodes' \in Seq(MemNode) /\ Len(nodes') # 0 /\ current' \in 1..Len(nodes')
        /\ \A p \in 1..Len(nodes') : nodes'[p].end = Behind(p) + MemPoolSize
        /\ given' \subseteq MemPart /\ wrapped' \in BOOLEAN /\ MemUse'
        /\ wrapped' => \E p \in 1..Len(nodes') : nodes'[p].end # Mem!mp_align(nodes'[p].end)
    BY <1>0, <2>0, <2>1, MemGive, ZenonT(60)
  <2>3. /\ large' \in Seq(Nat) /\ Len(large') = Len(large) + 1 /\ large'[1] = n
        /\ \A k \in 1..Len(large) : large'[k + 1] = large[k]
    BY <1>2, <2>0
  <2>4. \A k \in 1..Len(large') : k # 1 => k - 1 \in 1..Len(large) /\ large'[k] = large[k - 1]
    <3>1. ASSUME NEW k \in 1..Len(large'), k # 1 PROVE k - 1 \in 1..Len(large) /\ large'[k] = large[k - 1]
      <4>1. k - 1 \in 1..Len(large) /\ (k - 1) + 1 = k
        BY <1>2, <2>3, <3>1
      <4> QED
        BY <2>3, <4>1
    <3> QED
      BY <3>1
  <2>5. MemLarge'
    <3>1. ASSUME NEW j \in 1..Len(large'), NEW k \in 1..Len(large'), large'[j] = large'[k], large'[j] # 0
          PROVE  j = k
      <4>1. CASE j = 1 \/ k = 1
        BY <1>2, <2>3, <2>4, <3>1, <4>1
      <4>2. CASE j # 1 /\ k # 1
        <5>1. j - 1 = k - 1
          BY <1>1, <2>4, <3>1, <4>2, SMTT(30) DEF MemLarge
        <5> QED
          BY <1>2, <2>3, <5>1
      <4> QED
        BY <4>1, <4>2
    <3>2. ASSUME NEW m \in mallocs' PROVE m # 0 /\ \E k \in 1..Len(large') : large'[k] = m
      <4>1. CASE m = n
        <5>1. 1 \in 1..Len(large')
          BY <1>2, <2>3
        <5> QED
          BY <1>2, <2>3, <4>1, <5>1
      <4>2. CASE m # n
        <5>1. m # 0 /\ \E k \in 1..Len(large) : large[k] = m
          BY <1>1, <2>0, <4>2 DEF MemLarge
        <5>2. PICK k \in 1..Len(large) : large[k] = m
          BY <5>1
        <5>3. k + 1 \in 1..Len(large')
          BY <1>2, <2>3
        <5> QED
          BY <2>3, <5>1, <5>2, <5>3
      <4> QED
        BY <4>1, <4>2
    <3>3. ASSUME NEW k \in 1..Len(large') PROVE large'[k] <= serial'
      BY <1>2, <2>3, <2>4
    <3> QED
      BY <3>1, <3>2, <3>3 DEF MemLarge
  <2>6. MemType'
    BY <1>0, <1>1, <1>2, <2>0, <2>2, <2>3 DEF MemType
  <2>7. MemWrong'
    BY <1>0, <1>1, <2>0, <2>2 DEF MemWrong, Mem!mp_align
  <2> QED
    BY <2>2, <2>5, <2>6, <2>7 DEF MemInv
<1> QED
  BY <1>3, <1>4, <1>5

\* mp_free, mp_reset_pool and mp_destory_pool.
LEMMA MemRest ==
  ASSUME MemInv, (\E k \in DOMAIN large : Mem!Free(k)) \/ Mem!Reset \/ Mem!Destroy
  PROVE  MemInv'
<1>1. MemType /\ MemUse /\ MemLarge /\ MemWrong
  BY DEF MemInv
<1>2. /\ nodes \in Seq(MemNode) /\ Len(nodes) \in Nat /\ large \in Seq(Nat) /\ Len(large) \in Nat
      /\ DOMAIN large = 1..Len(large) /\ DOMAIN nodes = 1..Len(nodes) /\ mallocs \subseteq Nat
  BY <1>1 DEF MemType
<1>3. mallocs \ {large[k] : k \in DOMAIN large} = {}
  BY <1>1, <1>2 DEF MemLarge
<1>4. ASSUME NEW k \in DOMAIN large, Mem!Free(k) PROVE MemInv'
  <2>0. /\ ~memGone /\ large[k] # 0 /\ large' = [large EXCEPT ![k] = 0] /\ mallocs' = mallocs \ {large[k]}
        /\ nodes' = nodes /\ current' = current /\ garbage' = garbage /\ given' = given /\ wrapped' = wrapped
        /\ memCrashed' = memCrashed /\ memGone' = memGone /\ serial' = serial
    BY <1>4 DEF Mem!Free, Mem!Alive
  <2>1. /\ large' \in Seq(Nat) /\ Len(large') = Len(large) /\ large'[k] = 0
        /\ \A j \in 1..Len(large) : j # k => large'[j] = large[j]
    BY <1>2, <2>0
  <2>2. MemLarge'
    <3>1. \A i, j \in 1..Len(large') : large'[i] = large'[j] /\ large'[i] # 0 => i = j
      BY <1>1, <2>1 DEF MemLarge
    <3>2. ASSUME NEW m \in mallocs' PROVE m # 0 /\ \E j \in 1..Len(large') : large'[j] = m
      <4>1. m # 0 /\ m # large[k] /\ \E j \in 1..Len(large) : large[j] = m
        BY <1>1, <2>0 DEF MemLarge
      <4> QED
        BY <2>1, <4>1
    <3>3. \A j \in 1..Len(large') : large'[j] <= serial'
      <4>1. serial \in Nat
        BY <1>1 DEF MemType
      <4> QED
        BY <1>1, <2>0, <2>1, <4>1 DEF MemLarge
    <3> QED
      BY <3>1, <3>2, <3>3 DEF MemLarge
  <2>3. MemUse'
    BY <2>0, MemKept
  <2>4. MemType'
    BY <1>1, <2>0, <2>1 DEF MemType
  <2>5. MemWrong'
    BY <1>1, <2>0 DEF MemWrong, Mem!mp_align
  <2> QED
    BY <2>2, <2>3, <2>4, <2>5 DEF MemInv
<1>5. ASSUME Mem!Reset \/ Mem!Destroy, garbage, Len(nodes) = 1 PROVE MemInv'
  <2>0. /\ memCrashed' = TRUE /\ nodes' = nodes /\ current' = current /\ garbage' = garbage /\ large' = large
        /\ mallocs' = mallocs /\ given' = given /\ wrapped' = wrapped /\ memGone' = memGone /\ serial' = serial
    BY <1>5 DEF Mem!Reset, Mem!Destroy
  <2>1. MemUse' /\ MemLarge'
    BY <2>0, MemKept
  <2>2. MemType'
    BY <1>1, <2>0 DEF MemType
  <2>3. MemWrong'
    BY <1>1, <1>5, <2>0 DEF MemWrong, Mem!mp_align
  <2> QED
    BY <2>1, <2>2, <2>3 DEF MemInv
<1>6. ASSUME Mem!Reset, ~(garbage /\ Len(nodes) = 1) PROVE MemInv'
  <2>0. /\ ~wrapped /\ mallocs' = {} /\ large' = <<>> /\ given' = {} /\ current' = current /\ garbage' = garbage
        /\ wrapped' = wrapped /\ memGone' = memGone /\ serial' = serial /\ memCrashed' = memCrashed
        /\ nodes' = [p \in 1..Len(nodes) |-> [nodes[p] EXCEPT !.last = Behind(p)]]
    BY <1>2, <1>3, <1>6 DEF Mem!Reset, Mem!Alive, Behind, Mem!PoolHeader, Mem!NodeHeader
  <2>1. ASSUME NEW p \in 1..Len(nodes)
        PROVE  /\ [nodes[p] EXCEPT !.last = Behind(p)] \in MemNode
               /\ [nodes[p] EXCEPT !.last = Behind(p)].last = Behind(p)
               /\ [nodes[p] EXCEPT !.last = Behind(p)].end = nodes[p].end
    <3>1. nodes[p] \in MemNode /\ Behind(p) \in Nat
      BY <1>2 DEF Behind
    <3> QED
      BY <3>1 DEF MemNode
  <2>2. nodes' \in [1..Len(nodes) -> MemNode]
    BY <2>0, <2>1
  <2>3. nodes' \in Seq(MemNode) /\ Len(nodes') = Len(nodes)
    BY <1>2, <2>2, SMTT(30)
  <2>4. \A p \in 1..Len(nodes) : nodes'[p].last = Behind(p) /\ nodes'[p].end = nodes[p].end
    BY <2>0, <2>1
  <2>5. MemType'
    <3>1. large' \in Seq(Nat) /\ mallocs' \subseteq Nat /\ given' \subseteq MemPart
      BY <2>0
    <3>2. wrapped' \in BOOLEAN /\ memGone' \in BOOLEAN /\ memCrashed' \in BOOLEAN /\ garbage' \in BOOLEAN /\ serial' \in Nat
      BY <1>1, <2>0 DEF MemType
    <3>3. Len(nodes') # 0 /\ current' \in 1..Len(nodes') /\ \A p \in 1..Len(nodes') : nodes'[p].end = Behind(p) + MemPoolSize
      BY <1>1, <2>0, <2>3, <2>4 DEF MemType
    <3> QED
      BY <2>3, <3>1, <3>2, <3>3 DEF MemType
  <2>6. MemUse'
    <3>1. \A p \in 1..Len(nodes) : Behind(p) <= Behind(p) + MemPoolSize /\ Behind(p) <= Behind(p)
      BY MemConstants DEF Behind
    <3>2. \A p \in 1..Len(nodes') : Behind(p) <= nodes'[p].last /\ nodes'[p].last <= nodes'[p].end
      BY <1>1, <2>3, <2>4, <3>1 DEF MemType
    <3> QED
      BY <2>0, <3>2 DEF MemUse
  <2>7. MemLarge'
    BY <2>0 DEF MemLarge
  <2>8. MemWrong'
    BY <1>1, <2>0 DEF MemWrong
  <2> QED
    BY <2>5, <2>6, <2>7, <2>8 DEF MemInv
<1>7. ASSUME Mem!Destroy, ~(garbage /\ Len(nodes) = 1) PROVE MemInv'
  <2>0. /\ mallocs' = {} /\ memGone' = TRUE /\ nodes' = nodes /\ current' = current /\ garbage' = garbage
        /\ large' = large /\ given' = given /\ wrapped' = wrapped /\ serial' = serial /\ memCrashed' = memCrashed
    BY <1>3, <1>7 DEF Mem!Destroy
  <2>1. MemUse'
    BY <2>0, MemKept
  <2>2. MemLarge'
    BY <1>1, <2>0 DEF MemLarge
  <2>3. MemType'
    BY <1>1, <2>0 DEF MemType
  <2>4. MemWrong'
    BY <1>1, <2>0 DEF MemWrong, Mem!mp_align
  <2> QED
    BY <2>1, <2>2, <2>3, <2>4 DEF MemInv
<1> QED
  BY <1>4, <1>5, <1>6, <1>7

\* Every step keeps the invariant of the pool.
LEMMA MemNext == MemInv /\ [Mem!Next]_memVars => MemInv'
<1> SUFFICES ASSUME MemInv, [Mem!Next]_memVars PROVE MemInv'
  OBVIOUS
<1>1. CASE Mem!Next
  BY <1>1, MemAllocSmall, MemAllocLarge, MemRest DEF Mem!Next
<1>2. CASE UNCHANGED memVars
  <2>1. /\ nodes' = nodes /\ current' = current /\ garbage' = garbage /\ large' = large
        /\ mallocs' = mallocs /\ given' = given /\ wrapped' = wrapped /\ memGone' = memGone /\ serial' = serial
        /\ memCrashed' = memCrashed
    BY <1>2 DEF memVars
  <2>2. MemUse' /\ MemLarge'
    BY <2>1, MemKept
  <2>3. MemType'
    BY <2>1 DEF MemInv, MemType
  <2>4. MemWrong'
    BY <2>1 DEF MemInv, MemWrong, Mem!mp_align
  <2> QED
    BY <2>2, <2>3, <2>4 DEF MemInv
<1> QED
  BY <1>1, <1>2

\* The invariant gives the property.
LEMMA MemSound == MemInv => Mem!MemoryPoolSound
<1> SUFFICES ASSUME MemInv PROVE Mem!MemoryPoolSound
  OBVIOUS
<1>1. MemType /\ MemUse /\ MemLarge /\ MemWrong
  BY DEF MemInv
<1>2. DOMAIN nodes = 1..Len(nodes) /\ DOMAIN large = 1..Len(large)
  BY <1>1 DEF MemType
<1>3. ASSUME ~wrapped
      PROVE  /\ \A g \in given : /\ g.aligned => g.from = Mem!mp_align(g.from)
                                 /\ g.from >= IF g.node = 1 THEN Mem!PoolHeader + Mem!NodeHeader ELSE Mem!NodeHeader
                                 /\ g.from + g.size <= Mem!EndOf(g.node)
             /\ \A g, h \in given : g # h => ~Mem!Overlap(g, h)
             /\ \A p \in DOMAIN nodes : nodes[p].last <= nodes[p].end
  <2>1. /\ \A p \in 1..Len(nodes) : Behind(p) <= nodes[p].last /\ nodes[p].last <= nodes[p].end
        /\ \A g \in given : /\ g.node \in 1..Len(nodes) /\ Behind(g.node) <= g.from
                            /\ g.from + g.size <= nodes[g.node].last
                            /\ g.aligned => g.from = Mem!mp_align(g.from)
        /\ \A g, h \in given : g # h => ~Mem!Overlap(g, h)
    BY <1>1, <1>3 DEF MemUse
  <2>2. ASSUME NEW g \in given
        PROVE  /\ g.from >= IF g.node = 1 THEN Mem!PoolHeader + Mem!NodeHeader ELSE Mem!NodeHeader
               /\ g.from + g.size <= Mem!EndOf(g.node)
    <3>1. g.from \in Nat /\ g.size \in Nat /\ g.node \in 1..Len(nodes)
      BY <1>1, <2>1 DEF MemType, MemPart
    <3>2. nodes[g.node].last \in Nat /\ nodes[g.node].end \in Nat
      <4>1. nodes[g.node] \in MemNode
        BY <1>1, <3>1 DEF MemType
      <4> QED
        BY <4>1 DEF MemNode
    <3>3. g.from + g.size <= nodes[g.node].end
      BY <2>1, <3>1, <3>2
    <3> QED
      BY <2>1, <3>1, <3>3 DEF Mem!EndOf, Behind, Mem!PoolHeader, Mem!NodeHeader
  <2> QED
    BY <1>2, <2>1, <2>2
<1>4. wrapped => \E p \in DOMAIN nodes : nodes[p].end # Mem!mp_align(nodes[p].end)
  BY <1>1, <1>2 DEF MemWrong
<1>5. ASSUME NEW m \in mallocs PROVE Mem!Cardinality({k \in DOMAIN large : large[k] = m}) = 1
  <2> DEFINE A == {k \in DOMAIN large : large[k] = m}
  <2>1. m # 0 /\ \E k \in 1..Len(large) : large[k] = m
    BY <1>1, <1>5 DEF MemLarge
  <2>2. PICK k \in 1..Len(large) : large[k] = m
    BY <2>1
  <2>3. A = {k}
    BY <1>1, <1>2, <2>1, <2>2 DEF MemLarge
  <2>4. Mem!Cardinality({k}) = Cardinality({k})
    BY DEF Mem!Cardinality, Cardinality
  <2>5. Mem!Cardinality({k}) = 1
    BY <2>4, FS_Singleton
  <2> HIDE DEF A
  <2>6. Mem!Cardinality(A) = 1
    BY <2>3, <2>5
  <2> QED
    BY <2>6 DEF A
<1>6. (memGone => mallocs = {}) /\ (memCrashed => garbage)
  BY <1>1 DEF MemWrong
<1> QED
  BY <1>3, <1>4, <1>5, <1>6, Zenon DEF Mem!MemoryPoolSound

------------------------------------------------------------------------------
(* MsTimers                                                                *)

\* The constants of MsTimers.
LEMMA MsConstants ==
  /\ Clock \in Nat \ {0} /\ Interval \in Nat \ {0} /\ Period \in Nat \ {0}
  /\ StartTime \in Nat \ {0} /\ Expiry \in Nat \ {0} /\ Diffs \subseteq 0..(Clock - 1)
  BY ArithmeticAssumption

\* The inductive invariant of the millisecond timers: the interval timer is right
\* modulo its interval also while it waits to be reset.
MsInv ==
  /\ msTime \in Nat /\ told \in Nat /\ wraps \in Nat /\ fired \in Nat /\ started \in Nat
  /\ _current \in Nat /\ _expiryTime \in Int /\ i_expireTime \in Int
  /\ passed \in SUBSET {"interval", "tracker"} /\ late \in BOOLEAN
  /\ lastTime = msTime % Clock
  /\ _current % Interval = told % Interval
  /\ "interval" \notin passed => _current < Interval
  /\ "tracker" \notin passed => _expiryTime > 0
  /\ _expiryTime <= Expiry
  /\ i_expireTime > 0
  /\ ~late => /\ i_expireTime = StartTime + fired * Period - told
              /\ fired > 0 => i_expireTime <= Period
  /\ started + told + wraps = msTime

\* The timers as they are made.
LEMMA MsInit == Ms!Init => MsInv
<1> SUFFICES ASSUME Ms!Init PROVE MsInv
  OBVIOUS
<1>1. lastTime = msTime % Clock /\ _current % Interval = told % Interval
  BY MsConstants DEF Ms!Init
<1>2. i_expireTime = StartTime + fired * Period - told /\ ~(fired > 0)
  BY MsConstants DEF Ms!Init
<1>3. /\ msTime \in Nat /\ told \in Nat /\ wraps \in Nat /\ fired \in Nat /\ started \in Nat
      /\ _current \in Nat /\ _expiryTime \in Int /\ i_expireTime \in Int
      /\ _current < Interval /\ _expiryTime > 0 /\ _expiryTime <= Expiry /\ i_expireTime > 0
      /\ started + told + wraps = msTime
  BY MsConstants DEF Ms!Init
<1>4. passed \in SUBSET {"interval", "tracker"} /\ late \in BOOLEAN
  BY DEF Ms!Init
<1> QED
  BY <1>1, <1>2, <1>3, <1>4 DEF MsInv

\* Numbers that are equal modulo M stay so when the same is added to both.
LEMMA ModAdd ==
  ASSUME NEW M \in Nat \ {0}, NEW x \in Int, NEW y \in Int, NEW d \in Int, x % M = y % M
  PROVE  (x + d) % M = (y + d) % M
<1> DEFINE a == x \div M
           b == y \div M
           r == x % M
<1>1. a \in Int /\ b \in Int /\ r \in Int /\ x = M * a + r /\ y = M * b + r
  BY DivMod
<1> HIDE DEF a, b, r
<1>2. a - b \in Int /\ M * (a - b) = M * a - M * b /\ M * a \in Int /\ M * b \in Int
  BY <1>1
<1>3. x + d = (y + d) + M * (a - b)
  BY <1>1, <1>2
<1>4. y + d \in Int
  OBVIOUS
<1>5. ((y + d) + M * (a - b)) % M = (y + d) % M
  BY <1>2, <1>4, ModShift
<1> QED
  BY <1>3, <1>5

\* getMSTimeDiff of two readings less than a turn of the clock apart: the time
\* between them, and one less over the end of the clock.
LEMMA MsDiff ==
  ASSUME NEW t \in Nat, NEW step \in 0..(Clock - 1)
  PROVE  LET old == t % Clock  new == (t + step) % Clock
         IN  Ms!getMSTimeDiff(old, new) = (IF old > new THEN step - 1 ELSE step)
             /\ (old > new => step > 0)
<1> DEFINE q == t \div Clock
           old == t % Clock
           new == (t + step) % Clock
<1>1. q \in Int /\ old \in 0..(Clock - 1) /\ t = Clock * q + old
  BY DivMod, MsConstants
<1> HIDE DEF q, old
<1>2. CASE old + step < Clock
  <2>1. t + step = Clock * q + (old + step) /\ old + step \in 0..(Clock - 1)
    BY <1>1, <1>2, MsConstants
  <2>2. new = old + step
    BY <1>1, <2>1, ModOfSum, MsConstants
  <2> QED
    BY <1>1, <2>2 DEF Ms!getMSTimeDiff, old
<1>3. CASE old + step >= Clock
  <2>1. /\ t + step = Clock * (q + 1) + (old + step - Clock)
        /\ old + step - Clock \in 0..(Clock - 1) /\ q + 1 \in Int
    BY <1>1, <1>3, MsConstants
  <2>2. new = old + step - Clock
    BY <2>1, ModOfSum, MsConstants, ZenonT(30)
  <2> HIDE DEF new
  <2>3. old > new /\ (Clock - 1 - old) + new = step - 1 /\ step > 0
    BY <1>1, <1>3, <2>2, MsConstants
  <2> QED
    BY <2>3 DEF Ms!getMSTimeDiff, old, new
<1> QED
  BY <1>1, <1>2, <1>3, MsConstants

\* One round of updates.
LEMMA MsUpdate ==
  ASSUME MsInv, NEW step \in Diffs, Ms!Update(step)
  PROVE  MsInv'
<1> DEFINE diff == Ms!getMSTimeDiff(lastTime, lastTime')
<1>1. step \in 0..(Clock - 1) /\ Clock \in Nat \ {0} /\ step \in Nat
  BY MsConstants
<1>2. msTime \in Nat /\ msTime' = msTime + step /\ lastTime = msTime % Clock /\ lastTime' = (msTime + step) % Clock
  BY DEF Ms!Update, Ms!getMSTime, MsInv
<1>3. /\ diff = (IF lastTime > lastTime' THEN step - 1 ELSE step)
      /\ lastTime > lastTime' => step > 0
  BY <1>1, <1>2, MsDiff
<1>4. diff \in Nat
  BY <1>1, <1>3
<1>5. /\ passed = {} /\ told' = told + diff
      /\ wraps' = IF lastTime > lastTime' THEN wraps + 1 ELSE wraps
      /\ _current' = Ms!IntervalUpdate(_current, diff)
      /\ _expiryTime' = _expiryTime - diff
      /\ i_expireTime' = Ms!PeriodicUpdate(i_expireTime, diff)
      /\ fired' = IF Ms!PeriodicPassed(i_expireTime, diff) THEN fired + 1 ELSE fired
      /\ late' = (late \/ diff >= Period) /\ started' = started
      /\ passed' = {t \in {"interval", "tracker"} : IF t = "interval" THEN _current' >= Interval
                                                                      ELSE _expiryTime' <= 0}
  BY DEF Ms!Update
<1> HIDE DEF diff
<1>6. /\ told \in Nat /\ wraps \in Nat /\ fired \in Nat /\ started \in Nat /\ _current \in Nat
      /\ _expiryTime \in Int /\ _expiryTime <= Expiry /\ i_expireTime \in Int /\ i_expireTime > 0
      /\ late \in BOOLEAN /\ started + told + wraps = msTime
      /\ _current % Interval = told % Interval
      /\ ~late => /\ i_expireTime = StartTime + fired * Period - told
                  /\ fired > 0 => i_expireTime <= Period
      /\ Interval \in Nat \ {0} /\ Period \in Nat \ {0} /\ StartTime \in Nat /\ Expiry \in Nat
  BY MsConstants DEF MsInv
<1>7. _current' = _current + diff /\ _current' \in Nat
  BY <1>4, <1>5, <1>6 DEF Ms!IntervalUpdate
<1>8. _current' % Interval = told' % Interval
  <2>1. _current \in Int /\ told \in Int /\ diff \in Int
    BY <1>4, <1>6
  <2>2. (_current + diff) % Interval = (told + diff) % Interval
    BY <1>6, <2>1, ModAdd, ZenonT(30)
  <2> QED
    BY <1>5, <1>7, <2>2, Zenon
<1>9. started' + told' + wraps' = msTime' /\ wraps' \in Nat /\ told' \in Nat /\ msTime' \in Nat
  BY <1>1, <1>2, <1>3, <1>4, <1>5, <1>6
<1>10. /\ i_expireTime' > 0 /\ i_expireTime' \in Int /\ fired' \in Nat
       /\ ~late' => /\ i_expireTime' = StartTime + fired' * Period - told'
                    /\ fired' > 0 => i_expireTime' <= Period
  <2>0. fired * Period \in Int /\ (fired + 1) * Period = fired * Period + Period
    BY <1>6
  <2>1. CASE i_expireTime - diff <= 0
    <3>1. /\ fired' = fired + 1
          /\ i_expireTime' = i_expireTime - diff + (IF Period > diff THEN Period ELSE diff)
      BY <1>5, <2>1 DEF Ms!PeriodicPassed, Ms!PeriodicUpdate
    <3>2. ~late' => ~late /\ Period > diff
      <4>1. ~(diff >= Period) => Period > diff
        BY <1>4, <1>6
      <4> QED
        BY <1>5, <4>1
    <3> QED
      BY <1>4, <1>5, <1>6, <2>0, <2>1, <3>1, <3>2
  <2>2. CASE ~(i_expireTime - diff <= 0)
    <3>1. fired' = fired /\ i_expireTime' = i_expireTime - diff
      BY <1>5, <2>2 DEF Ms!PeriodicPassed, Ms!PeriodicUpdate
    <3>2. ~late' => ~late
      BY <1>5
    <3> QED
      BY <1>4, <1>5, <1>6, <2>0, <2>2, <3>1, <3>2
  <2> QED
    BY <2>1, <2>2
<1>11. _expiryTime' \in Int /\ _expiryTime' <= Expiry
  BY <1>4, <1>5, <1>6
<1>12. /\ passed' \in SUBSET {"interval", "tracker"} /\ late' \in BOOLEAN
       /\ "interval" \notin passed' => ~(_current' >= Interval)
       /\ "tracker" \notin passed' => ~(_expiryTime' <= 0)
  BY <1>5
<1>13. /\ "interval" \notin passed' => _current' < Interval
       /\ "tracker" \notin passed' => _expiryTime' > 0
  BY <1>6, <1>7, <1>11, <1>12
<1>14. lastTime' = msTime' % Clock /\ started' \in Nat
  BY <1>2, <1>5, <1>6
<1> QED
  BY <1>7, <1>8, <1>9, <1>10, <1>11, <1>12, <1>13, <1>14 DEF MsInv

\* Every round, reset and restart keeps the timers right.
LEMMA MsNext == MsInv /\ [Ms!Next]_msVars => MsInv'
<1> SUFFICES ASSUME MsInv, [Ms!Next]_msVars PROVE MsInv'
  OBVIOUS
<1>1. CASE Ms!ResetInterval
  <2>1. _current' = Ms!IntervalReset(_current) /\ passed' = passed \ {"interval"}
        /\ UNCHANGED <<msTime, lastTime, _expiryTime, i_expireTime, started, told, fired, late, wraps>>
    BY <1>1 DEF Ms!ResetInterval
  <2>2. _current \in Nat /\ Interval \in Nat \ {0}
    BY MsConstants DEF MsInv
  <2>3. _current % Interval \in 0..(Interval - 1)
    BY <2>2, DivMod
  <2>4. (_current % Interval) % Interval = _current % Interval
    BY <2>2, <2>3, ModSmall
  <2>5. _current' \in Nat /\ _current' < Interval /\ _current' % Interval = _current % Interval
    BY <2>1, <2>2, <2>3, <2>4 DEF Ms!IntervalReset
  <2> QED
    BY <2>1, <2>5 DEF MsInv
<1>2. CASE Ms!ResetTracker
  BY <1>2, MsConstants DEF Ms!ResetTracker, MsInv
<1>3. CASE Ms!Restart
  <2>1. _current' % Interval = told' % Interval
    BY <1>3, MsConstants DEF Ms!Restart
  <2>2. i_expireTime' = StartTime + fired' * Period - told' /\ ~(fired' > 0)
    BY <1>3, MsConstants DEF Ms!Restart
  <2>3. /\ msTime' \in Nat /\ told' \in Nat /\ wraps' \in Nat /\ fired' \in Nat /\ started' \in Nat
        /\ _current' \in Nat /\ _expiryTime' \in Int /\ i_expireTime' \in Int
        /\ _current' < Interval /\ _expiryTime' > 0 /\ _expiryTime' <= Expiry /\ i_expireTime' > 0
        /\ started' + told' + wraps' = msTime'
    BY <1>3, MsConstants DEF Ms!Restart, MsInv
  <2>4. passed' \in SUBSET {"interval", "tracker"} /\ late' \in BOOLEAN
    BY <1>3 DEF Ms!Restart, MsInv
  <2>5. lastTime' = msTime' % Clock
    BY <1>3 DEF Ms!Restart, MsInv
  <2> QED
    BY <2>1, <2>2, <2>3, <2>4, <2>5 DEF MsInv
<1>4. CASE UNCHANGED msVars
  BY <1>4 DEF msVars, MsInv
<1> QED
  BY <1>1, <1>2, <1>3, <1>4, MsUpdate DEF Ms!Next

\* What the invariant says of the timers between rounds.
LEMMA MsSound == MsInv => Ms!TimersKeepTime
<1> SUFFICES ASSUME MsInv PROVE Ms!TimersKeepTime
  OBVIOUS
<1>1. ASSUME passed = {}
      PROVE  _current = told % Interval /\ _current < Interval /\ _expiryTime > 0 /\ _expiryTime <= Expiry
  <2>1. _current \in Nat /\ _current < Interval /\ Interval \in Nat \ {0}
    BY <1>1, MsConstants DEF MsInv
  <2>2. _current % Interval = _current
    BY <2>1, ModSmall
  <2> QED
    BY <1>1, <2>1, <2>2 DEF MsInv
<1> QED
  BY <1>1 DEF MsInv, Ms!TimersKeepTime

------------------------------------------------------------------------------
(* The memory pool and the timers together                                 *)

\* The inductive invariants of the memory pool and of the millisecond timers.
ArithmeticInv == MemInv /\ MsInv

\* A step of one of the two leaves the other alone.
LEMMA ArithmeticInvStep == ArithmeticInv /\ [ComponentNext]_componentVars => ArithmeticInv'
<1> SUFFICES ASSUME ArithmeticInv, [ComponentNext]_componentVars PROVE ArithmeticInv'
  OBVIOUS
<1>1. [Mem!Next]_memVars
  BY DEF ComponentNext, componentVars, AtomicNext, ArithmeticNext, atomicVars, arithmeticVars
<1>2. [Ms!Next]_msVars
  BY DEF ComponentNext, componentVars, AtomicNext, ArithmeticNext, atomicVars, arithmeticVars
<1> QED
  BY <1>1, <1>2, MemNext, MsNext DEF ArithmeticInv

\* For blocks of every length and every sequence of allocations, what the pool gives
\* away does not overlap and stays in its block until a size wraps, and for every
\* interval, period and expiry the timers tell the time that passed.
THEOREM Arithmetic == ComponentSpec => []ArithmeticSound
<1>1. ComponentInit => ArithmeticInv
  BY MemInit, MsInit DEF ComponentInit, ArithmeticInv
<1>2. ArithmeticInv /\ [ComponentNext]_componentVars => ArithmeticInv'
  BY ArithmeticInvStep
<1>3. ArithmeticInv => ArithmeticSound
  BY MemSound, MsSound DEF ArithmeticInv, ArithmeticSound
<1> QED
  BY <1>1, <1>2, <1>3, PTL DEF ComponentSpec

------------------------------------------------------------------------------
(* SpinLock                                                                *)

\* Where a thread has the lock, and all the places of a thread.
Inside == {"in", "store", "unlock"}
SpinPlaces == {"idle", "lock", "load", "tryLoad", "try"} \cup Inside

\* The lock is taken while one thread is inside, and what that thread loaded is
\* still what the counter is.
SpinInv ==
  /\ spin \in [Spinners -> SpinPlaces] /\ loaded \in [Spinners -> Nat]
  /\ adds \in Nat /\ counter = adds
  /\ lock \in {0, 1}
  /\ lock = 0 => \A t \in Spinners : spin[t] \notin Inside
  /\ lock = 1 => \E t \in Spinners : spin[t] \in Inside
  /\ \A t, u \in Spinners : spin[t] \in Inside /\ spin[u] \in Inside => t = u
  /\ \A t \in Spinners : spin[t] = "store" => loaded[t] = counter

\* The lock that nobody has.
LEMMA SpinInit == Spin!Init => SpinInv
  BY DEF Spin!Init, SpinInv, Inside, SpinPlaces

\* Every step of a thread keeps the exclusion, in all three builds.
LEMMA SpinNext == SpinInv /\ [Spin!Next]_spinVars => SpinInv'
<1> SUFFICES ASSUME SpinInv, [Spin!Next]_spinVars PROVE SpinInv'
  OBVIOUS
<1> USE DEF SpinInv, Inside, SpinPlaces, Spin!Go
<1>1. ASSUME NEW t \in Spinners, NEW try \in BOOLEAN, Spin!Call(t, try) PROVE SpinInv'
  BY <1>1 DEF Spin!Call
<1>2. ASSUME NEW t \in Spinners, Spin!Lock(t) PROVE SpinInv'
  BY <1>2 DEF Spin!Lock
<1>3. ASSUME NEW t \in Spinners, Spin!LoadRelaxed(t) PROVE SpinInv'
  BY <1>3 DEF Spin!LoadRelaxed
<1>4. ASSUME NEW t \in Spinners, Spin!TryLoad(t) PROVE SpinInv'
  BY <1>4 DEF Spin!TryLoad
<1>5. ASSUME NEW t \in Spinners, Spin!TryLock(t) PROVE SpinInv'
  BY <1>5 DEF Spin!TryLock
<1>6. ASSUME NEW t \in Spinners, Spin!LoadCounter(t) PROVE SpinInv'
  BY <1>6 DEF Spin!LoadCounter
<1>7. ASSUME NEW t \in Spinners, Spin!StoreCounter(t) PROVE SpinInv'
  <2>1. /\ spin[t] = "store" /\ loaded[t] = counter /\ lock = 1 /\ lock' = lock /\ loaded' = loaded
        /\ counter' = loaded[t] + 1 /\ adds' = adds + 1 /\ spin' = [spin EXCEPT ![t] = "unlock"]
    BY <1>7 DEF Spin!StoreCounter
  <2>2. \A u \in Spinners : (spin'[u] \in Inside <=> spin[u] \in Inside) /\ spin'[u] # "store"
    BY <2>1
  <2>3. spin' \in [Spinners -> SpinPlaces]
    BY <2>1
  <2>4. adds' \in Nat /\ counter' = adds'
    <3>1. adds \in Nat /\ counter = adds
      OBVIOUS
    <3> HIDE DEF SpinInv
    <3> QED
      BY <2>1, <3>1
  <2> HIDE DEF Inside, SpinPlaces
  <2> QED
    BY <2>1, <2>2, <2>3, <2>4
<1>8. ASSUME NEW t \in Spinners, Spin!Unlock(t) PROVE SpinInv'
  BY <1>8 DEF Spin!Unlock
<1>9. CASE UNCHANGED spinVars
  BY <1>9 DEF spinVars
<1> QED
  BY <1>1, <1>2, <1>3, <1>4, <1>5, <1>6, <1>7, <1>8, <1>9 DEF Spin!Next

\* The cardinality that SpinLock uses is that of FiniteSets.
LEMMA SpinCard == \A S : Spin!Cardinality(S) = Cardinality(S)
  BY DEF Spin!Cardinality, Cardinality

\* What the invariant says of the lock and the counter.
LEMMA SpinSound == SpinInv => Spin!SpinLockSound
<1> SUFFICES ASSUME SpinInv PROVE Spin!SpinLockSound
  OBVIOUS
<1> DEFINE In == {t \in Spinners : spin[t] \in Inside}
<1>1. CASE lock = 0
  <2>1. In = {}
    BY <1>1 DEF SpinInv
  <2> QED
    BY <1>1, <2>1, SpinCard, FS_EmptySet DEF SpinInv, Spin!SpinLockSound, Inside
<1>2. CASE lock = 1
  <2>1. PICK t \in Spinners : In = {t}
    BY <1>2 DEF SpinInv
  <2>2. Cardinality(In) = 1
    BY <2>1, FS_Singleton
  <2> QED
    BY <1>2, <2>2, SpinCard DEF SpinInv, Spin!SpinLockSound, Inside
<1> QED
  BY <1>1, <1>2 DEF SpinInv

------------------------------------------------------------------------------
(* SharedPtr                                                               *)

\* The constants of SharedPtr.
LEMMA PtrConstants ==
  /\ IsFiniteSet(Holders) /\ Holders # {} /\ IsFiniteSet(PtrSlots) /\ 1 \in PtrSlots
  /\ MaxObjects \in Nat \ {0}
  BY AtomicsAssumption

\* The slots that hold a reference to an object.
Pairs == Holders \X PtrSlots
References(o) == {p \in Pairs : Ptr!Refers(p[1], p[2], o)}

\* What a thread is about to do with a slot.
TodoType == [op : {"none", "copy", "move", "reset"}, at : {"none", "release", "delete", "set"},
             slot : PtrSlots \cup {0}, next : Nat, from : PtrSlots \cup {0}]

\* The types; objects are numbered as they are made.
PtrType ==
  /\ ptr \in [Holders -> [PtrSlots -> Nat]] /\ todo \in [Holders -> TodoType]
  /\ count \in [Ptr!Objects -> Nat] /\ deleted \in [Ptr!Objects -> {0, 1}]
  /\ born \in Ptr!Objects
  /\ \A t \in Holders : todo[t].next <= born /\ \A s \in PtrSlots : ptr[t][s] <= born

\* The count of an object is the number of its references.
PtrCounts == \A o \in Ptr!Objects : count[o] = Cardinality(References(o))

\* A thread is idle or has a slot; one that copies or moves has a reference to what
\* it copies or moves.
PtrTodo ==
  \A t \in Holders :
    \/ todo[t] = Ptr!Idle
    \/ /\ todo[t].op # "none" /\ todo[t].at # "none" /\ todo[t].slot \in PtrSlots
       /\ todo[t].op # "reset" => /\ todo[t].from \in PtrSlots /\ todo[t].from # todo[t].slot
                                  /\ ptr[t][todo[t].from] = todo[t].next

\* An object that reset will give to a slot is nowhere else yet.
Fresh(t, o) ==
  /\ count[o] = 0 /\ deleted[o] = 0
  /\ \A u \in Holders : /\ u # t => todo[u].next # o
                        /\ \A s \in PtrSlots : ptr[u][s] # o
PtrFresh == \A t \in Holders : todo[t].op = "reset" /\ todo[t].next # 0 => Fresh(t, todo[t].next)

\* The thread that deletes an object is the only one, and there is no reference.
Deletes(t, o) == todo[t].at = "delete" /\ ptr[t][todo[t].slot] = o
PtrDeletes ==
  \A t \in Holders, o \in Nat : Deletes(t, o) =>
     /\ o \in Ptr!Objects /\ count[o] = 0 /\ deleted[o] = 0
     /\ \A u \in Holders : Deletes(u, o) => u = t

PtrDeleted ==
  \A o \in Ptr!Objects : deleted[o] = 1 => count[o] = 0 /\ \A t \in Holders : todo[t].next # o

\* An object without references was deleted, is being deleted, or is a new one.
PtrLeft ==
  \A o \in Ptr!Objects :
    /\ o <= born /\ count[o] = 0 =>
         \/ deleted[o] = 1
         \/ \E t \in Holders : Deletes(t, o)
         \/ \E t \in Holders : todo[t].op = "reset" /\ todo[t].next = o
    /\ o > born => count[o] = 0 /\ deleted[o] = 0

\* The inductive invariant of shared_ptr.
PtrInv == PtrType /\ PtrCounts /\ PtrTodo /\ PtrFresh /\ PtrDeletes /\ PtrDeleted /\ PtrLeft

\* Cardinality is the same in SharedPtr.
LEMMA PtrCardinality == \A S : Ptr!Cardinality(S) = Cardinality(S)
  BY DEF Ptr!Cardinality, Cardinality

\* An object has finitely many references.
LEMMA ReferencesFinite == \A o : IsFiniteSet(References(o))
<1>1. IsFiniteSet(Pairs)
  BY PtrConstants, FS_Product DEF Pairs
<1> QED
  BY <1>1, FS_Subset DEF References

\* One object, which the first slot of every thread shares.
LEMMA PtrInit == Ptr!Init => PtrInv
<1> SUFFICES ASSUME Ptr!Init PROVE PtrInv
  OBVIOUS
<1>0. /\ ptr = [t \in Holders |-> [s \in PtrSlots |-> IF s = 1 THEN 1 ELSE 0]]
      /\ count = [o \in Ptr!Objects |-> IF o = 1 THEN Cardinality(Holders) ELSE 0]
      /\ todo = [t \in Holders |-> Ptr!Idle]
      /\ deleted = [o \in Ptr!Objects |-> 0] /\ born = 1
  BY PtrCardinality DEF Ptr!Init
<1>1. 1 \in Ptr!Objects /\ \A o \in Ptr!Objects : o \in Nat /\ o # 0
  BY PtrConstants DEF Ptr!Objects
<1>2. Cardinality(Holders) \in Nat /\ Cardinality(Holders) # 0
  BY PtrConstants, FS_CardinalityType, FS_EmptySet
<1>3. /\ Ptr!Idle \in TodoType /\ Ptr!Idle.at = "none" /\ Ptr!Idle.op = "none" /\ Ptr!Idle.next = 0
  BY DEF Ptr!Idle, TodoType
<1>4. PtrType
  <2>1. ptr \in [Holders -> [PtrSlots -> Nat]] /\ todo \in [Holders -> TodoType]
    BY <1>0, <1>3
  <2>2. count \in [Ptr!Objects -> Nat] /\ deleted \in [Ptr!Objects -> {0, 1}]
    BY <1>0, <1>2
  <2>3. \A t \in Holders : todo[t].next <= born /\ \A s \in PtrSlots : ptr[t][s] <= born
    BY <1>0, <1>3
  <2> QED
    BY <1>0, <1>1, <2>1, <2>2, <2>3 DEF PtrType
<1>5. PtrCounts
  <2>1. References(1) = Holders \X {1}
    BY <1>0, <1>3, PtrConstants DEF References, Pairs, Ptr!Refers
  <2>2. Cardinality(Holders \X {1}) = Cardinality(Holders)
    <3>1. IsFiniteSet({1}) /\ Cardinality({1}) = 1
      BY FS_Singleton
    <3>2. Cardinality(Holders \X {1}) = Cardinality(Holders) * Cardinality({1})
      BY <3>1, PtrConstants, FS_Product
    <3> QED
      BY <1>2, <3>1, <3>2
  <2>3. ASSUME NEW o \in Ptr!Objects, o # 1 PROVE References(o) = {}
    BY <1>0, <1>1, <2>3 DEF References, Pairs, Ptr!Refers
  <2>4. Cardinality({}) = 0
    BY FS_EmptySet
  <2> QED
    BY <1>0, <2>1, <2>2, <2>3, <2>4 DEF PtrCounts
<1>6. PtrTodo /\ PtrFresh
  BY <1>0, <1>3 DEF PtrTodo, PtrFresh
<1>7. PtrDeletes
  BY <1>0, <1>3 DEF PtrDeletes, Deletes
<1>8. PtrDeleted
  BY <1>0, <1>1 DEF PtrDeleted
<1>9. PtrLeft
  <2>1. \A o \in Ptr!Objects : o <= born => o = 1
    BY <1>0 DEF Ptr!Objects
  <2>2. \A o \in Ptr!Objects : o > born => o # 1
    BY <1>0
  <2> QED
    BY <1>0, <1>2, <2>1, <2>2 DEF PtrLeft
<1> QED
  BY <1>4, <1>5, <1>6, <1>7, <1>8, <1>9 DEF PtrInv

\* What a reference says of the count.
LEMMA PtrPositive ==
  ASSUME PtrInv, NEW t \in Holders, NEW s \in PtrSlots, NEW o \in Ptr!Objects, Ptr!Refers(t, s, o)
  PROVE  /\ count[o] # 0
         /\ count[o] = 1 => \A u \in Holders, r \in PtrSlots : Ptr!Refers(u, r, o) => u = t /\ r = s
<1>1. <<t, s>> \in References(o)
  BY DEF References, Pairs
<1>2. IsFiniteSet(References(o)) /\ count[o] = Cardinality(References(o))
  BY ReferencesFinite DEF PtrInv, PtrCounts
<1>3. count[o] # 0
  BY <1>1, <1>2, FS_EmptySet
<1>4. ASSUME count[o] = 1, NEW u \in Holders, NEW r \in PtrSlots, Ptr!Refers(u, r, o)
      PROVE  u = t /\ r = s
  <2>1. PICK x : References(o) = {x}
    BY <1>2, <1>4, FS_Singleton
  <2>2. <<u, r>> \in References(o)
    BY <1>4 DEF References, Pairs
  <2>3. <<u, r>> = <<t, s>>
    BY <1>1, <2>1, <2>2
  <2> QED
    BY <2>3
<1> QED
  BY <1>3, <1>4

\* The pointer of an idle slot is a reference.
LEMMA PtrRefers ==
  ASSUME PtrInv, NEW t \in Holders, NEW s \in PtrSlots,
         todo[t].at \in {"none", "release"} \/ todo[t].slot # s
  PROVE  Ptr!Refers(t, s, ptr[t][s])
  BY DEF Ptr!Refers

\* What the invariant says of a thread and its slots.
LEMMA PtrFacts ==
  ASSUME PtrInv, NEW t \in Holders
  PROVE  /\ todo[t].op \in {"none", "copy", "move", "reset"}
         /\ todo[t].at \in {"none", "release", "delete", "set"}
         /\ todo[t].slot \in PtrSlots \cup {0} /\ todo[t].from \in PtrSlots \cup {0}
         /\ todo[t].next \in Nat /\ todo[t].next <= born
         /\ \A s \in PtrSlots : ptr[t][s] \in Nat /\ ptr[t][s] <= born
         /\ todo[t].at # "none" =>
              /\ todo[t].op # "none" /\ todo[t].slot \in PtrSlots
              /\ todo[t].op # "reset" => /\ todo[t].from \in PtrSlots /\ todo[t].from # todo[t].slot
                                         /\ ptr[t][todo[t].from] = todo[t].next
         /\ todo[t].at = "none" => todo[t] = Ptr!Idle
<1>1. todo[t] \in TodoType
  BY DEF PtrInv, PtrType
<1>2. Ptr!Idle.at = "none"
  BY DEF Ptr!Idle
<1>3. \/ todo[t] = Ptr!Idle
      \/ /\ todo[t].op # "none" /\ todo[t].at # "none" /\ todo[t].slot \in PtrSlots
         /\ todo[t].op # "reset" => /\ todo[t].from \in PtrSlots /\ todo[t].from # todo[t].slot
                                    /\ ptr[t][todo[t].from] = todo[t].next
  BY DEF PtrInv, PtrTodo
<1>4. /\ todo[t].next <= born /\ \A s \in PtrSlots : ptr[t][s] \in Nat /\ ptr[t][s] <= born
  BY DEF PtrInv, PtrType
<1>5. /\ todo[t].op \in {"none", "copy", "move", "reset"}
      /\ todo[t].at \in {"none", "release", "delete", "set"}
      /\ todo[t].slot \in PtrSlots \cup {0} /\ todo[t].from \in PtrSlots \cup {0}
      /\ todo[t].next \in Nat
  BY <1>1 DEF TodoType
<1> QED
  BY <1>2, <1>3, <1>4, <1>5

\* Objects and the numbers of objects.
LEMMA PtrObjects ==
  ASSUME PtrInv
  PROVE  /\ Ptr!Objects \subseteq Nat /\ born \in Nat /\ born <= MaxObjects
         /\ \A n \in Nat : n # 0 /\ n <= born => n \in Ptr!Objects
         /\ \A o \in Ptr!Objects : o # 0 /\ count[o] \in Nat /\ deleted[o] \in {0, 1}
<1>1. born \in 1..MaxObjects /\ MaxObjects \in Nat
  BY PtrConstants DEF PtrInv, PtrType, Ptr!Objects
<1>2. \A o \in Ptr!Objects : count[o] \in Nat /\ deleted[o] \in {0, 1}
  BY DEF PtrInv, PtrType
<1> QED
  BY <1>1, <1>2 DEF Ptr!Objects

\* operator= begins.
LEMMA PtrAssign ==
  ASSUME PtrInv, NEW t \in Holders, NEW op \in {"copy", "move"}, NEW slot \in PtrSlots,
         NEW from \in PtrSlots, Ptr!Assign(t, op, slot, from)
  PROVE  PtrInv'
<1> DEFINE r == [op |-> op, at |-> "release", slot |-> slot, next |-> ptr[t][from], from |-> from]
<1>0. /\ todo[t] = Ptr!Idle /\ slot # from /\ todo' = [todo EXCEPT ![t] = r]
      /\ ptr' = ptr /\ count' = count /\ deleted' = deleted /\ born' = born
  BY DEF Ptr!Assign, Ptr!Begin
<1>1. /\ todo \in [Holders -> TodoType] /\ ptr[t][from] \in Nat /\ ptr[t][from] <= born
      /\ Ptr!Idle.at = "none" /\ Ptr!Idle.op = "none"
  BY PtrFacts DEF PtrInv, PtrType, Ptr!Idle
<1>2. /\ r \in TodoType /\ r.at = "release" /\ r.op = op /\ r.op \in {"copy", "move"} /\ r.slot = slot
      /\ r.next = ptr[t][from] /\ r.from = from
  BY <1>1 DEF TodoType
<1> HIDE DEF r
<1>3. todo'[t] = r /\ (\A u \in Holders : u # t => todo'[u] = todo[u]) /\ todo' \in [Holders -> TodoType]
  BY <1>0, <1>1, <1>2
<1>4. \A o : References(o)' = References(o)
  BY <1>0, <1>1, <1>2, <1>3 DEF References, Pairs, Ptr!Refers
<1>5. PtrType'
  BY <1>0, <1>1, <1>2, <1>3 DEF PtrInv, PtrType
<1>6. PtrCounts'
  BY <1>0, <1>4 DEF PtrInv, PtrCounts
<1>7. PtrTodo'
  BY <1>0, <1>2, <1>3 DEF PtrInv, PtrTodo
<1>8. PtrFresh'
  BY <1>0, <1>2, <1>3 DEF PtrInv, PtrFresh, Fresh
<1>9. PtrDeletes'
  BY <1>0, <1>2, <1>3 DEF PtrInv, PtrDeletes, Deletes
<1>10. PtrDeleted'
  <2>1. ASSUME NEW o \in Ptr!Objects, deleted[o] = 1 PROVE ptr[t][from] # o
    <3>1. count[o] = 0
      BY <2>1 DEF PtrInv, PtrDeleted
    <3>2. ptr[t][from] = o => Ptr!Refers(t, from, o)
      BY <1>0, <1>1 DEF Ptr!Refers
    <3> QED
      BY <3>1, <3>2, PtrPositive
  <2> QED
    BY <1>0, <1>2, <1>3, <2>1 DEF PtrInv, PtrDeleted
<1>11. PtrLeft'
  BY <1>0, <1>1, <1>3 DEF PtrInv, PtrLeft, Deletes
<1> QED
  BY <1>5, <1>6, <1>7, <1>8, <1>9, <1>10, <1>11 DEF PtrInv

\* reset begins, with a new object or without.
LEMMA PtrReset ==
  ASSUME PtrInv, NEW t \in Holders, NEW slot \in PtrSlots, NEW new \in BOOLEAN,
         Ptr!Reset(t, slot, new)
  PROVE  PtrInv'
<1> DEFINE R(n) == [op |-> "reset", at |-> "release", slot |-> slot, next |-> n, from |-> 0]
<1>1. /\ todo \in [Holders -> TodoType] /\ Ptr!Idle.at = "none" /\ Ptr!Idle.op = "none"
      /\ born \in Nat
  BY PtrObjects DEF PtrInv, PtrType, Ptr!Idle
<1>a. /\ todo[t] = Ptr!Idle /\ todo' = [todo EXCEPT ![t] = R(IF new THEN born + 1 ELSE 0)]
      /\ new => born < MaxObjects
      /\ ptr' = ptr /\ count' = count /\ deleted' = deleted /\ born' = IF new THEN born + 1 ELSE born
  BY DEF Ptr!Reset, Ptr!Begin
<1>b. PICK n \in Nat : n = IF new THEN born + 1 ELSE 0
  BY <1>1
<1>e. todo' = [todo EXCEPT ![t] = R(n)]
  BY <1>a, <1>b
<1>c. /\ R(n) \in TodoType /\ R(n).at = "release" /\ R(n).op = "reset" /\ R(n).slot = slot
      /\ R(n).next = n
  BY DEF TodoType
<1>d. PICK r : r = R(n)
  OBVIOUS
<1>0. /\ todo[t] = Ptr!Idle /\ todo' = [todo EXCEPT ![t] = r]
      /\ ptr' = ptr /\ count' = count /\ deleted' = deleted
  BY <1>a, <1>e, <1>d
<1>3. /\ r \in TodoType /\ r.at = "release" /\ r.op = "reset" /\ r.slot = slot /\ r.next = n
  BY <1>c, <1>d
<1> HIDE DEF R
<1>2. n <= born' /\ born' \in Nat /\ born <= born' /\ n \in {0, born + 1}
  BY <1>a, <1>1, <1>b
<1>4. n # 0 => n = born + 1 /\ n = born' /\ n \in Ptr!Objects
  <2>1. CASE new
    BY <1>a, <1>b, <1>1, <2>1, PtrConstants DEF Ptr!Objects
  <2>2. CASE ~new
    BY <1>b, <2>2
  <2> QED
    BY <2>1, <2>2
<1>5. n = 0 => born' = born
  BY <1>a, <1>b, <1>1
<1>6. todo'[t] = r /\ (\A u \in Holders : u # t => todo'[u] = todo[u]) /\ todo' \in [Holders -> TodoType]
  BY <1>0, <1>1, <1>3
<1>7. \A o : References(o)' = References(o)
  BY <1>0, <1>1, <1>3, <1>6 DEF References, Pairs, Ptr!Refers
<1>8. \A u \in Holders : todo[u].next \in Nat /\ todo[u].next <= born /\ \A s \in PtrSlots : ptr[u][s] \in Nat /\ ptr[u][s] <= born
  BY PtrFacts
<1>9. PtrType'
  <2>1. born' \in Ptr!Objects
    BY <1>4, <1>5 DEF PtrInv, PtrType
  <2>2. \A u \in Holders : todo'[u].next <= born' /\ \A s \in PtrSlots : ptr'[u][s] <= born'
    BY <1>0, <1>1, <1>2, <1>3, <1>6, <1>8
  <2>3. /\ ptr' \in [Holders -> [PtrSlots -> Nat]]
        /\ count' \in [Ptr!Objects -> Nat] /\ deleted' \in [Ptr!Objects -> {0, 1}]
    BY <1>0 DEF PtrInv, PtrType
  <2> QED
    BY <1>6, <2>1, <2>2, <2>3 DEF PtrType
<1>10. PtrCounts'
  BY <1>0, <1>7 DEF PtrInv, PtrCounts
<1>11. PtrTodo'
  BY <1>0, <1>3, <1>6 DEF PtrInv, PtrTodo
<1>12. PtrFresh'
  <2>1. ASSUME n # 0 PROVE Fresh(t, n)'
    <3>1. count[n] = 0 /\ deleted[n] = 0
      BY <1>1, <1>4, <2>1 DEF PtrInv, PtrLeft
    <3>2. \A u \in Holders : todo[u].next # n /\ \A s \in PtrSlots : ptr[u][s] # n
      BY <1>1, <1>4, <1>8, <2>1
    <3>3. count'[n] = 0 /\ deleted'[n] = 0
      BY <1>0, <3>1
    <3> QED
      BY <1>0, <1>6, <3>2, <3>3 DEF Fresh
  <2>2. ASSUME NEW u \in Holders, u # t, todo[u].op = "reset", todo[u].next # 0
        PROVE  Fresh(u, todo[u].next)'
    <3>1. PICK o : o = todo[u].next
      OBVIOUS
    <3>2. Fresh(u, o) /\ o \in Nat /\ o <= born /\ n # o
      BY <1>1, <1>2, <1>8, <2>2, <3>1 DEF PtrInv, PtrFresh
    <3>3. Fresh(u, o)'
      BY <1>0, <1>3, <1>6, <3>2 DEF Fresh
    <3>4. todo'[u].next = o
      BY <1>6, <2>2, <3>1
    <3> QED
      BY <3>3, <3>4
  <2>3. ASSUME NEW u \in Holders, todo'[u].op = "reset", todo'[u].next # 0
        PROVE  Fresh(u, todo[u].next)'
    <3>1. CASE u = t
      BY <1>3, <1>6, <2>1, <2>3, <3>1
    <3>2. CASE u # t
      BY <1>6, <2>2, <2>3, <3>2
    <3> QED
      BY <3>1, <3>2
  <2> QED
    BY <2>3 DEF PtrFresh
<1>13. PtrDeletes'
  BY <1>0, <1>3, <1>6 DEF PtrInv, PtrDeletes, Deletes
<1>14. PtrDeleted'
  <2>1. ASSUME NEW o \in Ptr!Objects, deleted[o] = 1 PROVE n # o
    BY <1>1, <1>2, <1>4, <2>1, PtrObjects DEF PtrInv, PtrLeft
  <2> QED
    BY <1>0, <1>3, <1>6, <2>1 DEF PtrInv, PtrDeleted
<1>15. PtrLeft'
  <2>1. ASSUME NEW o \in Ptr!Objects, o <= born', count[o] = 0
        PROVE  deleted[o] = 1 \/ (\E u \in Holders : Deletes(u, o)')
                 \/ \E u \in Holders : todo'[u].op = "reset" /\ todo'[u].next = o
    <3>1. CASE o <= born
      <4>1. \/ deleted[o] = 1
            \/ \E u \in Holders : Deletes(u, o)
            \/ \E u \in Holders : todo[u].op = "reset" /\ todo[u].next = o
        BY <2>1, <3>1 DEF PtrInv, PtrLeft
      <4>2. \A u \in Holders : Deletes(u, o) => Deletes(u, o)'
        BY <1>0, <1>1, <1>6 DEF Deletes
      <4>3. \A u \in Holders : todo[u].op = "reset" => todo'[u] = todo[u]
        BY <1>0, <1>1, <1>6
      <4> QED
        BY <4>1, <4>2, <4>3
    <3>2. CASE o > born
      BY <1>0, <1>1, <1>3, <1>4, <1>5, <1>6, <2>1, <3>2, PtrObjects
    <3> QED
      BY <3>1, <3>2, PtrObjects
  <2>2. ASSUME NEW o \in Ptr!Objects, o > born' PROVE count[o] = 0 /\ deleted[o] = 0
    BY <1>1, <1>2, <2>2, PtrObjects DEF PtrInv, PtrLeft
  <2> QED
    BY <1>0, <2>1, <2>2 DEF PtrLeft
<1> QED
  BY <1>9, <1>10, <1>11, <1>12, <1>13, <1>14, <1>15 DEF PtrInv

\* fetch_sub: one reference less, and without one the thread deletes.
LEMMA PtrRelease ==
  ASSUME PtrInv, NEW t \in Holders, Ptr!Release(t)
  PROVE  PtrInv'
<1> DEFINE o == ptr[t][todo[t].slot]
           at == IF o # 0 /\ count[o] = 1 THEN "delete" ELSE "set"
<1>1. /\ todo \in [Holders -> TodoType] /\ todo[t].slot \in PtrSlots /\ todo[t].op # "none"
      /\ todo[t].at = "release" /\ o \in Nat /\ o <= born
  BY PtrFacts DEF PtrInv, PtrType, Ptr!Release
<1>0. /\ count' = IF o = 0 THEN count ELSE [count EXCEPT ![o] = @ - 1]
      /\ todo' = [todo EXCEPT ![t].at = at]
      /\ ptr' = ptr /\ deleted' = deleted /\ born' = born
  BY DEF Ptr!Release
<1>p. PICK p, a : p = o /\ a = at
  OBVIOUS
<1>q. PICK slot : slot = todo[t].slot
  OBVIOUS
<1>2. /\ a \in {"delete", "set"}
      /\ a = "delete" <=> p # 0 /\ count[p] = 1
  BY <1>p
<1>3. /\ \A u \in Holders : u # t => todo'[u] = todo[u]
      /\ todo'[t].at = a /\ todo'[t].op = todo[t].op /\ todo'[t].slot = slot
      /\ todo'[t].next = todo[t].next /\ todo'[t].from = todo[t].from
      /\ todo' \in [Holders -> TodoType]
  <2> HIDE DEF o, at
  <2>1. todo' = [todo EXCEPT ![t] = [todo[t] EXCEPT !.at = a]]
    BY <1>0, <1>p
  <2>2. todo[t] \in TodoType
    BY <1>1
  <2>3. [todo[t] EXCEPT !.at = a] \in TodoType
    BY <1>2, <2>2 DEF TodoType
  <2> QED
    BY <1>1, <1>q, <2>1, <2>2, <2>3 DEF TodoType
<1>4. /\ slot \in PtrSlots /\ ptr[t][slot] = p /\ p \in Nat /\ p <= born /\ (p # 0 => p \in Ptr!Objects)
      /\ todo[t].slot = slot /\ todo[t].at = "release" /\ todo[t].op # "none"
  BY <1>1, <1>p, <1>q, PtrObjects
<1>5. count' = IF p = 0 THEN count ELSE [count EXCEPT ![p] = count[p] - 1]
  BY <1>0, <1>p
<1>6. ptr' = ptr /\ deleted' = deleted /\ born' = born
  BY <1>0
<1> HIDE DEF o, at
<1>7. Ptr!Refers(t, slot, p)
  BY <1>4 DEF Ptr!Refers
<1>8. p # 0 => /\ count[p] \in Nat /\ count[p] # 0 /\ count'[p] = count[p] - 1 /\ deleted[p] = 0
               /\ \A u \in Holders : ~Deletes(u, p)
  <2> SUFFICES ASSUME p # 0 PROVE /\ count[p] \in Nat /\ count[p] # 0 /\ count'[p] = count[p] - 1 /\ deleted[p] = 0
               /\ \A u \in Holders : ~Deletes(u, p)
    OBVIOUS
  <2>1. count[p] # 0 /\ count[p] \in Nat /\ deleted[p] \in {0, 1}
    BY <1>4, <1>7, PtrPositive, PtrObjects
  <2>2. count'[p] = count[p] - 1
    BY <1>4, <1>5 DEF PtrInv, PtrType
  <2>3. deleted[p] # 1 /\ \A u \in Holders : ~Deletes(u, p)
    BY <1>4, <2>1 DEF PtrInv, PtrDeleted, PtrDeletes
  <2> QED
    BY <2>1, <2>2, <2>3
<1>9. \A x \in Ptr!Objects : x # p => count'[x] = count[x]
  BY <1>5 DEF PtrInv, PtrType
<1>10. /\ References(p)' = References(p) \ {<<t, slot>>}
       /\ \A x : x # p => References(x)' = References(x)
  <2>1. \A u \in Holders, s \in PtrSlots : \A x :
          Ptr!Refers(u, s, x)' <=> Ptr!Refers(u, s, x) /\ <<u, s>> # <<t, slot>>
    BY <1>2, <1>3, <1>4, <1>6 DEF Ptr!Refers
  <2>2. \A x : x # p => ~Ptr!Refers(t, slot, x)
    BY <1>4 DEF Ptr!Refers
  <2> QED
    BY <2>1, <2>2 DEF References, Pairs
<1>11. PtrType'
  <2>1. count' \in [Ptr!Objects -> Nat]
    <3>1. CASE p = 0
      BY <1>5, <3>1 DEF PtrInv, PtrType
    <3>2. CASE p # 0
      <4>1. count[p] - 1 \in Nat
        BY <1>8, <3>2
      <4> QED
        BY <1>5, <3>2, <4>1 DEF PtrInv, PtrType
    <3> QED
      BY <3>1, <3>2
  <2>2. \A u \in Holders : todo'[u].next <= born' /\ \A s \in PtrSlots : ptr'[u][s] <= born'
    BY <1>3, <1>6 DEF PtrInv, PtrType
  <2> QED
    BY <1>3, <1>6, <2>1, <2>2 DEF PtrInv, PtrType
<1>12. PtrCounts'
  <2>1. ASSUME p # 0 PROVE count'[p] = Cardinality(References(p)')
    <3>1. <<t, slot>> \in References(p) /\ IsFiniteSet(References(p)) /\ count[p] = Cardinality(References(p))
      BY <1>4, <1>7, <2>1, ReferencesFinite DEF References, Pairs, PtrInv, PtrCounts
    <3>2. Cardinality(References(p) \ {<<t, slot>>}) = Cardinality(References(p)) - 1
      BY <3>1, FS_RemoveElement
    <3> QED
      BY <1>8, <1>10, <2>1, <3>1, <3>2
  <2>2. \A x \in Ptr!Objects : x # p => count'[x] = Cardinality(References(x)')
    BY <1>9, <1>10 DEF PtrInv, PtrCounts
  <2>3. \A x \in Ptr!Objects : count'[x] = Cardinality(References(x)')
    BY <2>1, <2>2, PtrObjects
  <2> QED
    BY <2>3 DEF PtrCounts
<1>13. PtrTodo'
  <2>1. ASSUME NEW u \in Holders, u # t
        PROVE  \/ todo'[u] = Ptr!Idle
               \/ /\ todo'[u].op # "none" /\ todo'[u].at # "none" /\ todo'[u].slot \in PtrSlots
                  /\ todo'[u].op # "reset" => /\ todo'[u].from \in PtrSlots /\ todo'[u].from # todo'[u].slot
                                              /\ ptr'[u][todo'[u].from] = todo'[u].next
    BY <1>3, <1>6, <2>1 DEF PtrInv, PtrTodo
  <2>2. /\ todo'[t].op # "none" /\ todo'[t].at # "none" /\ todo'[t].slot \in PtrSlots
        /\ todo'[t].op # "reset" => /\ todo'[t].from \in PtrSlots /\ todo'[t].from # todo'[t].slot
                                    /\ ptr'[t][todo'[t].from] = todo'[t].next
    BY <1>2, <1>3, <1>4, <1>6, PtrFacts
  <2> QED
    BY <2>1, <2>2 DEF PtrTodo
<1>14. \A u \in Holders : todo'[u].next = todo[u].next /\ todo'[u].op = todo[u].op /\ todo'[u].slot = todo[u].slot
  BY <1>3, <1>4
<1>15. PtrFresh'
  <2>1. ASSUME NEW u \in Holders, NEW n, n = todo[u].next, todo[u].op = "reset", n # 0
        PROVE  Fresh(u, n)'
    <3>1. Fresh(u, n) /\ n # p /\ n \in Ptr!Objects
      BY <1>4, <2>1, PtrFacts, PtrObjects DEF PtrInv, PtrFresh, Fresh
    <3> QED
      BY <1>6, <1>9, <1>14, <3>1 DEF Fresh
  <2>2. \A u \in Holders : todo'[u].op = "reset" /\ todo'[u].next # 0 => Fresh(u, todo[u].next)'
    BY <1>14, <2>1
  <2> QED
    BY <2>2 DEF PtrFresh
<1>16. PtrDeletes'
  <2>1. ASSUME NEW u \in Holders, u # t, NEW x PROVE Deletes(u, x)' <=> Deletes(u, x)
    BY <1>3, <1>6, <2>1 DEF Deletes
  <2>2. ASSUME NEW x, Deletes(t, x)' PROVE x = p /\ p # 0 /\ count[p] = 1
    BY <1>2, <1>3, <1>4, <1>6, <2>2 DEF Deletes
  <2>3. ASSUME NEW u \in Holders, NEW x \in Nat, Deletes(u, x)'
        PROVE  /\ x \in Ptr!Objects /\ count'[x] = 0 /\ deleted'[x] = 0
               /\ \A v \in Holders : Deletes(v, x)' => v = u
    <3>1. CASE u = t
      <4>1. x = p /\ p # 0 /\ count[p] = 1
        BY <2>2, <2>3, <3>1
      <4> QED
        BY <1>4, <1>6, <1>8, <2>1, <3>1, <4>1
    <3>2. CASE u # t
      <4>1. /\ Deletes(u, x) /\ x \in Ptr!Objects /\ count[x] = 0 /\ deleted[x] = 0
            /\ \A v \in Holders : Deletes(v, x) => v = u
        BY <2>1, <2>3, <3>2 DEF PtrInv, PtrDeletes
      <4>2. x # p
        BY <1>8, <4>1, PtrObjects
      <4> QED
        BY <1>6, <1>9, <2>1, <2>2, <4>1, <4>2
    <3> QED
      BY <3>1, <3>2
  <2> QED
    BY <2>3 DEF PtrDeletes
<1>17. PtrDeleted'
  <2>1. ASSUME NEW x \in Ptr!Objects, deleted[x] = 1 PROVE count'[x] = 0 /\ \A u \in Holders : todo'[u].next # x
    <3>1. count[x] = 0 /\ \A u \in Holders : todo[u].next # x
      BY <2>1 DEF PtrInv, PtrDeleted
    <3>2. x # p
      BY <1>8, <2>1, PtrObjects
    <3> QED
      BY <1>9, <1>14, <3>1, <3>2
  <2> QED
    BY <1>6, <2>1 DEF PtrDeleted
<1>18. PtrLeft'
  <2>1. ASSUME NEW x \in Ptr!Objects, x <= born, count'[x] = 0
        PROVE  \/ deleted'[x] = 1
               \/ \E u \in Holders : Deletes(u, x)'
               \/ \E u \in Holders : todo'[u].op = "reset" /\ todo'[u].next = x
    <3>1. CASE x = p
      <4>1. p # 0 /\ count[p] = 1
        BY <1>8, <2>1, <3>1, PtrObjects
      <4>2. Deletes(t, x)'
        BY <1>2, <1>3, <1>4, <1>6, <3>1, <4>1 DEF Deletes
      <4> QED
        BY <4>2
    <3>2. CASE x # p
      <4>1. \/ deleted[x] = 1
            \/ \E u \in Holders : Deletes(u, x)
            \/ \E u \in Holders : todo[u].op = "reset" /\ todo[u].next = x
        BY <1>9, <2>1, <3>2 DEF PtrInv, PtrLeft
      <4>2. \A u \in Holders : Deletes(u, x) => Deletes(u, x)'
        BY <1>3, <1>4, <1>6 DEF Deletes
      <4> QED
        BY <1>6, <1>14, <4>1, <4>2
    <3> QED
      BY <3>1, <3>2
  <2>2. ASSUME NEW x \in Ptr!Objects, x > born PROVE count'[x] = 0 /\ deleted'[x] = 0
    <3>1. x # p
      BY <1>4, <2>2, PtrObjects
    <3> QED
      BY <1>6, <1>9, <2>2, <3>1 DEF PtrInv, PtrLeft
  <2> QED
    BY <1>6, <2>1, <2>2 DEF PtrLeft
<1> QED
  BY <1>11, <1>12, <1>13, <1>15, <1>16, <1>17, <1>18 DEF PtrInv

\* The object is deleted; whoever had a reference to it has none any more.
LEMMA PtrDelete ==
  ASSUME PtrInv, NEW t \in Holders, Ptr!Delete(t)
  PROVE  PtrInv'
<1>p. PICK p, slot : slot = todo[t].slot /\ p = ptr[t][slot]
  OBVIOUS
<1>1. /\ todo \in [Holders -> TodoType] /\ slot \in PtrSlots /\ todo[t].slot = slot
      /\ todo[t].at = "delete" /\ todo[t].op # "none" /\ p \in Nat /\ p <= born /\ ptr[t][slot] = p
  BY <1>p, PtrFacts DEF PtrInv, PtrType, Ptr!Delete
<1>0. /\ todo' = [todo EXCEPT ![t] = [todo[t] EXCEPT !.at = "set"]]
      /\ deleted' = [deleted EXCEPT ![p] = deleted[p] + 1]
      /\ ptr' = ptr /\ count' = count /\ born' = born
  BY <1>p DEF Ptr!Delete
<1>2. /\ \A u \in Holders : u # t => todo'[u] = todo[u]
      /\ todo'[t].at = "set" /\ todo'[t].op = todo[t].op /\ todo'[t].slot = slot
      /\ todo'[t].next = todo[t].next /\ todo'[t].from = todo[t].from
      /\ todo' \in [Holders -> TodoType]
  <2>2. todo[t] \in TodoType
    BY <1>1
  <2>3. [todo[t] EXCEPT !.at = "set"] \in TodoType
    BY <2>2 DEF TodoType
  <2> QED
    BY <1>0, <1>1, <2>2, <2>3 DEF TodoType
<1>3. Deletes(t, p)
  BY <1>1 DEF Deletes
<1>4. /\ p \in Ptr!Objects /\ count[p] = 0 /\ deleted[p] = 0 /\ p # 0
      /\ \A u \in Holders : Deletes(u, p) => u = t
  BY <1>1, <1>3, PtrObjects DEF PtrInv, PtrDeletes
<1>5. deleted'[p] = 1 /\ \A x \in Ptr!Objects : x # p => deleted'[x] = deleted[x]
  BY <1>0, <1>4 DEF PtrInv, PtrType
<1>6. \A u \in Holders : todo'[u].next = todo[u].next /\ todo'[u].op = todo[u].op /\ todo'[u].slot = todo[u].slot
  BY <1>1, <1>2
<1>7. \A x : References(x)' = References(x)
  BY <1>0, <1>1, <1>2 DEF References, Pairs, Ptr!Refers
<1>8. ASSUME NEW u \in Holders PROVE todo[u].next # p
  <2> SUFFICES ASSUME todo[u].next = p PROVE FALSE
    OBVIOUS
  <2>1. todo[u].op # "none" /\ todo[u].at # "none"
    BY <1>4, PtrFacts DEF Ptr!Idle
  <2>2. CASE todo[u].op = "reset"
    BY <1>1, <1>4, <2>2 DEF PtrInv, PtrFresh, Fresh
  <2>3. CASE todo[u].op # "reset"
    <3>1. todo[u].from \in PtrSlots /\ Ptr!Refers(u, todo[u].from, p)
      BY <2>1, <2>3, PtrFacts DEF Ptr!Refers
    <3> QED
      BY <1>4, <3>1, PtrPositive
  <2> QED
    BY <2>2, <2>3
<1>9. PtrType'
  <2>1. deleted' \in [Ptr!Objects -> {0, 1}]
    BY <1>0, <1>4 DEF PtrInv, PtrType
  <2>2. \A u \in Holders : todo'[u].next <= born' /\ \A s \in PtrSlots : ptr'[u][s] <= born'
    BY <1>0, <1>6 DEF PtrInv, PtrType
  <2> QED
    BY <1>0, <1>2, <2>1, <2>2 DEF PtrInv, PtrType
<1>10. PtrCounts'
  BY <1>0, <1>7 DEF PtrInv, PtrCounts
<1>11. PtrTodo'
  <2>1. ASSUME NEW u \in Holders, u # t
        PROVE  \/ todo'[u] = Ptr!Idle
               \/ /\ todo'[u].op # "none" /\ todo'[u].at # "none" /\ todo'[u].slot \in PtrSlots
                  /\ todo'[u].op # "reset" => /\ todo'[u].from \in PtrSlots /\ todo'[u].from # todo'[u].slot
                                              /\ ptr'[u][todo'[u].from] = todo'[u].next
    BY <1>0, <1>2, <2>1 DEF PtrInv, PtrTodo
  <2>2. /\ todo'[t].op # "none" /\ todo'[t].at # "none" /\ todo'[t].slot \in PtrSlots
        /\ todo'[t].op # "reset" => /\ todo'[t].from \in PtrSlots /\ todo'[t].from # todo'[t].slot
                                    /\ ptr'[t][todo'[t].from] = todo'[t].next
    BY <1>0, <1>1, <1>2, PtrFacts
  <2> QED
    BY <2>1, <2>2 DEF PtrTodo
<1>12. PtrFresh'
  <2>1. ASSUME NEW u \in Holders, NEW n, n = todo[u].next, todo[u].op = "reset", n # 0
        PROVE  Fresh(u, n)'
    <3>1. Fresh(u, n) /\ n # p /\ n \in Ptr!Objects
      BY <1>8, <2>1, PtrFacts, PtrObjects DEF PtrInv, PtrFresh
    <3> QED
      BY <1>0, <1>5, <1>6, <3>1 DEF Fresh
  <2>2. \A u \in Holders : todo'[u].op = "reset" /\ todo'[u].next # 0 => Fresh(u, todo[u].next)'
    BY <1>6, <2>1
  <2> QED
    BY <2>2 DEF PtrFresh
<1>13. PtrDeletes'
  <2>1. ASSUME NEW u \in Holders, NEW x, Deletes(u, x)' PROVE Deletes(u, x) /\ u # t
    BY <1>0, <1>1, <1>2, <2>1 DEF Deletes
  <2>2. ASSUME NEW u \in Holders, NEW x \in Nat, Deletes(u, x)'
        PROVE  /\ x \in Ptr!Objects /\ count'[x] = 0 /\ deleted'[x] = 0
               /\ \A v \in Holders : Deletes(v, x)' => v = u
    <3>1. /\ Deletes(u, x) /\ u # t /\ x \in Ptr!Objects /\ count[x] = 0 /\ deleted[x] = 0
          /\ \A v \in Holders : Deletes(v, x) => v = u
      BY <2>1, <2>2 DEF PtrInv, PtrDeletes
    <3>2. x # p
      BY <1>4, <3>1
    <3> QED
      BY <1>0, <1>5, <2>1, <3>1, <3>2
  <2> QED
    BY <2>2 DEF PtrDeletes
<1>14. PtrDeleted'
  <2>1. ASSUME NEW x \in Ptr!Objects, deleted'[x] = 1 PROVE count'[x] = 0 /\ \A u \in Holders : todo'[u].next # x
    <3>1. CASE x = p
      BY <1>0, <1>4, <1>6, <1>8, <3>1
    <3>2. CASE x # p
      BY <1>0, <1>5, <1>6, <2>1, <3>2 DEF PtrInv, PtrDeleted
    <3> QED
      BY <3>1, <3>2
  <2> QED
    BY <2>1 DEF PtrDeleted
<1>15. PtrLeft'
  <2>1. ASSUME NEW x \in Ptr!Objects, x <= born, count[x] = 0
        PROVE  \/ deleted'[x] = 1
               \/ \E u \in Holders : Deletes(u, x)'
               \/ \E u \in Holders : todo'[u].op = "reset" /\ todo'[u].next = x
    <3>1. CASE x = p
      BY <1>5, <3>1
    <3>2. CASE x # p
      <4>1. \/ deleted[x] = 1
            \/ \E u \in Holders : Deletes(u, x)
            \/ \E u \in Holders : todo[u].op = "reset" /\ todo[u].next = x
        BY <2>1 DEF PtrInv, PtrLeft
      <4>2. \A u \in Holders : Deletes(u, x) => Deletes(u, x)'
        BY <1>0, <1>1, <1>2, <3>2 DEF Deletes
      <4> QED
        BY <1>5, <1>6, <3>2, <4>1, <4>2
    <3> QED
      BY <3>1, <3>2
  <2>2. ASSUME NEW x \in Ptr!Objects, x > born PROVE count[x] = 0 /\ deleted'[x] = 0
    <3>1. x # p
      BY <1>1, <2>2, PtrObjects
    <3> QED
      BY <1>5, <2>2, <3>1 DEF PtrInv, PtrLeft
  <2> QED
    BY <1>0, <2>1, <2>2 DEF PtrLeft
<1> QED
  BY <1>9, <1>10, <1>11, <1>12, <1>13, <1>14, <1>15 DEF PtrInv

\* ptr_ and ref_count_ are set.  A copy and a new object add a reference, a move
\* takes it from the slot it came from.
LEMMA PtrSet ==
  ASSUME PtrInv, NEW t \in Holders, Ptr!Set(t)
  PROVE  PtrInv'
<1>p. PICK n, slot, from, op : n = todo[t].next /\ slot = todo[t].slot /\ from = todo[t].from /\ op = todo[t].op
  OBVIOUS
<1>1. /\ todo \in [Holders -> TodoType] /\ ptr \in [Holders -> [PtrSlots -> Nat]]
      /\ slot \in PtrSlots /\ todo[t].slot = slot /\ todo[t].next = n
      /\ todo[t].at = "set" /\ todo[t].op = op /\ op \in {"copy", "move", "reset"}
      /\ n \in Nat /\ n <= born /\ (n # 0 => n \in Ptr!Objects)
      /\ op # "reset" => from \in PtrSlots /\ from # slot /\ ptr[t][from] = n
  BY <1>p, PtrFacts, PtrObjects DEF PtrInv, PtrType, Ptr!Set
<1>0. /\ ptr' = [ptr EXCEPT ![t] = [s \in PtrSlots |-> CASE s = slot -> n
                                                  [] s = from /\ op = "move" -> 0
                                                  [] OTHER -> ptr[t][s]]]
      /\ count' = IF n = 0 \/ op = "move" THEN count ELSE [count EXCEPT ![n] = count[n] + 1]
      /\ todo' = [todo EXCEPT ![t] = Ptr!Idle]
      /\ deleted' = deleted /\ born' = born
  BY <1>p DEF Ptr!Set
<1>2. /\ Ptr!Idle \in TodoType /\ Ptr!Idle.at = "none" /\ Ptr!Idle.op = "none" /\ Ptr!Idle.next = 0
  BY DEF Ptr!Idle, TodoType
<1>3. /\ \A u \in Holders : u # t => todo'[u] = todo[u] /\ ptr'[u] = ptr[u]
      /\ todo'[t] = Ptr!Idle /\ todo' \in [Holders -> TodoType]
  BY <1>0, <1>1, <1>2
<1>4. /\ ptr'[t][slot] = n
      /\ \A s \in PtrSlots : s # slot /\ ~(s = from /\ op = "move") => ptr'[t][s] = ptr[t][s]
      /\ \A s \in PtrSlots : s # slot /\ s = from /\ op = "move" => ptr'[t][s] = 0
  BY <1>0, <1>1
<1>5. /\ \A x \in Ptr!Objects : x # n => count'[x] = count[x]
      /\ (n = 0 \/ op = "move") => count' = count
      /\ (n # 0 /\ op # "move") => count'[n] = count[n] + 1
  BY <1>0, <1>1 DEF PtrInv, PtrType
<1>6. n # 0 /\ op # "reset" => Ptr!Refers(t, from, n) /\ count[n] # 0
  BY <1>1, PtrPositive DEF Ptr!Refers
<1>7. n # 0 /\ op = "reset" => Fresh(t, n)
  BY <1>1 DEF PtrInv, PtrFresh
<1>a. /\ count \in [Ptr!Objects -> Nat]
  BY DEF PtrInv, PtrType
<1>8. ASSUME NEW u \in Holders, NEW s \in PtrSlots, NEW x \in Ptr!Objects, u # t
      PROVE  Ptr!Refers(u, s, x)' <=> Ptr!Refers(u, s, x)
  BY <1>3, <1>8 DEF Ptr!Refers
<1>9. ASSUME NEW s \in PtrSlots, NEW x \in Ptr!Objects
      PROVE  /\ s # slot /\ ~(s = from /\ op = "move") => (Ptr!Refers(t, s, x)' <=> Ptr!Refers(t, s, x))
             /\ s = slot => ~Ptr!Refers(t, s, x) /\ (Ptr!Refers(t, s, x)' <=> x = n)
             /\ s # slot /\ s = from /\ op = "move" => ~Ptr!Refers(t, s, x)' /\ (Ptr!Refers(t, s, x) <=> x = n)
  <2>1. x # 0
    BY PtrObjects
  <2>2. Ptr!Refers(t, s, x)' <=> ptr'[t][s] = x
    BY <1>2, <1>3 DEF Ptr!Refers
  <2>3. Ptr!Refers(t, s, x) <=> ptr[t][s] = x /\ s # slot
    BY <1>1 DEF Ptr!Refers
  <2> QED
    BY <1>1, <1>4, <2>1, <2>2, <2>3
<1>10. ASSUME NEW x \in Ptr!Objects, x # n PROVE References(x)' = References(x)
  <2>1. \A s \in PtrSlots : Ptr!Refers(t, s, x)' <=> Ptr!Refers(t, s, x)
    BY <1>9, <1>10
  <2>2. \A u \in Holders, s \in PtrSlots : Ptr!Refers(u, s, x)' <=> Ptr!Refers(u, s, x)
    BY <1>8, <2>1
  <2> QED
    BY <2>2 DEF References, Pairs
<1>11. ASSUME n # 0, op # "move" PROVE count'[n] = Cardinality(References(n)')
  <2>1. \A u \in Holders, s \in PtrSlots :
           Ptr!Refers(u, s, n)' <=> Ptr!Refers(u, s, n) \/ <<u, s>> = <<t, slot>>
    BY <1>1, <1>8, <1>9, <1>11
  <2>2. References(n)' = References(n) \cup {<<t, slot>>}
    BY <1>1, <2>1 DEF References, Pairs
  <2>3. <<t, slot>> \notin References(n)
    BY <1>1, <1>9, <1>11 DEF References
  <2>4. IsFiniteSet(References(n)) /\ count[n] = Cardinality(References(n))
    BY <1>1, <1>11, ReferencesFinite DEF PtrInv, PtrCounts
  <2> QED
    BY <1>5, <1>11, <2>2, <2>3, <2>4, FS_AddElement
<1>12. ASSUME n # 0, op = "move" PROVE count'[n] = Cardinality(References(n)')
  <2>1. \A u \in Holders, s \in PtrSlots :
           Ptr!Refers(u, s, n)' <=> (Ptr!Refers(u, s, n) /\ <<u, s>> # <<t, from>>) \/ <<u, s>> = <<t, slot>>
    BY <1>1, <1>8, <1>9, <1>12
  <2>2. References(n)' = (References(n) \ {<<t, from>>}) \cup {<<t, slot>>}
    BY <1>1, <2>1 DEF References, Pairs
  <2>3. <<t, slot>> \notin References(n) /\ <<t, from>> \in References(n)
    BY <1>1, <1>6, <1>9, <1>12 DEF References, Pairs
  <2>4. IsFiniteSet(References(n)) /\ count[n] = Cardinality(References(n)) /\ count[n] \in Nat
    BY <1>1, <1>12, <1>a, ReferencesFinite DEF PtrInv, PtrCounts
  <2>5. /\ IsFiniteSet(References(n) \ {<<t, from>>})
        /\ Cardinality(References(n) \ {<<t, from>>}) = Cardinality(References(n)) - 1
    BY <2>3, <2>4, FS_RemoveElement
  <2>6. Cardinality((References(n) \ {<<t, from>>}) \cup {<<t, slot>>}) = Cardinality(References(n) \ {<<t, from>>}) + 1
    BY <2>3, <2>5, FS_AddElement
  <2> QED
    BY <1>5, <1>12, <2>2, <2>4, <2>5, <2>6
<1>13. PtrType'
  <2>1. ptr' \in [Holders -> [PtrSlots -> Nat]] /\ \A s \in PtrSlots : ptr'[t][s] <= born
    <3>1. \A s \in PtrSlots : ptr[t][s] \in Nat /\ ptr[t][s] <= born
      BY PtrFacts
    <3>2. born \in Nat
      BY PtrObjects
    <3>3. \A s \in PtrSlots : ptr'[t][s] \in {n, 0, ptr[t][s]}
      BY <1>4
    <3>4. [s \in PtrSlots |-> CASE s = slot -> n
                               [] s = from /\ op = "move" -> 0
                               [] OTHER -> ptr[t][s]] \in [PtrSlots -> Nat]
      BY <1>1, <3>1
    <3>5. ptr' \in [Holders -> [PtrSlots -> Nat]]
      BY <1>0, <1>1, <3>4
    <3>6. \A s \in PtrSlots : ptr'[t][s] <= born
      <4>1. 0 <= born /\ n <= born
        BY <1>1, <3>2
      <4> QED
        BY <3>1, <3>3, <4>1
    <3> QED
      BY <3>5, <3>6
  <2>2. count' \in [Ptr!Objects -> Nat]
    <3>1. CASE n = 0 \/ op = "move"
      BY <1>5, <1>a, <3>1
    <3>2. CASE ~(n = 0 \/ op = "move")
      <4>1. count[n] + 1 \in Nat
        BY <1>1, <1>a, <3>2
      <4> QED
        BY <1>0, <1>a, <3>2, <4>1
    <3> QED
      BY <3>1, <3>2
  <2>3. \A u \in Holders : todo'[u].next <= born' /\ \A s \in PtrSlots : ptr'[u][s] <= born'
    <3>1. ASSUME NEW u \in Holders, u # t
          PROVE  todo'[u].next <= born' /\ \A s \in PtrSlots : ptr'[u][s] <= born'
      BY <1>0, <1>3, <3>1 DEF PtrInv, PtrType
    <3>2. todo'[t].next <= born'
      BY <1>0, <1>2, <1>3, PtrObjects
    <3> QED
      BY <1>0, <2>1, <3>1, <3>2
  <2> QED
    BY <1>0, <1>3, <2>1, <2>2, <2>3 DEF PtrInv, PtrType
<1>14. PtrCounts'
  <2>1. \A x \in Ptr!Objects : x # n => count'[x] = Cardinality(References(x)')
    BY <1>5, <1>10 DEF PtrInv, PtrCounts
  <2>2. \A x \in Ptr!Objects : count'[x] = Cardinality(References(x)')
    BY <1>11, <1>12, <2>1, PtrObjects
  <2> QED
    BY <2>2 DEF PtrCounts
<1>15. PtrTodo'
  BY <1>3 DEF PtrInv, PtrTodo
<1>16. PtrFresh'
  <2>1. ASSUME NEW u \in Holders, NEW x, x = todo[u].next, todo[u].op = "reset", x # 0, u # t
        PROVE  Fresh(u, x)'
    <3>1. Fresh(u, x) /\ x # n /\ x \in Ptr!Objects
      BY <1>1, <2>1, PtrFacts, PtrObjects DEF PtrInv, PtrFresh, Fresh
    <3>2. \A s \in PtrSlots : ptr'[t][s] \in {n, 0, ptr[t][s]}
      BY <1>4
    <3>3. \A v \in Holders, s \in PtrSlots : ptr'[v][s] # x
      BY <1>3, <2>1, <3>1, <3>2 DEF Fresh
    <3>4. \A v \in Holders : v # u => todo'[v].next # x
      BY <1>2, <1>3, <2>1, <3>1 DEF Fresh
    <3> QED
      BY <1>0, <1>5, <3>1, <3>3, <3>4 DEF Fresh
  <2>2. \A u \in Holders : todo'[u].op = "reset" /\ todo'[u].next # 0 => u # t /\ todo'[u] = todo[u] /\ Fresh(u, todo[u].next)'
    <3>1. ASSUME NEW u \in Holders, todo'[u].op = "reset", todo'[u].next # 0
          PROVE  u # t /\ todo'[u] = todo[u] /\ todo[u].op = "reset" /\ todo[u].next # 0
      BY <1>2, <1>3, <3>1
    <3>2. ASSUME NEW u \in Holders, todo'[u].op = "reset", todo'[u].next # 0
          PROVE  Fresh(u, todo[u].next)'
      <4>1. PICK x : x = todo[u].next
        OBVIOUS
      <4>2. Fresh(u, x)'
        BY <2>1, <3>1, <3>2, <4>1
      <4> QED
        BY <3>1, <3>2, <4>1, <4>2
    <3> QED
      BY <3>1, <3>2
  <2> QED
    BY <2>2 DEF PtrFresh
<1>17. PtrDeletes'
  <2>1. ASSUME NEW u \in Holders, NEW x, Deletes(u, x)' PROVE Deletes(u, x) /\ u # t
    BY <1>2, <1>3, <2>1 DEF Deletes
  <2>2. ASSUME NEW u \in Holders, NEW x \in Nat, Deletes(u, x)'
        PROVE  /\ x \in Ptr!Objects /\ count'[x] = 0 /\ deleted'[x] = 0
               /\ \A v \in Holders : Deletes(v, x)' => v = u
    <3>1. /\ Deletes(u, x) /\ x \in Ptr!Objects /\ count[x] = 0 /\ deleted[x] = 0
          /\ \A v \in Holders : Deletes(v, x) => v = u
      BY <2>1, <2>2 DEF PtrInv, PtrDeletes
    <3>2. count'[x] = 0
      <4>1. CASE x # n \/ op = "move"
        BY <1>5, <3>1, <4>1
      <4>2. CASE x = n /\ op = "copy"
        BY <1>6, <3>1, <4>2, PtrObjects
      <4>3. CASE x = n /\ op = "reset"
        <5>1. Fresh(t, x)
          BY <1>7, <3>1, <4>3, PtrObjects
        <5>2. todo[u].slot \in PtrSlots /\ ptr[u][todo[u].slot] = x
          BY <3>1, PtrFacts DEF Deletes
        <5> QED
          BY <5>1, <5>2 DEF Fresh
      <4> QED
        BY <1>1, <4>1, <4>2, <4>3
    <3> QED
      BY <1>0, <2>1, <3>1, <3>2
  <2> QED
    BY <2>2 DEF PtrDeletes
<1>18. PtrDeleted'
  <2>1. ASSUME NEW x \in Ptr!Objects, deleted[x] = 1
        PROVE  count'[x] = 0 /\ \A u \in Holders : todo'[u].next # x
    <3>1. count[x] = 0 /\ \A u \in Holders : todo[u].next # x
      BY <2>1 DEF PtrInv, PtrDeleted
    <3> QED
      BY <1>1, <1>2, <1>3, <1>5, <3>1, PtrObjects, ZenonT(30)
  <2> QED
    BY <1>0, <2>1 DEF PtrDeleted
<1>19. PtrLeft'
  <2>1. ASSUME NEW x \in Ptr!Objects, x <= born, count'[x] = 0
        PROVE  \/ deleted[x] = 1
               \/ \E u \in Holders : Deletes(u, x)'
               \/ \E u \in Holders : todo'[u].op = "reset" /\ todo'[u].next = x
    <3>1. count[x] = 0 /\ (x = n => op = "move")
      BY <1>5, <1>a, <2>1, PtrObjects
    <3>2. \/ deleted[x] = 1
          \/ \E u \in Holders : Deletes(u, x)
          \/ \E u \in Holders : todo[u].op = "reset" /\ todo[u].next = x
      BY <2>1, <3>1 DEF PtrInv, PtrLeft
    <3>3. \A u \in Holders : Deletes(u, x) => Deletes(u, x)'
      BY <1>1, <1>3 DEF Deletes
    <3>4. \A u \in Holders : todo[u].op = "reset" /\ todo[u].next = x => todo'[u] = todo[u]
      BY <1>1, <1>3, <3>1
    <3> QED
      BY <3>2, <3>3, <3>4
  <2>2. ASSUME NEW x \in Ptr!Objects, x > born PROVE count'[x] = 0 /\ deleted[x] = 0
    <3>1. x # n
      BY <1>1, <2>2, PtrObjects
    <3> QED
      BY <1>5, <2>2, <3>1 DEF PtrInv, PtrLeft
  <2> QED
    BY <1>0, <2>1, <2>2 DEF PtrLeft
<1> QED
  BY <1>13, <1>14, <1>15, <1>16, <1>17, <1>18, <1>19 DEF PtrInv

\* Every step keeps the invariant of shared_ptr.
LEMMA PtrNext == PtrInv /\ [Ptr!Next]_ptrVars => PtrInv'
<1> SUFFICES ASSUME PtrInv, [Ptr!Next]_ptrVars PROVE PtrInv'
  OBVIOUS
<1>1. CASE Ptr!Next
  BY <1>1, PtrAssign, PtrReset, PtrRelease, PtrDelete, PtrSet DEF Ptr!Next
<1>2. CASE UNCHANGED ptrVars
  <2>1. ptr' = ptr /\ count' = count /\ todo' = todo /\ deleted' = deleted /\ born' = born
    BY <1>2 DEF ptrVars
  <2> QED
    BY <2>1 DEF PtrInv, PtrType, PtrCounts, PtrTodo, PtrFresh, PtrDeletes, PtrDeleted, PtrLeft,
                References, Pairs, Ptr!Refers, Fresh, Deletes
<1> QED
  BY <1>1, <1>2

\* The invariant gives the property.
LEMMA PtrSound == PtrInv => Ptr!SharedPtrSound
<1> SUFFICES ASSUME PtrInv, NEW o \in Ptr!Objects
             PROVE  /\ count[o] = Cardinality({p \in Pairs : Ptr!Refers(p[1], p[2], o)})
                    /\ deleted[o] <= 1
                    /\ deleted[o] = 1 => count[o] = 0 /\ \A t \in Holders : todo[t].op # "none" => todo[t].next # o
                    /\ o <= born /\ count[o] = 0 =>
                         \/ deleted[o] = 1
                         \/ \E t \in Holders : todo[t].op # "none" /\ o \in {todo[t].next, ptr[t][todo[t].slot]}
  BY PtrCardinality DEF Ptr!SharedPtrSound, Pairs
<1>1. count[o] = Cardinality({p \in Pairs : Ptr!Refers(p[1], p[2], o)})
  BY DEF PtrInv, PtrCounts, References
<1>2. deleted[o] \in {0, 1} /\ o # 0
  BY PtrObjects
<1>3. deleted[o] = 1 => count[o] = 0 /\ \A t \in Holders : todo[t].next # o
  BY DEF PtrInv, PtrDeleted
<1>4. ASSUME o <= born, count[o] = 0, deleted[o] # 1
      PROVE  \E t \in Holders : todo[t].op # "none" /\ o \in {todo[t].next, ptr[t][todo[t].slot]}
  <2>1. \/ \E t \in Holders : Deletes(t, o)
        \/ \E t \in Holders : todo[t].op = "reset" /\ todo[t].next = o
    BY <1>4 DEF PtrInv, PtrLeft
  <2>2. \A t \in Holders : Deletes(t, o) => todo[t].op # "none" /\ ptr[t][todo[t].slot] = o
    BY PtrFacts DEF Deletes
  <2> QED
    BY <2>1, <2>2
<1> QED
  BY <1>1, <1>2, <1>3, <1>4

------------------------------------------------------------------------------
(* ConcurrentSkipList                                                      *)

\* The constants of ConcurrentSkipList.
LEMMA ListConstants ==
  MaxKey \in Nat /\ kMaxHeight_ \in Nat \ {0}
  BY AtomicsAssumption

\* The nodes from which a search on level l may go on, and the last of them
\* before a key.
At(l) == {List!Head} \cup List!OnLevel(l)
IsBefore(n, key, l) == n \in At(l) /\ n < key /\ \A k \in List!OnLevel(l) : k < key => k <= n

\* The types; the iterator stands on a node of the list or nowhere.
ListType ==
  /\ listNext \in [0..MaxKey -> [List!Levels -> Int]]
  /\ max_height_ \in 1..kMaxHeight_ /\ heights \subseteq 1..max_height_
  /\ prev_ \in [List!Levels -> 0..MaxKey] /\ prev_height_ \in 1..max_height_
  /\ node_ \in List!Contents \cup {List!Nil}

\* A level is a sorted chain and contained in the levels below; there is nothing
\* above max_height_.
ListChain == \A l \in List!Levels :
  /\ \A n \in At(l) :
       /\ listNext[n][l] \in List!OnLevel(l) \cup {List!Nil} /\ n < listNext[n][l]
       /\ \A k \in List!OnLevel(l) : n < k => listNext[n][l] <= k
  /\ \A m \in List!Levels : m <= l => List!OnLevel(l) \subseteq List!OnLevel(m)
  /\ l >= max_height_ => List!OnLevel(l) = {}

\* The links of a key that is not in the list are not set.
ListUnset == \A n \in List!Keys : n \notin List!Contents /\ n # writer.key =>
  \A l \in List!Levels : listNext[n][l] = -1

\* Between two Inserts: prev_ is what the last key needs.
ListIdle ==
  \/ prev_[0] = 0 /\ prev_height_ = 1 /\ max_height_ = 1
  \/ /\ prev_[0] # 0
     /\ \A l \in List!Levels : l < max_height_ =>
          /\ l < prev_height_ => prev_[0] \in List!OnLevel(l)
          /\ l >= prev_height_ => prev_[0] \notin List!OnLevel(l) /\ IsBefore(prev_[l], prev_[0], l)

\* During an Insert: the new node is on the levels below i and prev_ is right on
\* the others.
Inserting == [key : List!Keys, height : 1..kMaxHeight_, i : List!Levels, linked : BOOLEAN]
ListInsert ==
  /\ writer \in Inserting /\ writer.i < writer.height /\ writer.height <= max_height_
  /\ \A l \in List!Levels : writer.key \in List!OnLevel(l) <=> l < writer.i
  /\ \A l \in List!Levels : l >= writer.i /\ l < max_height_ => IsBefore(prev_[l], writer.key, l)
  /\ \A l \in List!Levels : l > writer.i \/ (l = writer.i /\ ~writer.linked) => listNext[writer.key][l] = -1
  /\ writer.linked => listNext[writer.key][writer.i] = listNext[prev_[writer.i]][writer.i]

\* The writer.
ListWriter == (writer = [key |-> List!Nil] /\ ListIdle) \/ ListInsert

\* The reader: where it stands it can go on, and it has passed over nothing.
Searching == [op : {"Contains", "Seek", "SeekForPrev", "Prev", "SeekToLast"},
              find : {"GreaterOrEqual", "LessThan", "Last"}, key : Int, x : Int, level : List!Levels, last : Int,
              since : SUBSET List!Keys, target : List!Keys]
ListSearch ==
  /\ reader \in Searching /\ reader.x \in At(reader.level) /\ reader.since \subseteq List!Contents
  /\ reader.find = "GreaterOrEqual" =>
       /\ reader.op \in {"Contains", "Seek", "SeekForPrev"} /\ reader.key = reader.target
       /\ reader.x < reader.key /\ reader.key < reader.last
  /\ reader.find = "LessThan" =>
       /\ reader.op \in {"Prev", "SeekForPrev"} /\ reader.x < reader.key /\ reader.key <= reader.last
       /\ reader.key \in List!Keys
       /\ reader.op = "Prev" => reader.key = reader.target
       /\ reader.op = "SeekForPrev" => reader.target < reader.key
  /\ reader.find = "Last" => reader.op \in {"SeekToLast", "SeekForPrev"}

\* The inductive invariant of the list.
ListInv ==
  /\ ListType /\ ListChain /\ ListUnset /\ ListWriter
  /\ reader = List!Idle \/ ListSearch
  /\ List!AnswerRight
\* The numbers of the list.
LEMMA ListNumbers ==
  /\ MaxKey \in Nat /\ List!Head = 0 /\ List!Nil = MaxKey + 1 /\ List!Nil \in Nat /\ List!Keys = 1..MaxKey
  /\ {List!Head} \cup List!Keys = 0..MaxKey /\ List!Levels = 0..(kMaxHeight_ - 1) /\ 0 \in List!Levels
  /\ kMaxHeight_ \in Nat /\ kMaxHeight_ >= 1
  BY ListConstants DEF List!Head, List!Nil, List!Keys, List!Levels

\* The nodes of a level.
LEMMA ListNodes ==
  ASSUME NEW l
  PROVE  /\ List!OnLevel(l) \subseteq 1..MaxKey /\ At(l) \subseteq 0..MaxKey /\ 0 \in At(l)
         /\ At(l) = {0} \cup List!OnLevel(l) /\ List!Contents = List!OnLevel(0)
         /\ \A k : k \in List!OnLevel(l) <=> k \in 1..MaxKey /\ \E n \in 0..MaxKey : listNext[n][l] = k
<1>1. /\ MaxKey \in Nat /\ List!Head = 0 /\ List!Keys = 1..MaxKey /\ {List!Head} \cup List!Keys = 0..MaxKey
  BY ListNumbers
<1>2. \A k : k \in List!OnLevel(l) <=> k \in 1..MaxKey /\ \E n \in 0..MaxKey : listNext[n][l] = k
  BY <1>1 DEF List!OnLevel
<1>3. At(l) = {0} \cup List!OnLevel(l)
  BY <1>1 DEF At
<1>4. List!Contents = List!OnLevel(0)
  BY DEF List!Contents
<1> QED
  BY <1>1, <1>2, <1>3, <1>4

\* There is one last node before a key.
LEMMA ListPredecessor ==
  ASSUME NEW key \in 1..MaxKey, NEW l
  PROVE  /\ IsBefore(List!Predecessor(key, l), key, l)
         /\ \A n : IsBefore(n, key, l) => List!Predecessor(key, l) = n
<1>0. MaxKey \in Nat /\ List!OnLevel(l) \subseteq 1..MaxKey /\ At(l) = {0} \cup List!OnLevel(l)
  BY ListNumbers, ListNodes
<1>p. PICK T : T = {k \in At(l) : k < key}
  OBVIOUS
<1>1. PICK n \in T : \A k \in T : n >= k
  <2>1. T \subseteq 0..MaxKey /\ 0 \in T
    BY <1>0, <1>p
  <2> QED
    BY <1>0, <2>1, GreatestElement
<1>2. IsBefore(n, key, l)
  <2>1. ASSUME NEW k \in List!OnLevel(l), k < key PROVE k <= n
    <3>1. k \in T /\ k \in 1..MaxKey /\ n \in 0..MaxKey
      BY <1>0, <1>1, <1>p, <2>1
    <3> QED
      BY <1>1, <3>1
  <2> QED
    BY <1>1, <1>p, <2>1 DEF IsBefore
<1>3. List!Predecessor(key, l) = CHOOSE m \in At(l) : m < key /\ \A k \in List!OnLevel(l) : k < key => k <= m
  BY DEF List!Predecessor, At
<1>4. IsBefore(List!Predecessor(key, l), key, l)
  BY <1>2, <1>3 DEF IsBefore
<1>5. ASSUME NEW a, NEW b, IsBefore(a, key, l), IsBefore(b, key, l) PROVE a = b
  <2>1. /\ a \in At(l) /\ b \in At(l) /\ a < key /\ b < key /\ a \in 0..MaxKey /\ b \in 0..MaxKey
    BY <1>0, <1>5 DEF IsBefore
  <2>2. a <= b
    <3>1. CASE a = 0
      BY <2>1, <3>1
    <3>2. CASE a \in List!OnLevel(l)
      BY <1>5, <2>1, <3>2 DEF IsBefore
    <3> QED
      BY <1>0, <2>1, <3>1, <3>2
  <2>3. b <= a
    <3>1. CASE b = 0
      BY <2>1, <3>1
    <3>2. CASE b \in List!OnLevel(l)
      BY <1>5, <2>1, <3>2 DEF IsBefore
    <3> QED
      BY <1>0, <2>1, <3>1, <3>2
  <2> QED
    BY <2>1, <2>2, <2>3
<1> QED
  BY <1>4, <1>5

\* In the beginning every level is empty.
LEMMA ListInit == List!Init => ListInv
<1> SUFFICES ASSUME List!Init PROVE ListInv
  OBVIOUS
<1>0. /\ MaxKey \in Nat /\ List!Head = 0 /\ List!Nil = MaxKey + 1 /\ List!Nil \in Nat /\ List!Keys = 1..MaxKey
      /\ {List!Head} \cup List!Keys = 0..MaxKey /\ List!Levels = 0..(kMaxHeight_ - 1) /\ 0 \in List!Levels
      /\ kMaxHeight_ \in Nat /\ kMaxHeight_ >= 1
  BY ListNumbers
<1>1. /\ listNext = [n \in 0..MaxKey |-> [l \in List!Levels |-> IF n = 0 THEN MaxKey + 1 ELSE -1]]
      /\ max_height_ = 1 /\ heights = {1} /\ prev_ = [l \in List!Levels |-> 0] /\ prev_height_ = 1
      /\ writer = [key |-> List!Nil] /\ reader = List!Idle /\ node_ = List!Nil /\ answer = [op |-> "none"]
  BY <1>0 DEF List!Init, List!Uninitialised
<1>2. \A l \in List!Levels : \A n \in 0..MaxKey : listNext[n][l] = IF n = 0 THEN MaxKey + 1 ELSE -1
  BY <1>1
<1>3. \A l \in List!Levels : List!OnLevel(l) = {} /\ At(l) = {0}
  <2>1. ASSUME NEW l \in List!Levels, NEW k \in List!OnLevel(l) PROVE FALSE
    <3>1. k \in 1..MaxKey /\ \E n \in 0..MaxKey : listNext[n][l] = k
      BY <2>1, ListNodes
    <3>2. PICK n \in 0..MaxKey : listNext[n][l] = k
      BY <3>1
    <3> QED
      BY <1>0, <1>2, <3>1, <3>2
  <2> QED
    BY <2>1, ListNodes
<1>4. ListType
  <2>1. listNext \in [0..MaxKey -> [List!Levels -> Int]]
    BY <1>0, <1>1
  <2>2. prev_ \in [List!Levels -> 0..MaxKey] /\ 1 \in 1..kMaxHeight_ /\ 1 \in 1..1
    BY <1>0, <1>1
  <2> QED
    BY <1>1, <2>1, <2>2 DEF ListType
<1>5. ListChain
  <2>1. ASSUME NEW l \in List!Levels PROVE listNext[0][l] = List!Nil /\ 0 < listNext[0][l]
    BY <1>0, <1>2
  <2> QED
    BY <1>3, <2>1 DEF ListChain
<1>6. ListUnset
  <2>1. ASSUME NEW n \in List!Keys, NEW l \in List!Levels PROVE listNext[n][l] = -1
    BY <1>0, <1>2
  <2> QED
    BY <2>1 DEF ListUnset
<1>7. ListWriter
  <2>1. prev_[0] = 0
    BY <1>0, <1>1
  <2> QED
    BY <1>1, <2>1 DEF ListWriter, ListIdle
<1>8. List!AnswerRight
  BY <1>1 DEF List!AnswerRight
<1> QED
  BY <1>1, <1>4, <1>5, <1>6, <1>7, <1>8 DEF ListInv

\* Steps of the reader leave the list as it is.
LEMMA ListSame ==
  ASSUME UNCHANGED List!listVars, ListChain, ListUnset, ListWriter
  PROVE  /\ ListChain' /\ ListUnset' /\ ListWriter'
         /\ \A l : List!OnLevel(l)' = List!OnLevel(l) /\ At(l)' = At(l)
         /\ List!Contents' = List!Contents
         /\ listNext' = listNext /\ max_height_' = max_height_ /\ heights' = heights
         /\ prev_' = prev_ /\ prev_height_' = prev_height_ /\ writer' = writer
<1>1. /\ listNext' = listNext /\ max_height_' = max_height_ /\ heights' = heights
      /\ prev_' = prev_ /\ prev_height_' = prev_height_ /\ writer' = writer
  BY DEF List!listVars
<1>2. ASSUME NEW l PROVE List!OnLevel(l)' = List!OnLevel(l) /\ At(l)' = At(l)
  BY <1>1 DEF List!OnLevel, At
<1>3. List!Contents' = List!Contents
  BY <1>2 DEF List!Contents
<1>4. ListChain'
  BY <1>1, <1>2 DEF ListChain
<1>5. ListUnset'
  BY <1>1, <1>3 DEF ListUnset
<1>7. ListIdle' <=> ListIdle
  BY <1>1, <1>2 DEF ListIdle, IsBefore
<1>8. ListInsert' <=> ListInsert
  BY <1>1, <1>2 DEF ListInsert, IsBefore
<1>9. ListWriter'
  BY <1>1, <1>7, <1>8 DEF ListWriter
<1> QED
  BY <1>1, <1>2, <1>3, <1>4, <1>5, <1>9

\* The answer of an operation of the reader is right.
Right(op, target, since, result) ==
  /\ op \in {"Contains", "Seek"} => result >= target /\ \A k \in since : k >= target => k >= result
  /\ op = "SeekForPrev" =>
       /\ result = List!Nil \/ result <= target
       /\ \A k \in since : k <= target => result # List!Nil /\ k <= result
  /\ op = "Prev" =>
       /\ result = List!Nil \/ result < target
       /\ \A k \in since : k < target => result # List!Nil /\ k <= result
  /\ op = "SeekToLast" => \A k \in since : result # List!Nil /\ k <= result
  /\ op \in {"Next", "SeekToFirst"} => result > target /\ \A k \in since : k > target => k >= result

\* An operation of the reader ends.
LEMMA ListDone ==
  ASSUME ListInv, UNCHANGED List!listVars, NEW target, NEW since, NEW result,
         NEW op \in {"Contains", "Seek", "SeekForPrev", "Prev", "SeekToLast", "Next", "SeekToFirst"},
         List!Done(op, target, since, result), Right(op, target, since, result),
         result \in List!Contents \cup {List!Nil}
  PROVE  ListInv'
<1>0. ListType /\ ListChain /\ ListUnset /\ ListWriter
  BY DEF ListInv
<1>1. /\ reader' = List!Idle /\ node_' = (IF op = "Contains" THEN node_ ELSE result)
      /\ answer' = [op |-> op, target |-> target, since |-> since, result |-> result]
  BY DEF List!Done, List!Idle
<1>2. /\ ListChain' /\ ListUnset' /\ ListWriter' /\ List!Contents' = List!Contents
      /\ listNext' = listNext /\ max_height_' = max_height_ /\ heights' = heights
      /\ prev_' = prev_ /\ prev_height_' = prev_height_ /\ writer' = writer
  BY <1>0, ListSame
<1>3. node_' \in List!Contents \cup {List!Nil}
  BY <1>0, <1>1 DEF ListType
<1>4. ListType'
  BY <1>0, <1>2, <1>3 DEF ListType
<1>5. answer'.op = op /\ answer'.target = target /\ answer'.since = since /\ answer'.result = result
  BY <1>1
<1>6. List!AnswerRight'
  <2>1. CASE op \in {"Contains", "Seek"}
    BY <1>5, <2>1 DEF List!AnswerRight, Right
  <2>2. CASE op = "SeekForPrev"
    BY <1>5, <2>2 DEF List!AnswerRight, Right
  <2>3. CASE op = "Prev"
    BY <1>5, <2>3 DEF List!AnswerRight, Right
  <2>4. CASE op = "SeekToLast"
    BY <1>5, <2>4 DEF List!AnswerRight, Right
  <2>5. CASE op \in {"Next", "SeekToFirst"}
    BY <1>5, <2>5 DEF List!AnswerRight, Right
  <2> QED
    BY <2>1, <2>2, <2>3, <2>4, <2>5
<1> QED
  BY <1>1, <1>2, <1>4, <1>6 DEF ListInv

\* A search begins, on a level that some value of max_height_ allows.
LEMMA ListSearchBegins ==
  ASSUME ListInv, UNCHANGED List!listVars, UNCHANGED node_, answer' = answer \/ answer' = [op |-> "none"],
         NEW op \in {"Contains", "Seek", "SeekForPrev", "Prev", "SeekToLast"},
         NEW find \in {"GreaterOrEqual", "LessThan", "Last"}, NEW key \in Int, NEW since, NEW target \in List!Keys,
         since \subseteq List!Contents, List!Search(op, find, key, since, target),
         find = "GreaterOrEqual" => op \in {"Contains", "Seek", "SeekForPrev"} /\ key = target,
         find = "LessThan" => /\ op \in {"Prev", "SeekForPrev"} /\ key \in 1..MaxKey
                              /\ op = "Prev" => key = target
                              /\ op = "SeekForPrev" => target < key,
         find = "Last" => op \in {"SeekToLast", "SeekForPrev"}
  PROVE  ListInv'
<1>0. ListType /\ ListChain /\ ListUnset /\ ListWriter /\ List!AnswerRight
  BY DEF ListInv
<1>n. /\ MaxKey \in Nat /\ List!Head = 0 /\ List!Nil = MaxKey + 1 /\ List!Keys = 1..MaxKey
      /\ List!Levels = 0..(kMaxHeight_ - 1) /\ kMaxHeight_ \in Nat
  BY ListNumbers
<1>1. PICK h \in heights :
         reader' = [op |-> op, find |-> find, key |-> key, x |-> List!Head, level |-> h - 1, last |-> List!Nil,
                    since |-> since, target |-> target]
  BY DEF List!Search
<1>2. /\ ListChain' /\ ListUnset' /\ ListWriter' /\ List!Contents' = List!Contents
      /\ (\A l : List!OnLevel(l)' = List!OnLevel(l) /\ At(l)' = At(l))
      /\ listNext' = listNext /\ max_height_' = max_height_ /\ heights' = heights
      /\ prev_' = prev_ /\ prev_height_' = prev_height_ /\ writer' = writer
  BY <1>0, ListSame
<1>3. ListType'
  BY <1>0, <1>2 DEF ListType
<1>4. h - 1 \in List!Levels
  <2>1. h \in 1..max_height_ /\ max_height_ \in 1..kMaxHeight_
    BY <1>0 DEF ListType
  <2> QED
    BY <1>n, <2>1
<1>5. since \subseteq List!Keys
  BY <1>n, ListNodes
<1>6. /\ reader'.op = op /\ reader'.find = find /\ reader'.key = key /\ reader'.x = 0 /\ reader'.level = h - 1
      /\ reader'.last = MaxKey + 1 /\ reader'.since = since /\ reader'.target = target
  BY <1>1, <1>n
<1>7. reader' \in Searching
  <2>1. List!Head \in Int /\ List!Nil \in Int /\ since \in SUBSET List!Keys
    BY <1>5, <1>n
  <2> QED
    BY <1>1, <1>4, <2>1 DEF Searching
<1>8. ListSearch'
  <2>1. reader'.x \in At(reader.level)'
    <3>1. 0 \in At(h - 1)
      BY ListNodes
    <3> QED
      BY <1>2, <1>6, <3>1 DEF At, List!OnLevel
  <2>2. find = "GreaterOrEqual" => 0 < key /\ key < MaxKey + 1
    BY <1>n
  <2>3. find = "LessThan" => 0 < key /\ key <= MaxKey + 1 /\ key \in List!Keys
    BY <1>n
  <2> QED
    BY <1>2, <1>6, <1>7, <2>1, <2>2, <2>3 DEF ListSearch
<1>9. List!AnswerRight'
  <2>1. CASE answer' = answer
    BY <1>0, <2>1 DEF List!AnswerRight
  <2>2. CASE answer' = [op |-> "none"]
    BY <2>2 DEF List!AnswerRight
  <2> QED
    BY <2>1, <2>2
<1> QED
  BY <1>2, <1>3, <1>8, <1>9 DEF ListInv

\* The reader goes on with its search.
LEMMA ListGoesOn ==
  ASSUME ListInv, UNCHANGED List!listVars, UNCHANGED <<node_, answer>>, ListSearch'
  PROVE  ListInv'
<1>0. ListType /\ ListChain /\ ListUnset /\ ListWriter /\ List!AnswerRight
  BY DEF ListInv
<1>1. /\ ListChain' /\ ListUnset' /\ ListWriter' /\ List!Contents' = List!Contents
      /\ listNext' = listNext /\ max_height_' = max_height_ /\ heights' = heights
      /\ prev_' = prev_ /\ prev_height_' = prev_height_ /\ writer' = writer
  BY <1>0, ListSame
<1>2. ListType'
  BY <1>0, <1>1 DEF ListType
<1>3. List!AnswerRight'
  BY <1>0 DEF List!AnswerRight
<1> QED
  BY <1>1, <1>2, <1>3 DEF ListInv

\* What the searches return.
FoundRight(result) ==
  /\ reader.find = "GreaterOrEqual" =>
       /\ result \in List!Contents \cup {List!Nil} /\ result >= reader.key
       /\ \A k \in List!Contents : k >= reader.key => k >= result
  /\ reader.find = "LessThan" =>
       /\ result \in At(0) /\ result < reader.key
       /\ \A k \in List!Contents : k < reader.key => k <= result
  /\ reader.find = "Last" =>
       /\ result \in At(0) /\ \A k \in List!Contents : k <= result

\* An operation that found what it searched for gives the right answer, or searches
\* again.
LEMMA ListFound ==
  ASSUME ListInv, ListSearch, UNCHANGED List!listVars, NEW result, FoundRight(result), List!Found(result)
  PROVE  ListInv'
<1>n. /\ MaxKey \in Nat /\ List!Head = 0 /\ List!Nil = MaxKey + 1 /\ List!Keys = 1..MaxKey
  BY ListNumbers
<1>c. /\ List!Contents \subseteq 1..MaxKey /\ At(0) = {0} \cup List!Contents
  BY ListNodes
<1>r. /\ reader.op \in {"Contains", "Seek", "SeekForPrev", "Prev", "SeekToLast"} /\ reader.target \in 1..MaxKey
      /\ reader.find \in {"GreaterOrEqual", "LessThan", "Last"} /\ reader.since \subseteq List!Contents
      /\ reader.key \in Int
  BY <1>n DEF ListSearch, Searching
<1>f. /\ reader.find = "GreaterOrEqual" =>
           reader.op \in {"Contains", "Seek", "SeekForPrev"} /\ reader.key = reader.target
      /\ reader.find = "LessThan" =>
           /\ reader.op \in {"Prev", "SeekForPrev"}
           /\ reader.op = "Prev" => reader.key = reader.target
           /\ reader.op = "SeekForPrev" => reader.target < reader.key
      /\ reader.find = "Last" => reader.op \in {"SeekToLast", "SeekForPrev"}
  BY DEF ListSearch
<1>i. result \in 0..(MaxKey + 1)
  <2>1. result \in List!Contents \cup {List!Nil} \/ result \in At(0)
    BY <1>r DEF FoundRight
  <2>2. result \in 1..MaxKey \/ result = MaxKey + 1 \/ result = 0
    BY <1>n, <1>c, <2>1
  <2> QED
    BY <1>n, <2>2
<1>p. PICK position : position = IF result = List!Head THEN List!Nil ELSE result
  OBVIOUS
<1>q. position \in List!Contents \cup {List!Nil}
  BY <1>n, <1>c, <1>r, <1>p DEF FoundRight
<1>s. \A k \in reader.since : k \in List!Contents /\ k \in 1..MaxKey
  BY <1>r, <1>c
<1>1. CASE reader.op = "SeekForPrev" /\ reader.find = "GreaterOrEqual" /\ result = List!Nil
  <2>1. List!Search("SeekForPrev", "Last", List!Nil, reader.since, reader.target) /\ UNCHANGED <<node_, answer>>
    BY <1>1 DEF List!Found
  <2>2. List!Nil \in Int /\ reader.target \in List!Keys
    BY <1>n, <1>r
  <2> QED
    BY <1>r, <2>1, <2>2, ListSearchBegins
<1>2. CASE reader.op = "SeekForPrev" /\ result # List!Nil /\ position # List!Nil /\ reader.target < position
  <2>1. List!Search("SeekForPrev", "LessThan", position, reader.since, reader.target) /\ UNCHANGED <<node_, answer>>
    BY <1>2, <1>p DEF List!Found
  <2>2. position \in Int /\ position \in 1..MaxKey /\ reader.target \in List!Keys
    BY <1>n, <1>r, <1>2, <1>q, <1>c
  <2> QED
    BY <1>r, <1>2, <2>1, <2>2, ListSearchBegins
<1>3. CASE /\ reader.op = "SeekForPrev" /\ ~(reader.find = "GreaterOrEqual" /\ result = List!Nil)
           /\ ~(result # List!Nil /\ position # List!Nil /\ reader.target < position)
  <2>1. List!Done("SeekForPrev", reader.target, reader.since, position)
    BY <1>3, <1>p DEF List!Found
  <2>2. /\ position = List!Nil \/ position <= reader.target
        /\ \A k \in reader.since : k <= reader.target => position # List!Nil /\ k <= position
    <3>1. CASE reader.find = "GreaterOrEqual"
      <4>1. result \in 1..MaxKey /\ position = result /\ result >= reader.target
        BY <1>n, <1>c, <1>f, <1>3, <1>p, <3>1 DEF FoundRight
      <4>2. result <= reader.target /\ position # List!Nil
        BY <1>n, <1>r, <1>3, <4>1
      <4> QED
        BY <1>s, <1>r, <4>1, <4>2
    <3>2. CASE reader.find = "LessThan" \/ reader.find = "Last"
      <4>1. /\ result \in At(0)
            /\ \A k \in List!Contents : k <= reader.target => k <= result
        BY <1>r, <1>f, <1>c, <1>3, <3>2 DEF FoundRight
      <4>2. CASE result = 0
        <5>1. position = List!Nil /\ \A k \in List!Contents : ~(k <= reader.target)
          BY <1>n, <1>c, <1>p, <4>1, <4>2
        <5> QED
          BY <1>s, <5>1
      <4>3. CASE result \in List!Contents
        <5>1. position = result /\ result # List!Nil /\ result \in 1..MaxKey
          BY <1>n, <1>c, <1>p, <4>3
        <5>2. result <= reader.target
          BY <1>r, <1>3, <5>1
        <5> QED
          BY <1>s, <4>1, <5>1, <5>2
      <4> QED
        BY <1>c, <4>1, <4>2, <4>3
    <3> QED
      BY <1>r, <3>1, <3>2
  <2>3. Right("SeekForPrev", reader.target, reader.since, position)
    BY <2>2 DEF Right
  <2> QED
    BY <1>q, <2>1, <2>3, ListDone
<1>4. CASE reader.op # "SeekForPrev"
  <2>1. List!Done(reader.op, reader.target, reader.since, position)
    BY <1>4, <1>p DEF List!Found
  <2>2. ASSUME reader.op \in {"Contains", "Seek"}
        PROVE  position >= reader.target /\ \A k \in reader.since : k >= reader.target => k >= position
    <3>1. reader.find = "GreaterOrEqual"
      BY <1>f, <1>r, <2>2
    <3>2. result >= reader.target /\ \A k \in List!Contents : k >= reader.target => k >= result
      BY <1>f, <3>1 DEF FoundRight
    <3>3. position = result
      BY <1>n, <1>i, <1>r, <1>p, <3>2
    <3> QED
      BY <1>s, <3>2, <3>3
  <2>3. ASSUME reader.op = "Prev"
        PROVE  /\ position = List!Nil \/ position < reader.target
               /\ \A k \in reader.since : k < reader.target => position # List!Nil /\ k <= position
    <3>1. reader.find = "LessThan"
      BY <1>f, <1>r, <2>3
    <3>2. result \in At(0) /\ result < reader.target /\ \A k \in List!Contents : k < reader.target => k <= result
      BY <1>f, <2>3, <3>1 DEF FoundRight
    <3>3. CASE result = 0
      <4>1. position = List!Nil /\ \A k \in List!Contents : ~(k < reader.target)
        BY <1>n, <1>c, <1>r, <1>p, <3>2, <3>3
      <4> QED
        BY <1>s, <4>1
    <3>4. CASE result # 0
      <4>1. position = result /\ result # List!Nil
        BY <1>n, <1>c, <1>p, <3>2, <3>4
      <4> QED
        BY <1>s, <3>2, <4>1
    <3> QED
      BY <3>3, <3>4
  <2>4. ASSUME reader.op = "SeekToLast"
        PROVE  \A k \in reader.since : position # List!Nil /\ k <= position
    <3>1. reader.find = "Last"
      BY <1>f, <1>r, <2>4
    <3>2. result \in At(0) /\ \A k \in List!Contents : k <= result
      BY <3>1 DEF FoundRight
    <3>3. CASE result = 0
      <4>1. \A k \in List!Contents : FALSE
        BY <1>c, <1>n, <3>2, <3>3
      <4> QED
        BY <1>s, <4>1
    <3>4. CASE result # 0
      <4>1. position = result /\ result # List!Nil
        BY <1>n, <1>c, <1>p, <3>2, <3>4
      <4> QED
        BY <1>s, <3>2, <4>1
    <3> QED
      BY <3>3, <3>4
  <2>5. Right(reader.op, reader.target, reader.since, position)
    BY <1>4, <1>r, <2>2, <2>3, <2>4 DEF Right
  <2> QED
    BY <1>q, <1>r, <2>1, <2>5, ListDone
<1> QED
  BY <1>1, <1>2, <1>3, <1>4

\* Where a search stands: a link leads to the next node of the level.
LEMMA ListLink ==
  ASSUME ListInv, ListSearch
  PROVE  /\ reader.level \in List!Levels /\ reader.x \in At(reader.level)
         /\ listNext[reader.x][reader.level] \in List!OnLevel(reader.level) \cup {List!Nil}
         /\ listNext[reader.x][reader.level] \in 1..(MaxKey + 1)
         /\ reader.x < listNext[reader.x][reader.level]
         /\ \A k \in List!OnLevel(reader.level) : reader.x < k => listNext[reader.x][reader.level] <= k
         /\ reader.x \in 0..MaxKey /\ reader.key \in Int /\ reader.last \in Int
         /\ reader.level > 0 => reader.level - 1 \in List!Levels /\ reader.x \in At(reader.level - 1)
<1>n. /\ MaxKey \in Nat /\ List!Nil = MaxKey + 1 /\ List!Levels = 0..(kMaxHeight_ - 1) /\ kMaxHeight_ \in Nat
  BY ListNumbers
<1>1. /\ reader.level \in List!Levels /\ reader.x \in At(reader.level) /\ reader.key \in Int /\ reader.last \in Int
  BY DEF ListSearch, Searching
<1>2. /\ listNext[reader.x][reader.level] \in List!OnLevel(reader.level) \cup {List!Nil}
      /\ reader.x < listNext[reader.x][reader.level]
      /\ \A k \in List!OnLevel(reader.level) : reader.x < k => listNext[reader.x][reader.level] <= k
  BY <1>1 DEF ListInv, ListChain
<1>3. List!OnLevel(reader.level) \subseteq 1..MaxKey /\ reader.x \in 0..MaxKey
  BY <1>1, ListNodes
<1>4. ASSUME reader.level > 0 PROVE reader.level - 1 \in List!Levels /\ reader.x \in At(reader.level - 1)
  <2>1. reader.level - 1 \in List!Levels /\ reader.level - 1 <= reader.level
    BY <1>n, <1>1, <1>4
  <2>2. List!OnLevel(reader.level) \subseteq List!OnLevel(reader.level - 1)
    BY <1>1, <2>1 DEF ListInv, ListChain
  <2> QED
    BY <1>1, <2>1, <2>2, ListNodes
<1> QED
  BY <1>n, <1>1, <1>2, <1>3, <1>4

\* A search moves on along its level.
LEMMA ListAdvance ==
  ASSUME ListInv, ListSearch, UNCHANGED List!listVars, NEW n, n = listNext[reader.x][reader.level], n # List!Nil,
         List!Advance(n), reader.find # "Last" => n < reader.key
  PROVE  ListInv'
<1>0. /\ reader.level \in List!Levels /\ n \in List!OnLevel(reader.level) /\ n \in Int
      /\ reader \in Searching /\ ListType /\ ListChain /\ ListUnset /\ ListWriter
  BY ListLink DEF ListInv, ListSearch
<1>1. reader' = [reader EXCEPT !.x = n] /\ UNCHANGED <<node_, answer>>
  BY DEF List!Advance
<1>2. /\ reader'.op = reader.op /\ reader'.find = reader.find /\ reader'.key = reader.key /\ reader'.x = n
      /\ reader'.level = reader.level /\ reader'.last = reader.last /\ reader'.since = reader.since
      /\ reader'.target = reader.target /\ reader' \in Searching
  BY <1>0, <1>1 DEF Searching
<1>3. (\A l : List!OnLevel(l)' = List!OnLevel(l) /\ At(l)' = At(l)) /\ List!Contents' = List!Contents
  BY <1>0, ListSame
<1>4. listNext' = listNext
  BY <1>0, ListSame
<1>5. reader'.x \in At(reader.level)'
  <2>1. n \in At(reader.level)
    BY <1>0, ListNodes
  <2> QED
    BY <1>2, <1>4, <2>1 DEF At, List!OnLevel
<1>6. ListSearch'
  BY <1>2, <1>3, <1>5 DEF ListSearch
<1> QED
  BY <1>1, <1>6, ListGoesOn

\* A search goes on one level below.
LEMMA ListDescend ==
  ASSUME ListInv, ListSearch, UNCHANGED List!listVars, reader.level > 0, NEW n \in Int, List!Descend(n),
         reader.find = "GreaterOrEqual" => reader.key < n, reader.find = "LessThan" => reader.key <= n
  PROVE  ListInv'
<1>0. /\ reader.level - 1 \in List!Levels /\ reader.x \in At(reader.level - 1)
      /\ reader \in Searching /\ ListType /\ ListChain /\ ListUnset /\ ListWriter
  BY ListLink DEF ListInv, ListSearch
<1>1. reader' = [reader EXCEPT !.level = reader.level - 1, !.last = n] /\ UNCHANGED <<node_, answer>>
  BY DEF List!Descend
<1>2. /\ reader'.op = reader.op /\ reader'.find = reader.find /\ reader'.key = reader.key /\ reader'.x = reader.x
      /\ reader'.level = reader.level - 1 /\ reader'.last = n /\ reader'.since = reader.since
      /\ reader'.target = reader.target /\ reader' \in Searching
  BY <1>0, <1>1 DEF Searching
<1>3. (\A l : List!OnLevel(l)' = List!OnLevel(l) /\ At(l)' = At(l)) /\ List!Contents' = List!Contents
  BY <1>0, ListSame
<1>4. listNext' = listNext
  BY <1>0, ListSame
<1>5. reader'.x \in At(reader.level)'
  BY <1>0, <1>2, <1>4 DEF At, List!OnLevel
<1>6. ListSearch'
  BY <1>2, <1>3, <1>5 DEF ListSearch
<1> QED
  BY <1>1, <1>6, ListGoesOn

\* A reader that is not idle is searching.
LEMMA ListSearches == ListInv /\ reader.op # "none" => ListSearch
  BY DEF ListInv, List!Idle

\* One turn of FindGreaterOrEqual.
LEMMA ListFindGreaterOrEqual == ListInv /\ List!FindGreaterOrEqual => ListInv'
<1> SUFFICES ASSUME ListInv, List!FindGreaterOrEqual PROVE ListInv'
  OBVIOUS
<1>0. ListSearch /\ reader.find = "GreaterOrEqual" /\ UNCHANGED List!listVars
  BY ListSearches DEF List!FindGreaterOrEqual
<1>p. PICK n : n = listNext[reader.x][reader.level]
  OBVIOUS
<1>1. /\ reader.level \in List!Levels /\ n \in List!OnLevel(reader.level) \cup {List!Nil} /\ n \in 1..(MaxKey + 1)
      /\ reader.x < n /\ (\A k \in List!OnLevel(reader.level) : reader.x < k => n <= k)
      /\ reader.x \in 0..MaxKey /\ reader.key \in Int /\ reader.last \in Int
  BY <1>0, <1>p, ListLink
<1>2. reader.x < reader.key /\ reader.key < reader.last
  BY <1>0 DEF ListSearch
<1>n. /\ MaxKey \in Nat /\ List!Nil = MaxKey + 1 /\ List!Levels = 0..(kMaxHeight_ - 1) /\ kMaxHeight_ \in Nat
      /\ 0 \in List!Levels
  BY ListNumbers
<1>d. \/ n = reader.key /\ List!Found(n)
      \/ n > reader.key /\ reader.level = 0 /\ List!Found(n)
      \/ n > reader.key /\ reader.level > 0 /\ List!Descend(n)
      \/ n < reader.key /\ List!Advance(n)
  <2>1. CASE n # reader.last /\ n = reader.key
    BY <1>p, <2>1 DEF List!FindGreaterOrEqual
  <2>2. CASE (n = reader.last \/ n > reader.key) /\ ~(n # reader.last /\ n = reader.key)
    <3>1. n > reader.key /\ (reader.level = 0 \/ reader.level > 0)
      BY <1>1, <1>2, <1>n, <2>2
    <3> QED
      BY <1>p, <2>2, <3>1 DEF List!FindGreaterOrEqual
  <2>3. CASE ~(n = reader.last \/ n > reader.key) /\ ~(n # reader.last /\ n = reader.key)
    <3>1. n < reader.key
      BY <1>1, <2>3
    <3> QED
      BY <1>p, <2>3, <3>1 DEF List!FindGreaterOrEqual
  <2> QED
    BY <2>1, <2>2, <2>3
<1>3. ASSUME n = reader.key \/ (n > reader.key /\ reader.level = 0), List!Found(n) PROVE ListInv'
  <2>1. List!OnLevel(reader.level) \subseteq List!Contents /\ List!Contents \subseteq 1..MaxKey
    <3>1. 0 <= reader.level
      BY <1>1, <1>n
    <3>2. List!OnLevel(reader.level) \subseteq List!OnLevel(0)
      BY <1>1, <1>n, <3>1 DEF ListInv, ListChain
    <3> QED
      BY <3>2, ListNodes
  <2>2. n \in List!Contents \cup {List!Nil} /\ n >= reader.key
    BY <1>1, <1>3, <2>1
  <2>3. ASSUME NEW k \in List!Contents, k >= reader.key PROVE k >= n
    <3>1. CASE n = reader.key
      BY <2>3, <3>1
    <3>2. CASE reader.level = 0
      <4>1. k \in List!OnLevel(reader.level) /\ k \in 1..MaxKey
        BY <2>1, <2>3, <3>2, ListNodes
      <4>2. reader.x < k
        BY <1>1, <1>2, <2>3, <4>1
      <4>3. n <= k
        BY <1>1, <4>1, <4>2
      <4> QED
        BY <1>1, <4>1, <4>3
    <3> QED
      BY <1>3, <3>1, <3>2
  <2>4. FoundRight(n)
    BY <1>0, <2>2, <2>3 DEF FoundRight
  <2> QED
    BY <1>0, <1>3, <2>4, ListFound
<1>4. ASSUME n > reader.key, reader.level > 0, List!Descend(n) PROVE ListInv'
  <2>1. n \in Int /\ reader.key < n
    BY <1>1, <1>4
  <2> QED
    BY <1>0, <1>4, <2>1, ListDescend
<1>5. ASSUME n < reader.key, List!Advance(n) PROVE ListInv'
  <2>1. reader.key <= MaxKey
    <3>1. reader.key = reader.target /\ reader.target \in List!Keys /\ List!Keys = 1..MaxKey
      BY <1>0, ListNumbers DEF ListSearch, Searching
    <3> QED
      BY <1>n, <3>1
  <2>2. n # List!Nil
    BY <1>1, <1>n, <1>5, <2>1
  <2> QED
    BY <1>0, <1>p, <1>5, <2>2, ListAdvance
<1> QED
  BY <1>d, <1>3, <1>4, <1>5

\* One turn of FindLessThan.
LEMMA ListFindLessThan == ListInv /\ List!FindLessThan => ListInv'
<1> SUFFICES ASSUME ListInv, List!FindLessThan PROVE ListInv'
  OBVIOUS
<1>0. ListSearch /\ reader.find = "LessThan" /\ UNCHANGED List!listVars
  BY ListSearches DEF List!FindLessThan
<1>p. PICK n : n = listNext[reader.x][reader.level]
  OBVIOUS
<1>1. /\ reader.level \in List!Levels /\ n \in List!OnLevel(reader.level) \cup {List!Nil} /\ n \in 1..(MaxKey + 1)
      /\ reader.x < n /\ (\A k \in List!OnLevel(reader.level) : reader.x < k => n <= k)
      /\ reader.x \in 0..MaxKey /\ reader.key \in Int /\ reader.last \in Int /\ reader.x \in At(reader.level)
  BY <1>0, <1>p, ListLink
<1>2. reader.x < reader.key /\ reader.key <= reader.last
  BY <1>0 DEF ListSearch
<1>n. /\ MaxKey \in Nat /\ List!Nil = MaxKey + 1 /\ List!Levels = 0..(kMaxHeight_ - 1) /\ kMaxHeight_ \in Nat
  BY ListNumbers
<1>d. \/ n < reader.key /\ n # reader.last /\ List!Advance(n)
      \/ n >= reader.key /\ reader.level = 0 /\ List!Found(reader.x)
      \/ n >= reader.key /\ reader.level > 0 /\ List!Descend(n)
  <2>1. CASE n # reader.last /\ n < reader.key
    BY <1>p, <2>1 DEF List!FindLessThan, List!KeyIsAfterNode
  <2>2. CASE ~(n # reader.last /\ n < reader.key)
    <3>1. n >= reader.key /\ (reader.level = 0 \/ (reader.level # 0 /\ reader.level > 0))
      BY <1>1, <1>2, <1>n, <2>2
    <3> QED
      BY <1>p, <2>2, <3>1 DEF List!FindLessThan, List!KeyIsAfterNode
  <2> QED
    BY <2>1, <2>2
<1>3. ASSUME n >= reader.key, reader.level = 0, List!Found(reader.x) PROVE ListInv'
  <2>1. reader.x \in At(0) /\ List!Contents = List!OnLevel(reader.level) /\ List!Contents \subseteq 1..MaxKey
    BY <1>1, <1>3, ListNodes
  <2>2. ASSUME NEW k \in List!Contents, k < reader.key PROVE k <= reader.x
    <3>1. k \in List!OnLevel(reader.level) /\ k \in 1..MaxKey
      BY <2>1
    <3>2. reader.x < k => n <= k
      BY <1>1, <3>1
    <3> QED
      BY <1>1, <1>3, <2>2, <3>1, <3>2
  <2>3. FoundRight(reader.x)
    BY <1>0, <1>2, <2>1, <2>2 DEF FoundRight
  <2> QED
    BY <1>0, <1>3, <2>3, ListFound
<1>4. ASSUME n >= reader.key, reader.level > 0, List!Descend(n) PROVE ListInv'
  <2>1. n \in Int /\ reader.key <= n
    BY <1>1, <1>4
  <2> QED
    BY <1>0, <1>4, <2>1, ListDescend
<1>5. ASSUME n < reader.key, n # reader.last, List!Advance(n) PROVE ListInv'
  <2>2. n # List!Nil
    <3>0. reader.key \in List!Keys /\ List!Keys = 1..MaxKey
      BY <1>0, ListNumbers DEF ListSearch
    <3>1. reader.key <= MaxKey
      BY <3>0, <1>n
    <3> QED
      BY <1>1, <1>n, <1>5, <3>1
  <2> QED
    BY <1>0, <1>p, <1>5, <2>2, ListAdvance
<1> QED
  BY <1>d, <1>3, <1>4, <1>5

\* One turn of FindLast.
LEMMA ListFindLast == ListInv /\ List!FindLast => ListInv'
<1> SUFFICES ASSUME ListInv, List!FindLast PROVE ListInv'
  OBVIOUS
<1>0. ListSearch /\ reader.find = "Last" /\ UNCHANGED List!listVars
  BY ListSearches DEF List!FindLast
<1>p. PICK n : n = listNext[reader.x][reader.level]
  OBVIOUS
<1>1. /\ reader.level \in List!Levels /\ n \in List!OnLevel(reader.level) \cup {List!Nil} /\ n \in 1..(MaxKey + 1)
      /\ reader.x < n /\ (\A k \in List!OnLevel(reader.level) : reader.x < k => n <= k)
      /\ reader.x \in 0..MaxKey /\ reader.x \in At(reader.level)
  BY <1>0, <1>p, ListLink
<1>n. /\ MaxKey \in Nat /\ List!Nil = MaxKey + 1 /\ List!Levels = 0..(kMaxHeight_ - 1) /\ kMaxHeight_ \in Nat
      /\ List!Nil \in Int
  BY ListNumbers
<1>d. \/ n # List!Nil /\ List!Advance(n)
      \/ n = List!Nil /\ reader.level = 0 /\ List!Found(reader.x)
      \/ n = List!Nil /\ reader.level > 0 /\ List!Descend(List!Nil)
  <2>1. reader.level = 0 \/ (reader.level # 0 /\ reader.level > 0)
    BY <1>1, <1>n
  <2> QED
    BY <1>p, <2>1 DEF List!FindLast
<1>3. ASSUME n = List!Nil, reader.level = 0, List!Found(reader.x) PROVE ListInv'
  <2>1. reader.x \in At(0) /\ List!Contents = List!OnLevel(reader.level) /\ List!Contents \subseteq 1..MaxKey
    BY <1>1, <1>3, ListNodes
  <2>2. ASSUME NEW k \in List!Contents PROVE k <= reader.x
    <3>1. k \in List!OnLevel(reader.level) /\ k \in 1..MaxKey
      BY <2>1
    <3>2. reader.x < k => n <= k
      BY <1>1, <3>1
    <3> QED
      BY <1>1, <1>n, <1>3, <3>1, <3>2
  <2>3. FoundRight(reader.x)
    BY <1>0, <2>1, <2>2 DEF FoundRight
  <2> QED
    BY <1>0, <1>3, <2>3, ListFound
<1>4. ASSUME reader.level > 0, List!Descend(List!Nil) PROVE ListInv'
  BY <1>0, <1>n, <1>4, ListDescend
<1>5. ASSUME n # List!Nil, List!Advance(n) PROVE ListInv'
  BY <1>0, <1>p, <1>5, ListAdvance
<1> QED
  BY <1>d, <1>3, <1>4, <1>5

\* An operation of the iterator begins.
LEMMA ListBegin ==
  ASSUME ListInv, NEW target \in List!Keys, NEW op \in {"Contains", "Seek", "SeekForPrev", "Prev", "SeekToLast"},
         List!Begin(op, target)
  PROVE  ListInv'
<1>1. UNCHANGED List!listVars /\ UNCHANGED node_ /\ answer' = [op |-> "none"]
  BY DEF List!Begin
<1>2. target \in Int /\ target \in 1..MaxKey /\ List!Contents \subseteq List!Contents
  BY ListNumbers
<1>3. CASE op \in {"Contains", "Seek", "SeekForPrev"}
  <2>1. List!Search(op, "GreaterOrEqual", target, List!Contents, target)
    BY <1>3 DEF List!Begin
  <2> QED
    BY <1>1, <1>2, <1>3, <2>1, ListSearchBegins
<1>4. CASE op = "Prev"
  <2>1. List!Search(op, "LessThan", target, List!Contents, target)
    BY <1>4 DEF List!Begin
  <2> QED
    BY <1>1, <1>2, <1>4, <2>1, ListSearchBegins
<1>5. CASE op = "SeekToLast"
  <2>1. List!Search(op, "Last", target, List!Contents, target)
    BY <1>5 DEF List!Begin
  <2> QED
    BY <1>1, <1>2, <1>5, <2>1, ListSearchBegins
<1> QED
  BY <1>3, <1>4, <1>5

\* Next and SeekToFirst: the link of a node of the list leads to the next one.
LEMMA ListStep ==
  ASSUME ListInv, NEW from \in {List!Head} \cup List!Keys, NEW op \in {"Next", "SeekToFirst"}, List!Step(op, from)
  PROVE  ListInv'
<1>n. /\ MaxKey \in Nat /\ List!Head = 0 /\ List!Nil = MaxKey + 1 /\ 0 \in List!Levels
  BY ListNumbers
<1>1. /\ List!Done(op, from, List!Contents, listNext[from][0]) /\ UNCHANGED List!listVars
      /\ op = "Next" => node_ # List!Nil /\ from = node_
      /\ op = "SeekToFirst" => from = List!Head
  BY DEF List!Step
<1>2. from \in At(0)
  <2>1. node_ \in List!Contents \cup {List!Nil}
    BY DEF ListInv, ListType
  <2> QED
    BY <1>n, <1>1, <2>1, ListNodes
<1>3. /\ listNext[from][0] \in List!OnLevel(0) \cup {List!Nil} /\ from < listNext[from][0]
      /\ \A k \in List!OnLevel(0) : from < k => listNext[from][0] <= k
  BY <1>n, <1>2 DEF ListInv, ListChain
<1>4. List!Contents = List!OnLevel(0) /\ List!Contents \subseteq 1..MaxKey /\ from \in 0..MaxKey
  BY <1>2, ListNodes
<1>5. listNext[from][0] \in 1..(MaxKey + 1)
  BY <1>n, <1>3, <1>4
<1>6. /\ listNext[from][0] > from
      /\ \A k \in List!Contents : k > from => k >= listNext[from][0]
  BY <1>3, <1>4, <1>5
<1>7. Right(op, from, List!Contents, listNext[from][0])
  BY <1>6 DEF Right
<1> QED
  BY <1>1, <1>3, <1>4, <1>7, ListDone

\* What the writer does leaves the reader where it can go on, since nothing leaves
\* the list.
LEMMA ListReader ==
  ASSUME ListInv, UNCHANGED <<reader, node_, answer>>,
         \A l \in List!Levels : List!OnLevel(l) \subseteq List!OnLevel(l)'
  PROVE  /\ (reader = List!Idle \/ ListSearch)' /\ List!AnswerRight'
         /\ node_' \in List!Contents' \cup {List!Nil}
<1>0. (reader = List!Idle \/ ListSearch) /\ List!AnswerRight /\ node_ \in List!Contents \cup {List!Nil}
  BY DEF ListInv, ListType
<1>1. List!Contents \subseteq List!Contents'
  BY ListNumbers DEF List!Contents
<1>2. List!AnswerRight'
  BY <1>0 DEF List!AnswerRight
<1>3. ASSUME ListSearch PROVE ListSearch'
  <2>1. reader.x \in At(reader.level) /\ reader.level \in List!Levels
    BY <1>3 DEF ListSearch, Searching
  <2>2. reader'.x \in At(reader.level)'
    <3>1. reader.x = 0 \/ reader.x \in List!OnLevel(reader.level)
      BY <2>1, ListNodes
    <3>2. CASE reader.x = 0
      BY <3>2, ListNumbers DEF At
    <3>3. CASE reader.x \in List!OnLevel(reader.level)
      <4>1. reader.x \in List!OnLevel(reader.level)'
        BY <2>1, <3>3 DEF List!OnLevel
      <4> QED
        BY <4>1 DEF At
    <3> QED
      BY <3>1, <3>2, <3>3
  <2>3. reader' \in Searching
    BY <1>3 DEF ListSearch
  <2>4. reader.since \subseteq List!Contents'
    BY <1>1, <1>3 DEF ListSearch
  <2> QED
    BY <1>3, <2>2, <2>3, <2>4 DEF ListSearch
<1>4. (reader = List!Idle \/ ListSearch)'
  BY <1>0, <1>3
<1> QED
  BY <1>0, <1>1, <1>2, <1>4

\* What Insert finds for the new key.
FoundBefore(key) ==
  IF List!FastPath(key)
  THEN [l \in List!Levels |-> IF l \in 1..prev_height_ - 1 THEN prev_[0] ELSE prev_[l]]
  ELSE [l \in List!Levels |-> IF l < max_height_ THEN List!Predecessor(key, l) ELSE prev_[l]]

\* The fast path and the search find the last node before the key on every level.
LEMMA ListFinds ==
  ASSUME ListInv, writer = [key |-> List!Nil], NEW key \in List!Keys, key \notin List!Contents,
         NEW l \in List!Levels, l < max_height_
  PROVE  IsBefore(FoundBefore(key)[l], key, l)
<1>n. /\ MaxKey \in Nat /\ List!Head = 0 /\ List!Nil = MaxKey + 1 /\ List!Keys = 1..MaxKey
      /\ List!Levels = 0..(kMaxHeight_ - 1) /\ 0 \in List!Levels /\ kMaxHeight_ \in Nat
  BY ListNumbers
<1>t. /\ max_height_ \in 1..kMaxHeight_ /\ prev_ \in [List!Levels -> 0..MaxKey] /\ prev_height_ \in 1..max_height_
  BY DEF ListInv, ListType
<1>1. CASE ~List!FastPath(key)
  <2>1. FoundBefore(key)[l] = List!Predecessor(key, l)
    BY <1>1 DEF FoundBefore
  <2> QED
    BY <1>n, <2>1, ListPredecessor
<1>2. CASE List!FastPath(key)
  <2>p. PICK p : p = prev_[0]
    OBVIOUS
  <2>0. /\ p \in 0..MaxKey /\ ~(listNext[p][0] < key) /\ (p = 0 \/ p < key)
        /\ FoundBefore(key)[l] = IF l \in 1..prev_height_ - 1 THEN p ELSE prev_[l]
    <3>1. /\ ~(listNext[p][0] < key) /\ (p = 0 \/ p < key)
      BY <1>2, <1>n, <2>p DEF List!FastPath, List!KeyIsAfterNode
    <3>2. FoundBefore(key)[l] = IF l \in 1..prev_height_ - 1 THEN p ELSE prev_[l]
      BY <1>2, <2>p DEF FoundBefore
    <3> QED
      BY <1>n, <1>t, <2>p, <3>1, <3>2
  <2>1. ListIdle
    <3>1. ASSUME ListInsert PROVE FALSE
      <4>1. writer.key \in List!Keys
        BY <3>1 DEF ListInsert, Inserting
      <4> QED
        BY <1>n, <4>1
    <3> QED
      BY <3>1 DEF ListInv, ListWriter
  <2>2. p < key /\ p \in At(0) /\ ~(listNext[p][0] < key)
    <3>1. CASE p = 0
      BY <1>n, <2>0, <3>1, ListNodes
    <3>2. CASE p # 0
      <4>1. 0 < max_height_ /\ 0 < prev_height_
        BY <1>t, <1>n
      <4>2. p \in List!OnLevel(0)
        BY <1>n, <2>1, <2>p, <3>2, <4>1 DEF ListIdle
      <4> QED
        BY <2>0, <3>2, <4>2, ListNodes
    <3> QED
      BY <3>1, <3>2
  <2>3. ASSUME NEW k \in List!OnLevel(l), k < key PROVE k <= p
    <3>1. 0 <= l
      BY <1>n
    <3>2. k \in List!OnLevel(0) /\ k \in 1..MaxKey
      BY <1>n, <2>3, <3>1, ListNodes DEF ListInv, ListChain
    <3>3. p < k => listNext[p][0] <= k
      BY <1>n, <2>2, <3>2 DEF ListInv, ListChain
    <3>4. listNext[p][0] \in 1..(MaxKey + 1)
      <4>1. listNext[p][0] \in List!OnLevel(0) \cup {List!Nil}
        BY <1>n, <2>2 DEF ListInv, ListChain
      <4>2. List!OnLevel(0) \subseteq 1..MaxKey
        BY ListNodes
      <4> QED
        BY <1>n, <4>1, <4>2
    <3> QED
      BY <1>n, <2>0, <2>2, <2>3, <3>2, <3>3, <3>4
  <2>4. CASE p = 0
    <3>1. prev_height_ = 1 /\ max_height_ = 1
      BY <2>1, <2>4, <2>p DEF ListIdle
    <3>2. l = 0 /\ FoundBefore(key)[l] = p
      BY <1>n, <2>0, <3>1, <2>p
    <3> QED
      BY <2>2, <2>3, <3>2 DEF IsBefore
  <2>5. CASE p # 0 /\ l < prev_height_
    <3>1. p \in List!OnLevel(l)
      BY <2>1, <2>5, <2>p DEF ListIdle
    <3>2. FoundBefore(key)[l] = p
      <4>1. l = 0 \/ l \in 1..prev_height_ - 1
        BY <1>n, <1>t, <2>5
      <4> QED
        BY <2>0, <2>p, <4>1
    <3> QED
      BY <2>2, <2>3, <3>1, <3>2, ListNodes DEF IsBefore
  <2>6. CASE p # 0 /\ ~(l < prev_height_)
    <3>1. p \notin List!OnLevel(l) /\ IsBefore(prev_[l], p, l)
      <4>1. l >= prev_height_
        BY <1>n, <1>t, <2>6
      <4> QED
        BY <2>1, <2>6, <2>p, <4>1 DEF ListIdle
    <3>2. FoundBefore(key)[l] = prev_[l]
      <4>1. l \notin 1..prev_height_ - 1
        BY <1>n, <1>t, <2>6
      <4> QED
        BY <2>0, <4>1
    <3>3. prev_[l] \in At(l) /\ prev_[l] < p /\ (\A k \in List!OnLevel(l) : k < p => k <= prev_[l])
      BY <3>1 DEF IsBefore
    <3>4. prev_[l] < key
      BY <1>n, <1>t, <2>0, <2>2, <3>3
    <3>5. ASSUME NEW k \in List!OnLevel(l), k < key PROVE k <= prev_[l]
      <4>1. k <= p /\ k # p /\ k \in 1..MaxKey
        BY <2>3, <3>1, <3>5, ListNodes
      <4>2. k < p
        BY <2>0, <4>1
      <4> QED
        BY <3>3, <4>2
    <3> QED
      BY <3>2, <3>3, <3>4, <3>5 DEF IsBefore
  <2> QED
    BY <2>4, <2>5, <2>6
<1> QED
  BY <1>1, <1>2

\* A writer that is idle, or not.
LEMMA ListWriterIs ==
  ASSUME ListInv
  PROVE  /\ writer.key = List!Nil => writer = [key |-> List!Nil] /\ ListIdle
         /\ writer.key # List!Nil => ListInsert
<1>1. ASSUME ListInsert PROVE writer.key # List!Nil
  <2>1. writer.key \in 1..MaxKey
    BY <1>1, ListNumbers DEF ListInsert, Inserting
  <2> QED
    BY <2>1, ListNumbers
<1> QED
  BY <1>1 DEF ListInv, ListWriter

\* Insert begins.
LEMMA ListInsertBegin ==
  ASSUME ListInv, NEW key \in List!Keys, NEW height \in 1..kMaxHeight_, List!InsertBegin(key, height)
  PROVE  ListInv'
<1>n. /\ MaxKey \in Nat /\ List!Head = 0 /\ List!Nil = MaxKey + 1 /\ List!Keys = 1..MaxKey
      /\ List!Levels = 0..(kMaxHeight_ - 1) /\ 0 \in List!Levels /\ kMaxHeight_ \in Nat
  BY ListNumbers
<1>0. ListType /\ ListChain /\ ListUnset
  BY DEF ListInv
<1>t. /\ listNext \in [0..MaxKey -> [List!Levels -> Int]] /\ heights \subseteq 1..max_height_
      /\ max_height_ \in 1..kMaxHeight_ /\ prev_ \in [List!Levels -> 0..MaxKey] /\ prev_height_ \in 1..max_height_
  BY <1>0 DEF ListType
<1>1. /\ writer.key = List!Nil /\ key \notin List!Contents
      /\ prev_' = [l \in List!Levels |-> IF l \in max_height_..height - 1 THEN List!Head ELSE FoundBefore(key)[l]]
      /\ max_height_' = (IF height > max_height_ THEN height ELSE max_height_)
      /\ heights' = heights \cup {max_height_'}
      /\ writer' = [key |-> key, height |-> height, i |-> 0, linked |-> FALSE]
      /\ listNext' = listNext /\ prev_height_' = prev_height_
      /\ UNCHANGED <<reader, node_, answer>>
  BY DEF List!InsertBegin, FoundBefore
<1>2. \A l : List!OnLevel(l)' = List!OnLevel(l) /\ At(l)' = At(l)
  BY <1>1 DEF List!OnLevel, At
<1>3. List!Contents' = List!Contents
  BY <1>2 DEF List!Contents
<1>4. (reader = List!Idle \/ ListSearch)' /\ List!AnswerRight' /\ node_' \in List!Contents' \cup {List!Nil}
  BY <1>1, <1>2, ListReader
<1>5. writer = [key |-> List!Nil]
  BY <1>1, ListWriterIs
<1>6. max_height_' \in 1..kMaxHeight_ /\ max_height_ <= max_height_' /\ height <= max_height_'
  BY <1>1, <1>t, <1>n
<1>7. ASSUME NEW l \in List!Levels, l < max_height_' PROVE IsBefore(prev_'[l], key, l)
  <2>1. CASE l \in max_height_..height - 1
    <3>1. prev_'[l] = 0
      BY <1>1, <1>n, <2>1
    <3>2. List!OnLevel(l) = {}
      BY <1>0, <1>n, <1>t, <2>1 DEF ListChain
    <3>3. 0 \in At(l) /\ 0 < key
      BY <1>n, ListNodes
    <3> QED
      BY <3>1, <3>2, <3>3 DEF IsBefore
  <2>2. CASE l \notin max_height_..height - 1
    <3>1. l < max_height_
      BY <1>1, <1>n, <1>t, <1>7, <2>2
    <3>2. prev_'[l] = FoundBefore(key)[l]
      BY <1>1, <2>2
    <3> QED
      BY <1>1, <1>5, <3>1, <3>2, ListFinds
  <2> QED
    BY <2>1, <2>2
<1>8. ListType'
  <2>1. ASSUME NEW l \in List!Levels PROVE prev_'[l] \in 0..MaxKey
    <3>1. CASE l < max_height_'
      <4>1. prev_'[l] \in At(l)
        BY <1>7, <3>1 DEF IsBefore
      <4> QED
        BY <4>1, ListNodes
    <3>2. CASE ~(l < max_height_')
      <4>0. l \in Int /\ height \in Int /\ max_height_ \in Int /\ max_height_' \in Int /\ prev_height_ \in Int
            /\ max_height_ <= max_height_' /\ height <= max_height_' /\ prev_height_ <= max_height_
        BY <1>6, <1>n, <1>t
      <4>a. ~(l < max_height_) /\ ~(l <= height - 1) /\ ~(l <= prev_height_ - 1)
        BY <4>0, <3>2
      <4>1. ~(l < max_height_) /\ l \notin max_height_..height - 1 /\ l \notin 1..prev_height_ - 1
        BY <4>0, <4>a
      <4>2. prev_'[l] = prev_[l]
        BY <1>1, <4>1 DEF FoundBefore
      <4> QED
        BY <1>t, <4>2
    <3> QED
      BY <3>1, <3>2
  <2>2. prev_' \in [List!Levels -> 0..MaxKey]
    BY <1>1, <2>1
  <2>3. heights' \subseteq 1..max_height_' /\ prev_height_' \in 1..max_height_'
    BY <1>1, <1>t, <1>6
  <2> QED
    BY <1>1, <1>t, <1>4, <1>6, <2>2, <2>3 DEF ListType
<1>9. ListChain'
  <2>1. \A l \in List!Levels : l >= max_height_' => l >= max_height_
    BY <1>t, <1>n, <1>6
  <2> QED
    BY <1>0, <1>1, <1>2, <2>1 DEF ListChain
<1>10. ListUnset'
  <2>1. \A n \in List!Keys : n # writer.key
    BY <1>1, <1>n
  <2> QED
    BY <1>0, <1>1, <1>3, <2>1 DEF ListUnset
<1>11. ListInsert'
  <2>1. /\ writer'.key = key /\ writer'.height = height /\ writer'.i = 0 /\ writer'.linked = FALSE
        /\ writer' \in Inserting
    BY <1>1, <1>n DEF Inserting
  <2>2. \A l \in List!Levels : key \notin List!OnLevel(l) /\ listNext[key][l] = -1
    <3>1. \A l \in List!Levels : 0 <= l
      BY <1>n
    <3>2. \A l \in List!Levels : List!OnLevel(l) \subseteq List!Contents
      BY <1>n, <1>0, <3>1 DEF ListChain, List!Contents
    <3>3. key # writer.key
      BY <1>n, <1>1
    <3> QED
      BY <1>0, <1>1, <3>2, <3>3 DEF ListUnset
  <2>3. \A l \in List!Levels : ~(l < 0)
    BY <1>n
  <2>4. 0 < height
    BY <1>n
  <2>5. \A l \in List!Levels : l < max_height_' => IsBefore(prev_[l], writer.key, l)'
    BY <1>7, <1>2, <2>1 DEF IsBefore
  <2> QED
    BY <1>1, <1>2, <1>6, <2>1, <2>2, <2>3, <2>4, <2>5 DEF ListInsert
<1> QED
  BY <1>4, <1>8, <1>9, <1>10, <1>11 DEF ListInv, ListWriter

\* What is known of the writer during an Insert.
LEMMA ListInsertFacts ==
  ASSUME ListInv, writer.key # List!Nil
  PROVE  /\ ListInsert /\ writer.key \in 1..MaxKey /\ writer.i \in List!Levels /\ writer.height \in 1..kMaxHeight_
         /\ prev_[writer.i] \in At(writer.i) /\ prev_[writer.i] \in 0..MaxKey /\ prev_[writer.i] < writer.key
         /\ writer.i < max_height_ /\ IsBefore(prev_[writer.i], writer.key, writer.i)
         /\ writer.key \notin List!OnLevel(writer.i)
         /\ listNext[prev_[writer.i]][writer.i] \in List!OnLevel(writer.i) \cup {List!Nil}
<1>n. /\ MaxKey \in Nat /\ List!Keys = 1..MaxKey /\ List!Levels = 0..(kMaxHeight_ - 1) /\ kMaxHeight_ \in Nat
  BY ListNumbers
<1>1. ListInsert
  BY ListWriterIs
<1>2. /\ writer.key \in 1..MaxKey /\ writer.i \in List!Levels /\ writer.height \in 1..kMaxHeight_
      /\ writer.i < writer.height /\ writer.height <= max_height_
  BY <1>1, <1>n DEF ListInsert, Inserting
<1>3. writer.i < max_height_ /\ writer.i >= writer.i /\ ~(writer.i < writer.i)
  <2>1. max_height_ \in 1..kMaxHeight_
    BY DEF ListInv, ListType
  <2> QED
    BY <1>2, <1>n, <2>1
<1>4. IsBefore(prev_[writer.i], writer.key, writer.i) /\ writer.key \notin List!OnLevel(writer.i)
  BY <1>1, <1>2, <1>3 DEF ListInsert
<1>5. prev_[writer.i] \in At(writer.i) /\ prev_[writer.i] < writer.key
  BY <1>4 DEF IsBefore
<1>6. prev_[writer.i] \in 0..MaxKey
  BY <1>5, ListNodes
<1>7. listNext[prev_[writer.i]][writer.i] \in List!OnLevel(writer.i) \cup {List!Nil}
  BY <1>2, <1>5 DEF ListInv, ListChain
<1> QED
  BY <1>1, <1>2, <1>3, <1>4, <1>5, <1>6, <1>7

\* The link of the new node is set before the node is reached: no level changes.
LEMMA ListInsertLink == ListInv /\ List!InsertLink => ListInv'
<1> SUFFICES ASSUME ListInv, List!InsertLink PROVE ListInv'
  OBVIOUS
<1>n. /\ MaxKey \in Nat /\ List!Nil = MaxKey + 1 /\ List!Keys = 1..MaxKey
      /\ List!Levels = 0..(kMaxHeight_ - 1) /\ 0 \in List!Levels /\ kMaxHeight_ \in Nat
  BY ListNumbers
<1>0. ListType /\ ListChain /\ ListUnset /\ listNext \in [0..MaxKey -> [List!Levels -> Int]]
  BY DEF ListInv, ListType
<1>p. PICK key, i, p, v : key = writer.key /\ i = writer.i /\ p = prev_[writer.i]
                          /\ v = listNext[prev_[writer.i]][writer.i]
  OBVIOUS
<1>1. /\ ~writer.linked /\ listNext' = [listNext EXCEPT ![key][i] = v]
      /\ writer' = [writer EXCEPT !.linked = TRUE]
      /\ max_height_' = max_height_ /\ heights' = heights /\ prev_' = prev_ /\ prev_height_' = prev_height_
      /\ UNCHANGED <<reader, node_, answer>>
  BY <1>p DEF List!InsertLink
<1>2. /\ ListInsert /\ key \in 1..MaxKey /\ i \in List!Levels
      /\ p \in At(i) /\ p \in 0..MaxKey /\ p < key /\ key \notin List!OnLevel(i)
      /\ v \in List!OnLevel(i) \cup {List!Nil}
  BY <1>p, ListInsertFacts DEF List!InsertLink
<1>3. v \in 1..(MaxKey + 1)
  BY <1>2, <1>n, ListNodes
<1>4. /\ listNext' \in [0..MaxKey -> [List!Levels -> Int]]
      /\ \A n \in 0..MaxKey, l \in List!Levels :
           listNext'[n][l] = IF n = key /\ l = i THEN v ELSE listNext[n][l]
  <2>1. key \in 0..MaxKey /\ v \in Int
    BY <1>2, <1>3, <1>n
  <2> QED
    BY <1>0, <1>1, <1>2, <2>1
<1>5. \A l \in List!Levels : l > i \/ l = i => listNext[key][l] = -1
  BY <1>1, <1>2, <1>p DEF ListInsert
<1>6. ASSUME NEW l \in List!Levels PROVE List!OnLevel(l)' = List!OnLevel(l)
  <2>0. List!OnLevel(l)' = {k \in 1..MaxKey : \E n \in 0..MaxKey : listNext'[n][l] = k}
    BY ListNumbers DEF List!OnLevel
  <2>1. ASSUME NEW k \in 1..MaxKey, NEW n \in 0..MaxKey, listNext'[n][l] = k PROVE k \in List!OnLevel(l)
    <3>1. CASE n = key /\ l = i
      <4>1. k = v /\ k # List!Nil
        BY <1>n, <1>4, <2>1, <3>1
      <4> QED
        BY <1>2, <3>1, <4>1
    <3>2. CASE ~(n = key /\ l = i)
      <4>1. listNext[n][l] = k
        BY <1>4, <2>1, <3>2
      <4> QED
        BY <2>1, <4>1, ListNodes
    <3> QED
      BY <3>1, <3>2
  <2>2. ASSUME NEW k \in List!OnLevel(l) PROVE k \in 1..MaxKey /\ \E n \in 0..MaxKey : listNext'[n][l] = k
    <3>1. k \in 1..MaxKey /\ \E n \in 0..MaxKey : listNext[n][l] = k
      BY <2>2, ListNodes
    <3>2. PICK n \in 0..MaxKey : listNext[n][l] = k
      BY <3>1
    <3>3. ~(n = key /\ l = i)
      <4>1. k # -1
        BY <3>1, <1>n
      <4> QED
        BY <1>5, <3>2, <4>1
    <3> QED
      BY <1>4, <3>1, <3>2, <3>3
  <2> QED
    BY <2>0, <2>1, <2>2
<1>7. \A l \in List!Levels : At(l)' = At(l)
  BY <1>6 DEF At
<1>8. List!Contents' = List!Contents
  BY <1>6, <1>n DEF List!Contents
<1>9. (reader = List!Idle \/ ListSearch)' /\ List!AnswerRight' /\ node_' \in List!Contents' \cup {List!Nil}
  BY <1>1, <1>6, ListReader
<1>10. ListType'
  BY <1>0, <1>1, <1>4, <1>9 DEF ListType
<1>11. ListChain'
  <2>1. ASSUME NEW l \in List!Levels, NEW n \in At(l) PROVE listNext'[n][l] = listNext[n][l]
    <3>1. n \in 0..MaxKey /\ At(l) = {0} \cup List!OnLevel(l)
      BY <2>1, ListNodes
    <3>2. ~(n = key /\ l = i)
      <4>1. key # 0
        BY <1>2, <1>n
      <4> QED
        BY <1>2, <2>1, <3>1, <4>1
    <3> QED
      BY <1>4, <3>1, <3>2
  <2> QED
    BY <1>0, <1>1, <1>6, <1>7, <2>1 DEF ListChain
<1>w. /\ writer'.key = key /\ writer'.height = writer.height /\ writer'.i = i /\ writer'.linked = TRUE
      /\ writer' \in Inserting
  <2>1. writer \in Inserting
    BY <1>2 DEF ListInsert
  <2> QED
    BY <1>1, <1>p, <2>1 DEF Inserting
<1>12. ListUnset'
  <2>1. ASSUME NEW n \in List!Keys, n # key, NEW l \in List!Levels PROVE listNext'[n][l] = listNext[n][l]
    <3>1. n \in 0..MaxKey
      BY <1>n
    <3> QED
      BY <1>4, <2>1, <3>1
  <2> QED
    BY <1>0, <1>w, <1>p, <1>8, <2>1 DEF ListUnset
<1>13. ListInsert'
  <2>1. /\ writer'.i < writer'.height /\ writer'.height <= max_height_'
        /\ \A l \in List!Levels : writer'.key \in List!OnLevel(l)' <=> l < writer'.i
    BY <1>1, <1>2, <1>6, <1>w, <1>p DEF ListInsert
  <2>2. \A l \in List!Levels : l >= writer'.i /\ l < max_height_' => IsBefore(prev_[l], writer.key, l)'
    <3>1. \A l \in List!Levels : l >= i /\ l < max_height_ => IsBefore(prev_[l], key, l)
      BY <1>2, <1>p DEF ListInsert
    <3> QED
      BY <1>1, <1>6, <1>7, <1>w, <3>1 DEF IsBefore
  <2>3. \A l \in List!Levels : l > i => listNext'[key][l] = -1
    <3>1. \A l \in List!Levels : l > i => l # i
      BY <1>n, <1>2
    <3>2. key \in 0..MaxKey
      BY <1>n, <1>2
    <3> QED
      BY <1>4, <1>5, <3>1, <3>2
  <2>4. listNext'[key][i] = listNext'[p][i]
    <3>1. p # key /\ key \in 0..MaxKey
      BY <1>2, <1>n
    <3> QED
      BY <1>2, <1>4, <1>p, <3>1
  <2>5. prev_'[writer'.i] = p
    BY <1>1, <1>p, <1>w
  <2> QED
    BY <1>w, <2>1, <2>2, <2>3, <2>4, <2>5 DEF ListInsert
<1> QED
  BY <1>9, <1>10, <1>11, <1>12, <1>13 DEF ListInv, ListWriter

\* The new node is reached on one more level, between its predecessor there and the
\* node behind it; behind the last level prev_ is what the key needs.
LEMMA ListInsertPublish == ListInv /\ List!InsertPublish => ListInv'
<1> SUFFICES ASSUME ListInv, List!InsertPublish PROVE ListInv'
  OBVIOUS
<1>n. /\ MaxKey \in Nat /\ List!Nil = MaxKey + 1 /\ List!Keys = 1..MaxKey /\ List!Head = 0
      /\ List!Levels = 0..(kMaxHeight_ - 1) /\ 0 \in List!Levels /\ kMaxHeight_ \in Nat
  BY ListNumbers
<1>0. ListType /\ ListChain /\ ListUnset /\ listNext \in [0..MaxKey -> [List!Levels -> Int]]
  BY DEF ListInv, ListType
<1>t. /\ max_height_ \in 1..kMaxHeight_ /\ prev_ \in [List!Levels -> 0..MaxKey]
  BY <1>0 DEF ListType
<1>p. PICK key, i, p, v : key = writer.key /\ i = writer.i /\ p = prev_[writer.i]
                          /\ v = listNext[prev_[writer.i]][writer.i]
  OBVIOUS
<1>1. /\ writer.linked /\ listNext' = [listNext EXCEPT ![p][i] = key]
      /\ max_height_' = max_height_ /\ heights' = heights
      /\ UNCHANGED <<reader, node_, answer>>
  BY <1>p DEF List!InsertPublish
<1>2. /\ ListInsert /\ key \in 1..MaxKey /\ i \in List!Levels /\ writer.height \in 1..kMaxHeight_
      /\ p \in At(i) /\ p \in 0..MaxKey /\ p < key /\ key \notin List!OnLevel(i)
      /\ v \in List!OnLevel(i) \cup {List!Nil} /\ IsBefore(p, key, i) /\ i < max_height_
  BY <1>p, ListInsertFacts DEF List!InsertPublish
<1>3. v \in 1..(MaxKey + 1)
  BY <1>2, <1>n, ListNodes
<1>4. /\ listNext' \in [0..MaxKey -> [List!Levels -> Int]]
      /\ \A n \in 0..MaxKey, l \in List!Levels :
           listNext'[n][l] = IF n = p /\ l = i THEN key ELSE listNext[n][l]
  <2>1. key \in Int
    BY <1>2, <1>n
  <2> QED
    BY <1>0, <1>1, <1>2, <2>1
<1>5. p # key /\ key \in 0..MaxKey /\ key # List!Nil /\ key # 0
  BY <1>2, <1>n
<1>v. listNext[key][i] = v /\ listNext'[key][i] = v /\ listNext'[p][i] = key
  <2>1. listNext[key][i] = v
    BY <1>1, <1>2, <1>p DEF ListInsert
  <2> QED
    BY <1>2, <1>4, <1>5, <2>1
<1>6. ASSUME NEW l \in List!Levels
      PROVE  List!OnLevel(l)' = IF l = i THEN List!OnLevel(l) \cup {key} ELSE List!OnLevel(l)
  <2>0. List!OnLevel(l)' = {k \in 1..MaxKey : \E n \in 0..MaxKey : listNext'[n][l] = k}
    BY ListNumbers DEF List!OnLevel
  <2>1. ASSUME NEW k \in 1..MaxKey, NEW n \in 0..MaxKey, listNext'[n][l] = k
        PROVE  k \in List!OnLevel(l) \/ (l = i /\ k = key)
    <3>1. CASE n = p /\ l = i
      BY <1>4, <2>1, <3>1
    <3>2. CASE ~(n = p /\ l = i)
      <4>1. listNext[n][l] = k
        BY <1>4, <2>1, <3>2
      <4> QED
        BY <2>1, <4>1, ListNodes
    <3> QED
      BY <3>1, <3>2
  <2>2. ASSUME NEW k \in List!OnLevel(l) PROVE k \in 1..MaxKey /\ \E n \in 0..MaxKey : listNext'[n][l] = k
    <3>1. k \in 1..MaxKey /\ \E n \in 0..MaxKey : listNext[n][l] = k
      BY <2>2, ListNodes
    <3>2. PICK n \in 0..MaxKey : listNext[n][l] = k
      BY <3>1
    <3>3. CASE n = p /\ l = i
      BY <1>5, <1>p, <1>v, <3>1, <3>2, <3>3
    <3>4. CASE ~(n = p /\ l = i)
      BY <1>4, <3>1, <3>2, <3>4
    <3> QED
      BY <3>3, <3>4
  <2>3. l = i => \E n \in 0..MaxKey : listNext'[n][l] = key
    BY <1>2, <1>v
  <2>4. CASE l = i
    BY <1>2, <2>0, <2>1, <2>2, <2>3, <2>4
  <2>5. CASE l # i
    BY <2>0, <2>1, <2>2, <2>5
  <2> QED
    BY <2>4, <2>5
<1>7. ASSUME NEW l \in List!Levels
      PROVE  At(l)' = IF l = i THEN At(l) \cup {key} ELSE At(l)
  <2>1. At(l)' = {0} \cup List!OnLevel(l)' /\ At(l) = {0} \cup List!OnLevel(l)
    BY ListNumbers DEF At
  <2>2. CASE l = i
    BY <1>6, <2>1, <2>2
  <2>3. CASE l # i
    BY <1>6, <2>1, <2>3
  <2> QED
    BY <2>2, <2>3
<1>8. List!Contents \subseteq List!Contents'
  BY <1>6, <1>n DEF List!Contents
<1>9. (reader = List!Idle \/ ListSearch)' /\ List!AnswerRight' /\ node_' \in List!Contents' \cup {List!Nil}
  BY <1>1, <1>6, ListReader
<1>k. \A k \in List!OnLevel(i) : k \in 1..MaxKey /\ k # key /\ (k < key => k <= p) /\ (p < k => v <= k)
  <2>1. \A k \in List!OnLevel(i) : k < key => k <= p
    BY <1>2 DEF IsBefore
  <2>2. \A k \in List!OnLevel(i) : p < k => v <= k
    BY <1>0, <1>2, <1>p DEF ListChain
  <2>3. List!OnLevel(i) \subseteq 1..MaxKey
    BY ListNodes
  <2> QED
    BY <1>2, <2>1, <2>2, <2>3
<1>o. p < v /\ key < v
  <2>1. p < v
    BY <1>0, <1>2, <1>p DEF ListChain
  <2>2. CASE v \in List!OnLevel(i)
    BY <1>2, <1>3, <1>k, <2>1, <2>2
  <2>3. CASE v = List!Nil
    BY <1>2, <1>n, <2>1, <2>3
  <2> QED
    BY <1>2, <2>1, <2>2, <2>3
<1>11. ListChain'
  <2>1. ASSUME NEW l \in List!Levels, NEW n \in At(l)'
        PROVE  /\ listNext'[n][l] \in List!OnLevel(l)' \cup {List!Nil} /\ n < listNext'[n][l]
               /\ \A k \in List!OnLevel(l)' : n < k => listNext'[n][l] <= k
    <3>1. CASE l # i
      <4>1. n \in At(l) /\ List!OnLevel(l)' = List!OnLevel(l) /\ n \in 0..MaxKey
        BY <1>6, <1>7, <2>1, <3>1, ListNodes
      <4>2. listNext'[n][l] = listNext[n][l]
        BY <1>4, <3>1, <4>1
      <4> QED
        BY <1>0, <4>1, <4>2 DEF ListChain
    <3>2. CASE l = i /\ n = key
      <4>1. listNext'[n][l] = v
        BY <1>v, <3>2
      <4>2. ASSUME NEW k \in List!OnLevel(i) \cup {key}, key < k PROVE v <= k
        <5>1. k \in List!OnLevel(i) /\ p < k
          BY <1>2, <1>k, <4>2
        <5> QED
          BY <1>k, <5>1
      <4> QED
        BY <1>2, <1>6, <1>o, <3>2, <4>1, <4>2
    <3>3. CASE l = i /\ n = p
      <4>1. listNext'[n][l] = key /\ List!OnLevel(l)' = List!OnLevel(i) \cup {key}
        BY <1>v, <1>6, <3>3
      <4>2. ASSUME NEW k \in List!OnLevel(i) \cup {key}, p < k PROVE key <= k
        <5>1. CASE k = key
          BY <1>2, <5>1
        <5>2. CASE k \in List!OnLevel(i)
          BY <1>2, <1>k, <4>2, <5>2
        <5> QED
          BY <5>1, <5>2
      <4> QED
        BY <1>2, <3>3, <4>1, <4>2
    <3>4. CASE l = i /\ n # key /\ n # p
      <4>1. n \in At(i) /\ n \in 0..MaxKey /\ List!OnLevel(l)' = List!OnLevel(i) \cup {key}
        <5>1. n \in At(i)
          BY <1>7, <2>1, <3>4
        <5> QED
          BY <1>6, <3>4, <5>1, ListNodes
      <4>2. listNext'[n][l] = listNext[n][i]
        BY <1>4, <3>4, <4>1
      <4>3. /\ listNext[n][i] \in List!OnLevel(i) \cup {List!Nil} /\ n < listNext[n][i]
            /\ \A k \in List!OnLevel(i) : n < k => listNext[n][i] <= k
        BY <1>0, <1>2, <4>1 DEF ListChain
      <4>4. ASSUME n < key PROVE listNext[n][i] <= key
        <5>1. n < p
          <6>1. n = 0 \/ n \in List!OnLevel(i)
            BY <4>1, ListNodes
          <6>2. n <= p
            BY <1>2, <1>k, <4>4, <6>1
          <6> QED
            BY <1>2, <3>4, <4>1, <6>2
        <5>2. p \in List!OnLevel(i)
          <6>1. p # 0
            BY <1>2, <4>1, <5>1
          <6> QED
            BY <1>2, <6>1, ListNodes
        <5>3. listNext[n][i] <= p
          BY <4>3, <5>1, <5>2
        <5>4. listNext[n][i] \in Int
          BY <1>0, <1>2, <4>1
        <5> QED
          BY <1>2, <5>3, <5>4
      <4> QED
        BY <4>1, <4>2, <4>3, <4>4
    <3> QED
      BY <3>1, <3>2, <3>3, <3>4
  <2>2. ASSUME NEW l \in List!Levels, NEW m \in List!Levels, m <= l
        PROVE  List!OnLevel(l)' \subseteq List!OnLevel(m)'
    <3>1. List!OnLevel(l) \subseteq List!OnLevel(m) /\ List!OnLevel(m) \subseteq List!OnLevel(m)'
      BY <1>0, <1>6, <2>2 DEF ListChain
    <3>2. ASSUME l = i PROVE key \in List!OnLevel(m)'
      <4>1. CASE m = i
        BY <1>6, <4>1
      <4>2. CASE m # i
        <5>1. m < i
          BY <1>n, <2>2, <3>2, <4>2
        <5>2. key \in List!OnLevel(m)
          BY <1>2, <1>p, <5>1 DEF ListInsert
        <5> QED
          BY <3>1, <5>2
      <4> QED
        BY <4>1, <4>2
    <3>3. CASE l = i
      BY <1>6, <3>1, <3>2, <3>3
    <3>4. CASE l # i
      BY <1>6, <3>1, <3>4
    <3> QED
      BY <3>3, <3>4
  <2>3. ASSUME NEW l \in List!Levels, l >= max_height_ PROVE List!OnLevel(l)' = {}
    <3>1. l # i
      BY <1>2, <1>n, <1>t, <2>3
    <3> QED
      BY <1>0, <1>6, <2>3, <3>1 DEF ListChain
  <2> QED
    BY <1>1, <2>1, <2>2, <2>3 DEF ListChain
<1>12. ASSUME NEW n \in List!Keys, n \notin List!Contents', n # key, NEW l \in List!Levels
       PROVE  listNext'[n][l] = -1
  <2>1. n \notin List!Contents /\ n \in 0..MaxKey /\ n # 0
    BY <1>8, <1>n, <1>12
  <2>2. n # p
    <3>1. p = 0 \/ p \in List!Contents
      <4>1. 0 <= i
        BY <1>2, <1>n
      <4>2. List!OnLevel(i) \subseteq List!OnLevel(0)
        BY <1>0, <1>2, <1>n, <4>1 DEF ListChain
      <4> QED
        BY <1>2, <4>2, ListNodes
    <3> QED
      BY <2>1, <3>1
  <2>3. listNext[n][l] = -1
    BY <1>0, <1>p, <1>12, <2>1 DEF ListUnset
  <2> QED
    BY <1>4, <2>1, <2>2, <2>3
<1>c. key \in List!Contents'
  <2>1. i = 0 \/ 0 < i
    BY <1>2, <1>n
  <2>2. 0 < i => key \in List!OnLevel(0)
    BY <1>2, <1>p, <1>n DEF ListInsert
  <2>3. key \in List!OnLevel(0)'
    BY <1>6, <1>n, <2>1, <2>2
  <2> QED
    BY <2>3 DEF List!Contents
<1>b. \A l \in List!Levels : l > i /\ l < max_height_ => IsBefore(prev_[l], key, l) /\ l # i
  <2>1. \A l \in List!Levels : l > i => l >= i /\ l # i
    BY <1>2, <1>n
  <2> QED
    BY <1>2, <1>p, <2>1 DEF ListInsert
<1>h. writer.i < writer.height /\ writer.height <= max_height_
      /\ (\A l \in List!Levels : key \in List!OnLevel(l) <=> l < i)
  BY <1>2, <1>p DEF ListInsert
<1>l. \A l \in List!Levels : key \in List!OnLevel(l)' <=> l < i + 1
  <2>1. \A l \in List!Levels : l < i + 1 <=> l < i \/ l = i
    BY <1>2, <1>n
  <2> QED
    BY <1>6, <1>h, <2>1
<1>13. CASE writer.i + 1 < writer.height
  <2>1. writer' = [writer EXCEPT !.i = i + 1, !.linked = FALSE] /\ prev_' = prev_ /\ prev_height_' = prev_height_
    BY <1>13, <1>p DEF List!InsertPublish
  <2>2. i + 1 \in List!Levels
    BY <1>2, <1>13, <1>p, <1>n
  <2>3. /\ writer'.key = key /\ writer'.height = writer.height /\ writer'.i = i + 1 /\ writer'.linked = FALSE
        /\ writer' \in Inserting
    <3>1. writer \in Inserting
      BY <1>2 DEF ListInsert
    <3> QED
      BY <2>1, <2>2, <1>p, <3>1 DEF Inserting
  <2>4. ListType'
    BY <1>0, <1>1, <1>4, <1>9, <2>1 DEF ListType
  <2>5. ListUnset'
    BY <1>12, <2>3 DEF ListUnset
  <2>6. \A l \in List!Levels : l >= i + 1 => l > i /\ l # i
    BY <1>2, <1>n
  <2>7. \A l \in List!Levels : l >= i + 1 /\ l < max_height_' => IsBefore(prev_[l], writer.key, l)'
    BY <1>1, <1>6, <1>7, <1>b, <2>1, <2>3, <2>6 DEF IsBefore
  <2>8. \A l \in List!Levels : l > i + 1 \/ (l = i + 1) => listNext'[key][l] = -1
    <3>1. \A l \in List!Levels : l > i + 1 \/ (l = i + 1) => l > i /\ l # i
      BY <1>2, <1>n
    <3>2. \A l \in List!Levels : l > i => listNext[key][l] = -1
      BY <1>2, <1>p DEF ListInsert
    <3> QED
      BY <1>4, <1>5, <3>1, <3>2
  <2>9. writer'.i < writer'.height /\ writer'.height <= max_height_'
    BY <1>1, <1>13, <1>h, <1>p, <2>3
  <2>10. ListInsert'
    BY <1>l, <2>3, <2>7, <2>8, <2>9 DEF ListInsert
  <2> QED
    BY <1>9, <1>11, <2>4, <2>5, <2>10 DEF ListInv, ListWriter
<1>14. CASE ~(writer.i + 1 < writer.height)
  <2>1. /\ writer' = [key |-> List!Nil] /\ prev_' = [prev_ EXCEPT ![0] = key] /\ prev_height_' = writer.height
    BY <1>14, <1>p DEF List!InsertPublish
  <2>2. writer.height = i + 1 /\ writer.height \in 1..max_height_
    <3>1. i \in Int /\ writer.height \in Int /\ i < writer.height /\ ~(i + 1 < writer.height)
      BY <1>2, <1>14, <1>h, <1>p, <1>n
    <3>2. writer.height = i + 1
      BY <3>1
    <3>3. writer.height >= 1 /\ writer.height <= max_height_ /\ max_height_ \in Int
      BY <1>2, <1>h, <1>n, <1>t
    <3> QED
      BY <3>1, <3>2, <3>3
  <2>3. /\ prev_'[0] = key /\ prev_' \in [List!Levels -> 0..MaxKey]
        /\ \A l \in List!Levels : l # 0 => prev_'[l] = prev_[l]
    BY <1>n, <1>t, <1>5, <2>1
  <2>4. ListType'
    BY <1>0, <1>1, <1>4, <1>9, <2>1, <2>2, <2>3 DEF ListType
  <2>5. ListUnset'
    BY <1>12, <1>c, <2>1 DEF ListUnset
  <2>6. \A l \in List!Levels : l < max_height_ =>
          /\ l < i + 1 => key \in List!OnLevel(l)'
          /\ l >= i + 1 => key \notin List!OnLevel(l)' /\ IsBefore(prev_[l], prev_[0], l)'
    <3>1. ASSUME NEW l \in List!Levels, l < max_height_, l >= i + 1
          PROVE  key \notin List!OnLevel(l)' /\ IsBefore(prev_[l], prev_[0], l)'
      <4>1. l > i /\ l # i /\ l # 0 /\ ~(l < i + 1)
        BY <1>2, <1>n, <3>1
      <4>2. IsBefore(prev_[l], key, l) /\ prev_'[l] = prev_[l]
        BY <1>b, <2>3, <3>1, <4>1
      <4>3. List!OnLevel(l)' = List!OnLevel(l) /\ At(l)' = At(l)
        BY <1>6, <1>7, <4>1
      <4> QED
        BY <1>l, <2>3, <4>1, <4>2, <4>3 DEF IsBefore
    <3> QED
      BY <1>l, <3>1
  <2>7. ListIdle'
    BY <1>1, <1>5, <2>1, <2>2, <2>3, <2>6 DEF ListIdle
  <2> QED
    BY <1>9, <1>11, <2>1, <2>4, <2>5, <2>7 DEF ListInv, ListWriter
<1> QED
  BY <1>13, <1>14

\* Every step of the list keeps the invariant.
LEMMA ListNext == ListInv /\ (List!Next \/ UNCHANGED skipVars) => ListInv'
<1> SUFFICES ASSUME ListInv, List!Next \/ UNCHANGED skipVars PROVE ListInv'
  OBVIOUS
<1>1. CASE UNCHANGED skipVars
  <2>1. UNCHANGED List!listVars /\ UNCHANGED <<reader, node_, answer>> /\ max_height_' = max_height_
        /\ heights' = heights /\ prev_' = prev_ /\ prev_height_' = prev_height_ /\ listNext' = listNext
    BY <1>1 DEF skipVars, List!listVars
  <2>2. ListChain' /\ ListUnset' /\ ListWriter' /\ (\A l : List!OnLevel(l)' = List!OnLevel(l))
    BY <2>1, ListSame DEF ListInv
  <2>3. (reader = List!Idle \/ ListSearch)' /\ List!AnswerRight' /\ node_' \in List!Contents' \cup {List!Nil}
    BY <2>1, <2>2, ListReader
  <2>4. ListType'
    BY <2>1, <2>3 DEF ListInv, ListType
  <2> QED
    BY <2>2, <2>3, <2>4 DEF ListInv
<1>2. CASE List!Next
  BY <1>2, ListInsertBegin, ListInsertLink, ListInsertPublish, ListBegin, ListStep, ListFindGreaterOrEqual,
     ListFindLessThan, ListFindLast DEF List!Next
<1> QED
  BY <1>1, <1>2

\* The invariant makes the list sound.
LEMMA ListSound == ListInv => List!ConcurrentListSound
<1> SUFFICES ASSUME ListInv PROVE List!ConcurrentListSound
  OBVIOUS
<1>n. /\ MaxKey \in Nat /\ List!Nil = MaxKey + 1 /\ List!Keys = 1..MaxKey /\ List!Head = 0
      /\ List!Levels = 0..(kMaxHeight_ - 1) /\ 0 \in List!Levels /\ kMaxHeight_ \in Nat
  BY ListNumbers
<1>0. ListType /\ ListChain /\ List!AnswerRight
  BY DEF ListInv
<1>t. max_height_ \in 1..kMaxHeight_ /\ prev_height_ \in 1..max_height_ /\ prev_ \in [List!Levels -> 0..MaxKey]
  BY <1>0 DEF ListType
<1>1. ASSUME NEW l \in List!Levels
      PROVE  /\ \A n \in {List!Head} \cup List!OnLevel(l) : listNext[n][l] > n
             /\ l > 0 => List!OnLevel(l) \subseteq List!OnLevel(l - 1)
  <2>1. ASSUME NEW n \in {List!Head} \cup List!OnLevel(l) PROVE listNext[n][l] > n
    <3>1. n \in At(l)
      BY <2>1 DEF At
    <3>2. n < listNext[n][l]
      BY <1>0, <3>1 DEF ListChain
    <3> QED
      BY <3>2
  <2>2. ASSUME l > 0 PROVE List!OnLevel(l) \subseteq List!OnLevel(l - 1)
    <3>1. l - 1 \in List!Levels /\ l - 1 <= l
      BY <1>n, <2>2
    <3> QED
      BY <1>0, <3>1 DEF ListChain
  <2> QED
    BY <2>1, <2>2
<1>2. ASSUME reader.op # "none"
      PROVE  /\ listNext[reader.x][reader.level] # List!Uninitialised
             /\ reader.find # "Last" => reader.x < reader.key
  <2>1. ListSearch
    BY <1>2, ListSearches
  <2>2. listNext[reader.x][reader.level] \in 1..(MaxKey + 1)
    BY <2>1, ListLink
  <2>3. listNext[reader.x][reader.level] # List!Uninitialised
    BY <2>2, <1>n DEF List!Uninitialised
  <2>4. reader.find \in {"GreaterOrEqual", "LessThan", "Last"}
    BY <2>1 DEF ListSearch, Searching
  <2> QED
    BY <2>1, <2>3, <2>4 DEF ListSearch
<1>3. ASSUME writer.key = List!Nil
      PROVE  /\ prev_[0] = List!Head => prev_height_ = 1 /\ max_height_ = 1
             /\ \A l \in 1..max_height_ - 1 : l >= prev_height_ => prev_[l] = List!Predecessor(prev_[0], l)
  <2>1. ListIdle
    BY <1>3, ListWriterIs
  <2>2. prev_[0] = List!Head => prev_height_ = 1 /\ max_height_ = 1
    BY <1>n, <2>1 DEF ListIdle
  <2>3. ASSUME NEW l \in 1..max_height_ - 1, l >= prev_height_ PROVE prev_[l] = List!Predecessor(prev_[0], l)
    <3>1. l \in List!Levels /\ l < max_height_ /\ max_height_ # 1
      BY <1>n, <1>t, <2>3
    <3>2. IsBefore(prev_[l], prev_[0], l) /\ prev_[0] # 0
      BY <2>1, <2>3, <3>1 DEF ListIdle
    <3>3. prev_[0] \in 1..MaxKey
      BY <1>n, <1>t, <3>2
    <3> QED
      BY <3>2, <3>3, ListPredecessor
  <2> QED
    BY <2>2, <2>3
<1>4. ASSUME writer.key # List!Nil, NEW l \in writer.i..writer.height - 1, ~writer.linked \/ l > writer.i
      PROVE  prev_[l] = List!Predecessor(writer.key, l)
  <2>1. /\ ListInsert /\ writer.key \in 1..MaxKey /\ writer.i \in List!Levels /\ writer.height \in 1..kMaxHeight_
    BY <1>4, ListInsertFacts
  <2>2. writer.height <= max_height_
    BY <2>1 DEF ListInsert
  <2>3. l \in List!Levels /\ l >= writer.i /\ l < max_height_
    BY <1>n, <1>t, <1>4, <2>1, <2>2
  <2>4. IsBefore(prev_[l], writer.key, l)
    BY <2>1, <2>3 DEF ListInsert
  <2> QED
    BY <2>1, <2>4, ListPredecessor
<1> QED
  BY <1>0, <1>1, <1>2, <1>3, <1>4 DEF List!ConcurrentListSound

------------------------------------------------------------------------------
(* MemoryOrders                                                            *)

\* The constant of MemoryOrders.
LEMMA OrdersConstants ==
  Iterations \in Nat \ {0}
  BY AtomicsAssumption

\* A value with what it tells, and what a thread knows.
View == [Orders!Atomics -> Nat]
Stored == [value : Int, known : View]

\* The types that every program needs.
OrdersType ==
  /\ orderPc \in [Orders!Threads -> Nat] /\ atomics \in [Orders!Atomics -> Seq(Stored)]
  /\ view \in [Orders!Threads -> View] /\ sc \in View /\ z \in Nat

\* acquire_release.cc: whoever has seen y knows of the store to x.
AcquireReleaseInv ==
  program = "acquire_release" =>
    /\ OrdersType /\ orderPc["a"] \in 1..3 /\ orderPc["b"] \in 1..3 /\ orderPc["c"] = 1 /\ orderPc["d"] = 1
    /\ Len(atomics["x"]) = (IF orderPc["a"] = 1 THEN 1 ELSE 2)
    /\ Len(atomics["y"]) = (IF orderPc["a"] = 3 THEN 2 ELSE 1)
    /\ atomics["y"][1].value = 0
    /\ orderPc["a"] # 1 => atomics["x"][2].value = 1 /\ view["a"]["x"] = 2
    /\ orderPc["a"] = 3 => atomics["y"][2].known["x"] = 2
    /\ orderPc["b"] # 1 => view["b"]["x"] >= 2
    /\ z = (IF orderPc["b"] = 3 THEN 1 ELSE 0)

\* seq_cst.cc: all accesses know of all stores, so the second reader sees both.
SeqCstInv ==
  program = "seq_cst" =>
    /\ OrdersType /\ orderPc["a"] \in 1..2 /\ orderPc["b"] \in 1..2 /\ orderPc["c"] \in 1..3 /\ orderPc["d"] \in 1..3
    /\ Len(atomics["x"]) = orderPc["a"] /\ Len(atomics["y"]) = orderPc["b"]
    /\ sc["x"] >= orderPc["a"] /\ sc["y"] >= orderPc["b"]
    /\ atomics["x"][1].value = 0 /\ atomics["y"][1].value = 0
    /\ orderPc["a"] = 2 => atomics["x"][2].value = 1
    /\ orderPc["b"] = 2 => atomics["y"][2].value = 1
    /\ orderPc["c"] # 1 => orderPc["a"] = 2
    /\ orderPc["d"] # 1 => orderPc["b"] = 2
    /\ orderPc["c"] = 3 /\ orderPc["d"] = 3 => z # 0

\* relaxed_test.cc: the last value is the last one of one of the threads.
RelaxedTestInv ==
  program = "relaxed_test" =>
    /\ OrdersType /\ orderPc["c"] = 1 /\ orderPc["d"] = 1
    /\ orderPc["a"] \in 1..(Iterations + 1) /\ orderPc["b"] \in 1..(Iterations + 1)
    /\ Len(atomics["x"]) # 0
    /\ \/ orderPc["a"] = 1 /\ orderPc["b"] = 1
       \/ orderPc["a"] # 1 /\ atomics["x"][Len(atomics["x"])].value = orderPc["a"] - 2
       \/ orderPc["b"] # 1 /\ atomics["x"][Len(atomics["x"])].value = 2 - orderPc["b"]

\* The inductive invariant of the programs of the memory orders.
OrdersInv == AcquireReleaseInv /\ SeqCstInv /\ RelaxedTestInv

\* The instructions of the programs.
LEMMA OrdersCode ==
  /\ program = "acquire_release" =>
       /\ Orders!Code("a") = <<Orders!Do("store", "x", 1, "relaxed"), Orders!Do("store", "y", 1, "release")>>
       /\ Orders!Code("b") = <<Orders!Do("await", "y", 1, "acquire"), Orders!Do("test", "x", 1, "relaxed")>>
       /\ Orders!Code("c") = <<>> /\ Orders!Code("d") = <<>>
  /\ program = "seq_cst" =>
       /\ Orders!Code("a") = <<Orders!Do("store", "x", 1, "seq_cst")>>
       /\ Orders!Code("b") = <<Orders!Do("store", "y", 1, "seq_cst")>>
       /\ Orders!Code("c") = <<Orders!Do("await", "x", 1, "seq_cst"), Orders!Do("test", "y", 1, "seq_cst")>>
       /\ Orders!Code("d") = <<Orders!Do("await", "y", 1, "seq_cst"), Orders!Do("test", "x", 1, "seq_cst")>>
  /\ program = "relaxed_test" =>
       /\ Orders!Code("a") = [i \in 1..Iterations |-> Orders!Do("store", "x", 1 * (i - 1), "relaxed")]
       /\ Orders!Code("b") = [i \in 1..Iterations |-> Orders!Do("store", "x", (-1) * (i - 1), "relaxed")]
       /\ Orders!Code("c") = <<>> /\ Orders!Code("d") = <<>>
<1>1. ASSUME program = "acquire_release"
      PROVE  /\ Orders!Code("a") = Orders!write_x_then_y("release")
             /\ Orders!Code("b") = Orders!read_then("y", "x", "acquire", "relaxed")
             /\ Orders!Code("c") = <<>> /\ Orders!Code("d") = <<>>
  BY <1>1 DEF Orders!Code, Orders!Programs, Orders!acquire_release
<1>2. ASSUME program = "seq_cst"
      PROVE  /\ Orders!Code("a") = Orders!write("x", "seq_cst") /\ Orders!Code("b") = Orders!write("y", "seq_cst")
             /\ Orders!Code("c") = Orders!read_then("x", "y", "seq_cst", "seq_cst")
             /\ Orders!Code("d") = Orders!read_then("y", "x", "seq_cst", "seq_cst")
  BY <1>2 DEF Orders!Code, Orders!Programs, Orders!seq_cst
<1>3. ASSUME program = "relaxed_test"
      PROVE  /\ Orders!Code("a") = Orders!thread_func(1) /\ Orders!Code("b") = Orders!thread_func(-1)
             /\ Orders!Code("c") = <<>> /\ Orders!Code("d") = <<>>
  BY <1>3 DEF Orders!Code, Orders!Programs, Orders!relaxed_test
<1>4. Orders!write_x_then_y("release") = <<Orders!Do("store", "x", 1, "relaxed"), Orders!Do("store", "y", 1, "release")>>
  <2>1. PICK p, q : p = Orders!Do("store", "x", 1, "relaxed") /\ q = Orders!Do("store", "y", 1, "release")
    OBVIOUS
  <2>2. Orders!write_x_then_y("release") = <<p>> \o <<q>>
    BY <2>1 DEF Orders!write_x_then_y, Orders!write
  <2>3. <<p>> \o <<q>> = <<p, q>>
    <3>1. <<p>> \in Seq({p, q}) /\ <<q>> \in Seq({p, q}) /\ <<p, q>> \in Seq({p, q})
      OBVIOUS
    <3>2. PICK s : s = <<p>> \o <<q>>
      OBVIOUS
    <3>3. s \in Seq({p, q}) /\ Len(s) = 2 /\ s[1] = p /\ s[2] = q
      BY <3>1, <3>2
    <3>4. Len(<<p, q>>) = 2 /\ <<p, q>>[1] = p /\ <<p, q>>[2] = q
      OBVIOUS
    <3>5. \A i \in 1..2 : s[i] = <<p, q>>[i]
      BY <3>3, <3>4
    <3>6. s = <<p, q>>
      BY <3>1, <3>3, <3>4, <3>5, SeqEqual
    <3> QED
      BY <3>2, <3>6
  <2> QED
    BY <2>1, <2>2, <2>3
<1> QED
  BY <1>1, <1>2, <1>3, <1>4 DEF Orders!write, Orders!read_then, Orders!thread_func

\* Nothing is stored, nothing is known.
LEMMA OrdersInit == Orders!Init => OrdersInv
<1> SUFFICES ASSUME Orders!Init PROVE OrdersInv
  OBVIOUS
<1> DEFINE v == [value |-> 0, known |-> Orders!Nothing]
<1>0. /\ orderPc = [t \in Orders!Threads |-> 1] /\ atomics = [l \in Orders!Atomics |-> <<v>>]
      /\ view = [t \in Orders!Threads |-> Orders!Nothing] /\ sc = Orders!Nothing /\ z = 0
  BY DEF Orders!Init
<1>1. Orders!Nothing \in View /\ Orders!Nothing["x"] = 1 /\ Orders!Nothing["y"] = 1
  BY DEF View, Orders!Nothing, Orders!Atomics
<1>2. v \in Stored /\ v.value = 0
  BY <1>1 DEF Stored
<1> HIDE DEF v
<1>3. OrdersType
  BY <1>0, <1>1, <1>2 DEF OrdersType
<1>4. orderPc["a"] = 1 /\ orderPc["b"] = 1 /\ orderPc["c"] = 1 /\ orderPc["d"] = 1
  BY <1>0 DEF Orders!Threads
<1>5. atomics["x"] = <<v>> /\ atomics["y"] = <<v>> /\ Len(<<v>>) = 1 /\ <<v>>[1] = v
  BY <1>0 DEF Orders!Atomics
<1>a. /\ Len(atomics["x"]) = 1 /\ Len(atomics["y"]) = 1 /\ atomics["x"][1].value = 0 /\ atomics["y"][1].value = 0
      /\ sc["x"] = 1 /\ sc["y"] = 1 /\ z = 0 /\ 1 \in 1..2 /\ 1 \in 1..3
  <2>1. 1 \in 1..2 /\ 1 \in 1..3
    OBVIOUS
  <2> QED
    BY <1>0, <1>1, <1>2, <1>5, <2>1
<1>6. AcquireReleaseInv
  <2>1. 1 # 3
    OBVIOUS
  <2> QED
    BY <1>3, <1>4, <1>a, <2>1 DEF AcquireReleaseInv
<1>7. SeqCstInv
  <2>1. 1 >= 1 /\ 1 # 2 /\ 1 # 3
    OBVIOUS
  <2> QED
    BY <1>3, <1>4, <1>a, <2>1 DEF SeqCstInv
<1>8. RelaxedTestInv
  BY <1>3, <1>4, <1>5, OrdersConstants DEF RelaxedTestInv
<1> QED
  BY <1>6, <1>7, <1>8 DEF OrdersInv

\* The instructions there are.
Instructions == [op : {"store", "await", "test"}, loc : Orders!Atomics, value : Int,
                 order : {"relaxed", "acquire", "release", "seq_cst"}]

\* Knowledge only grows.
LEMMA OrdersJoin ==
  ASSUME NEW v \in View, NEW w \in View
  PROVE  /\ Orders!Join(v, w) \in View
         /\ \A l \in Orders!Atomics : Orders!Join(v, w)[l] >= v[l] /\ Orders!Join(v, w)[l] >= w[l]
<1>1. ASSUME NEW l \in Orders!Atomics
      PROVE  /\ Orders!Join(v, w)[l] \in Nat
             /\ Orders!Join(v, w)[l] >= v[l] /\ Orders!Join(v, w)[l] >= w[l]
  <2>1. v[l] \in Nat /\ w[l] \in Nat
    BY DEF View
  <2>2. Orders!Join(v, w)[l] = IF v[l] < w[l] THEN w[l] ELSE v[l]
    BY DEF Orders!Join
  <2> QED
    BY <2>1, <2>2
<1>2. Orders!Join(v, w) = [l \in Orders!Atomics |-> Orders!Join(v, w)[l]]
  BY DEF Orders!Join
<1>3. Orders!Join(v, w) \in View
  BY <1>1, <1>2 DEF View
<1> QED
  BY <1>1, <1>3

\* What a store of a thread does.
StoreDone(t, ins) ==
  /\ ins.op = "store" /\ orderPc[t] <= Len(Orders!Code(t)) /\ OrdersType' /\ program' = program /\ z' = z
  /\ orderPc' = [orderPc EXCEPT ![t] = orderPc[t] + 1]
  /\ \A l \in Orders!Atomics : l # ins.loc => atomics'[l] = atomics[l]
  /\ Len(atomics'[ins.loc]) = Len(atomics[ins.loc]) + 1
  /\ \A k \in 1..Len(atomics[ins.loc]) : atomics'[ins.loc][k] = atomics[ins.loc][k]
  /\ atomics'[ins.loc][Len(atomics[ins.loc]) + 1].value = ins.value
  /\ ins.order = "release" => \A l \in Orders!Atomics : l # ins.loc =>
        atomics'[ins.loc][Len(atomics[ins.loc]) + 1].known[l] = view[t][l]
  /\ view'[t][ins.loc] = Len(atomics[ins.loc]) + 1
  /\ ins.order # "seq_cst" => \A l \in Orders!Atomics : l # ins.loc => view'[t][l] = view[t][l]
  /\ \A u \in Orders!Threads : u # t => view'[u] = view[u]
  /\ \A l \in Orders!Atomics : sc'[l] >= sc[l]
  /\ ins.order = "seq_cst" => sc'[ins.loc] >= Len(atomics[ins.loc]) + 1

\* A store does that.
LEMMA OrdersStore ==
  ASSUME OrdersType, NEW t \in Orders!Threads, Orders!Store(t), NEW ins, ins = Orders!Code(t)[orderPc[t]],
         ins \in Instructions
  PROVE  StoreDone(t, ins)
<1>p. PICK n, loc, before : n = Len(atomics[ins.loc]) + 1 /\ loc = ins.loc /\ before = Orders!Before(t, ins.order)
  OBVIOUS
<1>q. PICK known : known = [before EXCEPT ![loc] = n]
  OBVIOUS
<1>r. PICK tells : tells = IF Orders!Releases(ins.order) THEN known ELSE [Orders!Nothing EXCEPT ![loc] = n]
  OBVIOUS
<1>0. /\ ins.op = "store" /\ orderPc[t] <= Len(Orders!Code(t)) /\ program' = program /\ z' = z
      /\ atomics' = [atomics EXCEPT ![loc] = Append(atomics[loc], [value |-> ins.value, known |-> tells])]
      /\ view' = [view EXCEPT ![t] = known]
      /\ sc' = IF ins.order = "seq_cst" THEN Orders!Join(sc, known) ELSE sc
      /\ orderPc' = [orderPc EXCEPT ![t] = orderPc[t] + 1]
  BY <1>p, <1>q, <1>r DEF Orders!Store
<1>1. /\ loc \in Orders!Atomics /\ ins.value \in Int /\ ins.loc = loc
  BY <1>p DEF Instructions
<1>2. /\ atomics[loc] \in Seq(Stored) /\ n \in Nat /\ n = Len(atomics[loc]) + 1 /\ view[t] \in View /\ sc \in View
      /\ orderPc[t] \in Nat /\ z \in Nat
  BY <1>1, <1>p DEF OrdersType
<1>3. before \in View /\ (ins.order # "seq_cst" => before = view[t])
  <2>1. Orders!Join(view[t], sc) \in View
    BY <1>2, OrdersJoin
  <2> QED
    BY <1>2, <1>p, <2>1 DEF Orders!Before
<1>4. /\ known \in View /\ known[loc] = n /\ \A l \in Orders!Atomics : l # loc => known[l] = before[l]
  BY <1>1, <1>2, <1>3, <1>q DEF View
<1>5. tells \in View /\ (ins.order = "release" => tells = known)
  <2>1. [Orders!Nothing EXCEPT ![loc] = n] \in View
    BY <1>2 DEF Orders!Nothing, View
  <2> QED
    BY <1>4, <1>r, <2>1 DEF Orders!Releases
<1>s. PICK entry : entry = [value |-> ins.value, known |-> tells]
  OBVIOUS
<1>6. entry \in Stored /\ entry.value = ins.value /\ entry.known = tells
  BY <1>1, <1>5, <1>s DEF Stored
<1>7. /\ Append(atomics[loc], entry) \in Seq(Stored) /\ Len(Append(atomics[loc], entry)) = n
      /\ Append(atomics[loc], entry)[n] = entry
      /\ \A k \in 1..Len(atomics[loc]) : Append(atomics[loc], entry)[k] = atomics[loc][k]
  BY <1>2, <1>6
<1>8. /\ atomics' \in [Orders!Atomics -> Seq(Stored)] /\ atomics'[loc] = Append(atomics[loc], entry)
      /\ \A l \in Orders!Atomics : l # loc => atomics'[l] = atomics[l]
  BY <1>0, <1>1, <1>7, <1>s DEF OrdersType
<1>9. /\ view' \in [Orders!Threads -> View] /\ view'[t] = known
      /\ \A u \in Orders!Threads : u # t => view'[u] = view[u]
  BY <1>0, <1>4 DEF OrdersType
<1>10. /\ sc' \in View /\ \A l \in Orders!Atomics : sc'[l] >= sc[l]
       /\ ins.order = "seq_cst" => sc'[loc] >= n
  <2>1. CASE ins.order = "seq_cst"
    BY <1>0, <1>1, <1>2, <1>4, <2>1, OrdersJoin
  <2>2. CASE ins.order # "seq_cst"
    <3>1. \A l \in Orders!Atomics : sc[l] \in Nat
      BY <1>2 DEF View
    <3> QED
      BY <1>0, <1>2, <2>2, <3>1
  <2> QED
    BY <2>1, <2>2
<1>11. orderPc' \in [Orders!Threads -> Nat] /\ z' \in Nat
  <2>1. orderPc[t] + 1 \in Nat
    BY <1>2
  <2> QED
    BY <1>0, <1>2, <2>1 DEF OrdersType
<1>12. OrdersType'
  BY <1>8, <1>9, <1>10, <1>11 DEF OrdersType
<1>13. ins.order = "release" => \A l \in Orders!Atomics : l # loc => entry.known[l] = view[t][l]
  BY <1>3, <1>4, <1>5, <1>6
<1>14. ins.order # "seq_cst" => \A l \in Orders!Atomics : l # loc => view'[t][l] = view[t][l]
  BY <1>3, <1>4, <1>9
<1>15. view'[t][loc] = n
  BY <1>4, <1>9
<1> QED
  BY <1>0, <1>1, <1>2, <1>6, <1>7, <1>8, <1>9, <1>10, <1>12, <1>13, <1>14, <1>15 DEF StoreDone

\* What a load of a thread does.
LEMMA OrdersLoad ==
  ASSUME OrdersType, NEW t \in Orders!Threads, NEW ins, ins = Orders!Code(t)[orderPc[t]], ins \in Instructions,
         NEW i \in DOMAIN atomics[ins.loc], Orders!Load(t, i)
  PROVE  /\ i \in 1..Len(atomics[ins.loc]) /\ view[t][ins.loc] <= i /\ (ins.order = "seq_cst" => sc[ins.loc] <= i)
         /\ OrdersType' /\ program' = program /\ atomics' = atomics
         /\ orderPc' = [orderPc EXCEPT ![t] = IF ins.op = "await" /\ atomics[ins.loc][i].value = 0
                                              THEN orderPc[t] ELSE orderPc[t] + 1]
         /\ z' = IF ins.op = "test" /\ atomics[ins.loc][i].value # 0 THEN z + 1 ELSE z
         /\ \A u \in Orders!Threads : u # t => view'[u] = view[u]
         /\ ins.order = "acquire" => \A l \in Orders!Atomics : view'[t][l] >= atomics[ins.loc][i].known[l]
         /\ \A l \in Orders!Atomics : view'[t][l] >= view[t][l] /\ sc'[l] >= sc[l]
<1>p. PICK loc, before : loc = ins.loc /\ before = Orders!Before(t, ins.order)
  OBVIOUS
<1>q. PICK from, learnt : /\ from = [before EXCEPT ![loc] = i]
                        /\ learnt = IF Orders!Acquires(ins.order) THEN atomics[loc][i].known ELSE Orders!Nothing
  OBVIOUS
<1>r. PICK after : after = Orders!Join(from, learnt)
  OBVIOUS
<1>0. /\ i >= before[loc] /\ view' = [view EXCEPT ![t] = after]
      /\ sc' = IF ins.order = "seq_cst" THEN Orders!Join(sc, after) ELSE sc
      /\ orderPc' = [orderPc EXCEPT ![t] = IF ins.op = "await" /\ atomics[ins.loc][i].value = 0
                                              THEN orderPc[t] ELSE orderPc[t] + 1]
      /\ z' = IF ins.op = "test" /\ atomics[ins.loc][i].value # 0 THEN z + 1 ELSE z
      /\ program' = program /\ atomics' = atomics
  BY <1>p, <1>q, <1>r DEF Orders!Load
<1>1. /\ loc \in Orders!Atomics /\ ins.loc = loc
  BY <1>p DEF Instructions
<1>2. /\ atomics[loc] \in Seq(Stored) /\ i \in 1..Len(atomics[loc]) /\ i \in Nat /\ view[t] \in View /\ sc \in View
      /\ orderPc[t] \in Nat /\ z \in Nat
  <2>1. atomics[loc] \in Seq(Stored) /\ view[t] \in View /\ sc \in View /\ orderPc[t] \in Nat /\ z \in Nat
    BY <1>1 DEF OrdersType
  <2> QED
    BY <1>1, <2>1
<1>3. atomics[loc][i] \in Stored /\ atomics[loc][i].known \in View
  <2>1. atomics[loc][i] \in Stored
    BY <1>2
  <2> QED
    BY <2>1 DEF Stored
<1>4. /\ before \in View /\ \A l \in Orders!Atomics : before[l] \in Nat /\ view[t][l] \in Nat /\ before[l] >= view[t][l]
      /\ ins.order = "seq_cst" => before[loc] >= sc[loc]
  <2>1. \A l \in Orders!Atomics : view[t][l] \in Nat /\ sc[l] \in Nat
    BY <1>2 DEF View
  <2>2. CASE ins.order = "seq_cst"
    <3>1. before = Orders!Join(view[t], sc)
      BY <1>p, <2>2 DEF Orders!Before
    <3>2. before \in View /\ \A l \in Orders!Atomics : before[l] >= view[t][l] /\ before[l] >= sc[l]
      BY <1>2, <3>1, OrdersJoin
    <3> QED
      BY <1>1, <2>1, <3>2 DEF View
  <2>3. CASE ins.order # "seq_cst"
    BY <1>2, <1>p, <2>1, <2>3 DEF Orders!Before
  <2> QED
    BY <2>2, <2>3
<1>5. from \in View /\ from[loc] = i /\ \A l \in Orders!Atomics : l # loc => from[l] = before[l]
  BY <1>1, <1>2, <1>4, <1>q DEF View
<1>6. learnt \in View /\ (ins.order = "acquire" => learnt = atomics[loc][i].known)
  <2>1. Orders!Nothing \in View
    BY DEF Orders!Nothing, View
  <2> QED
    BY <1>3, <1>q, <2>1 DEF Orders!Acquires
<1>7. after \in View /\ \A l \in Orders!Atomics : after[l] >= from[l] /\ after[l] >= learnt[l]
  BY <1>5, <1>6, <1>r, OrdersJoin
<1>8. \A l \in Orders!Atomics : after[l] >= view[t][l]
  <2>1. ASSUME NEW l \in Orders!Atomics PROVE after[l] >= view[t][l]
    <3>1. from[l] >= before[l] /\ from[l] \in Nat /\ after[l] \in Nat /\ after[l] >= from[l]
          /\ before[l] \in Nat /\ view[t][l] \in Nat /\ before[l] >= view[t][l]
      <4>1. from[l] \in Nat /\ after[l] \in Nat
        BY <1>5, <1>7 DEF View
      <4>2. from[l] >= before[l]
        <5>1. CASE l = loc
          BY <1>0, <1>5, <5>1
        <5>2. CASE l # loc
          <6>1. from[l] = before[l] /\ before[l] \in Nat
            BY <1>4, <1>5, <5>2
          <6> QED
            BY <6>1
        <5> QED
          BY <5>1, <5>2
      <4> QED
        BY <1>4, <1>7, <4>1, <4>2
    <3> QED
      BY <3>1, SMT
  <2> QED
    BY <2>1
<1>9. view' \in [Orders!Threads -> View] /\ view'[t] = after /\ \A u \in Orders!Threads : u # t => view'[u] = view[u]
  BY <1>0, <1>7 DEF OrdersType
<1>10. sc' \in View /\ \A l \in Orders!Atomics : sc'[l] >= sc[l]
  <2>1. CASE ins.order = "seq_cst"
    BY <1>0, <1>2, <1>7, <2>1, OrdersJoin
  <2>2. CASE ins.order # "seq_cst"
    <3>1. \A l \in Orders!Atomics : sc[l] \in Nat
      BY <1>2 DEF View
    <3> QED
      BY <1>0, <1>2, <2>2, <3>1
  <2> QED
    BY <2>1, <2>2
<1>11. orderPc' \in [Orders!Threads -> Nat] /\ z' \in Nat
  <2>1. orderPc[t] + 1 \in Nat /\ z + 1 \in Nat
    BY <1>2
  <2>2. z' \in Nat
    BY <1>0, <1>2, <2>1
  <2>3. (IF ins.op = "await" /\ atomics[ins.loc][i].value = 0 THEN orderPc[t] ELSE orderPc[t] + 1) \in Nat
    BY <1>2, <2>1
  <2> QED
    BY <1>0, <2>2, <2>3 DEF OrdersType
<1>12. OrdersType'
  BY <1>0, <1>9, <1>10, <1>11 DEF OrdersType
<1>13. view[t][loc] <= i /\ (ins.order = "seq_cst" => sc[loc] <= i)
  <2>1. view[t][loc] \in Nat /\ sc[loc] \in Nat /\ before[loc] \in Nat
    BY <1>1, <1>2, <1>4 DEF View
  <2> QED
    BY <1>0, <1>1, <1>2, <1>4, <2>1
<1> QED
  BY <1>0, <1>1, <1>2, <1>6, <1>7, <1>8, <1>9, <1>10, <1>12, <1>13

\* The fields of an instruction.
LEMMA OrdersDo ==
  ASSUME NEW op \in {"store", "await", "test"}, NEW loc \in Orders!Atomics, NEW value \in Int,
         NEW mo \in {"relaxed", "acquire", "release", "seq_cst"}, NEW ins, ins = Orders!Do(op, loc, value, mo)
  PROVE  ins \in Instructions /\ ins.op = op /\ ins.loc = loc /\ ins.value = value /\ ins.order = mo
  BY DEF Orders!Do, Instructions

\* A step is a store or a load of a thread that is not at its end.
LEMMA OrdersThread ==
  ASSUME Orders!Next
  PROVE  \E t \in Orders!Threads :
           /\ orderPc[t] <= Len(Orders!Code(t))
           /\ \/ Orders!Code(t)[orderPc[t]].op = "store" /\ Orders!Store(t)
              \/ /\ Orders!Code(t)[orderPc[t]].op # "store"
                 /\ \E i \in DOMAIN atomics[Orders!Code(t)[orderPc[t]].loc] : Orders!Load(t, i)
<1>1. PICK t \in Orders!Threads :
         \/ Orders!Store(t)
         \/ /\ orderPc[t] <= Len(Orders!Code(t)) /\ Orders!Code(t)[orderPc[t]].op # "store"
            /\ \E i \in DOMAIN atomics[Orders!Code(t)[orderPc[t]].loc] : Orders!Load(t, i)
  BY DEF Orders!Next
<1>2. CASE Orders!Store(t)
  <2>1. orderPc[t] <= Len(Orders!Code(t)) /\ Orders!Code(t)[orderPc[t]].op = "store"
    BY <1>2 DEF Orders!Store
  <2> QED
    BY <1>2, <2>1
<1> QED
  BY <1>1, <1>2

\* acquire_release.cc.
LEMMA OrdersAcquireRelease ==
  ASSUME AcquireReleaseInv, program = "acquire_release", Orders!Next PROVE AcquireReleaseInv'
<1>0. /\ OrdersType /\ orderPc["a"] \in 1..3 /\ orderPc["b"] \in 1..3 /\ orderPc["c"] = 1 /\ orderPc["d"] = 1
      /\ Len(atomics["x"]) = (IF orderPc["a"] = 1 THEN 1 ELSE 2)
      /\ Len(atomics["y"]) = (IF orderPc["a"] = 3 THEN 2 ELSE 1)
      /\ atomics["y"][1].value = 0
      /\ orderPc["a"] # 1 => atomics["x"][2].value = 1 /\ view["a"]["x"] = 2
      /\ orderPc["a"] = 3 => atomics["y"][2].known["x"] = 2
      /\ orderPc["b"] # 1 => view["b"]["x"] >= 2
      /\ z = (IF orderPc["b"] = 3 THEN 1 ELSE 0)
  BY DEF AcquireReleaseInv
<1>1. /\ "a" \in Orders!Threads /\ "b" \in Orders!Threads /\ "c" \in Orders!Threads /\ "d" \in Orders!Threads
      /\ "x" \in Orders!Atomics /\ "y" \in Orders!Atomics /\ orderPc \in [Orders!Threads -> Nat]
  BY <1>0 DEF Orders!Threads, Orders!Atomics, OrdersType
<1>2. PICK t \in Orders!Threads :
         /\ orderPc[t] <= Len(Orders!Code(t))
         /\ \/ Orders!Code(t)[orderPc[t]].op = "store" /\ Orders!Store(t)
            \/ /\ Orders!Code(t)[orderPc[t]].op # "store"
               /\ \E i \in DOMAIN atomics[Orders!Code(t)[orderPc[t]].loc] : Orders!Load(t, i)
  BY OrdersThread
<1>3. PICK ins : ins = Orders!Code(t)[orderPc[t]]
  OBVIOUS
<1>4. /\ Orders!Code("a") = <<Orders!Do("store", "x", 1, "relaxed"), Orders!Do("store", "y", 1, "release")>>
      /\ Orders!Code("b") = <<Orders!Do("await", "y", 1, "acquire"), Orders!Do("test", "x", 1, "relaxed")>>
      /\ Orders!Code("c") = <<>> /\ Orders!Code("d") = <<>>
  BY OrdersCode
<1>5. t \in {"a", "b"}
  <2>1. Len(<<>>) = 0
    OBVIOUS
  <2>2. t # "c" /\ t # "d"
    BY <1>0, <1>2, <1>4, <2>1
  <2> QED
    BY <2>2 DEF Orders!Threads
<1>6. CASE t = "a" /\ orderPc["a"] = 1
  <2>1. ins = Orders!Do("store", "x", 1, "relaxed")
    BY <1>3, <1>4, <1>6
  <2>2. ins \in Instructions /\ ins.op = "store" /\ ins.loc = "x" /\ ins.value = 1 /\ ins.order = "relaxed"
    BY <1>1, <2>1, OrdersDo
  <2>3. Orders!Store(t)
    BY <1>2, <1>3, <2>2
  <2>4. /\ OrdersType' /\ program' = program /\ z' = z /\ orderPc' = [orderPc EXCEPT !["a"] = 2]
        /\ atomics'["y"] = atomics["y"] /\ Len(atomics'["x"]) = 2 /\ atomics'["x"][2].value = 1
        /\ view'["a"]["x"] = 2 /\ view'["b"] = view["b"]
    <3>1. Len(atomics["x"]) = 1 /\ 1 + 1 = 2
      BY <1>0, <1>6
    <3>2. "x" # "y" /\ "a" # "b" /\ "relaxed" # "seq_cst"
      OBVIOUS
    <3>q. StoreDone(t, ins)
      BY <1>0, <1>3, <2>2, <2>3, OrdersStore
    <3>3. /\ OrdersType' /\ program' = program /\ z' = z /\ orderPc' = [orderPc EXCEPT !["a"] = orderPc["a"] + 1]
          /\ \A l \in Orders!Atomics : l # "x" => atomics'[l] = atomics[l]
          /\ Len(atomics'["x"]) = Len(atomics["x"]) + 1
          /\ atomics'["x"][Len(atomics["x"]) + 1].value = 1
          /\ view'["a"]["x"] = Len(atomics["x"]) + 1
          /\ \A u \in Orders!Threads : u # "a" => view'[u] = view[u]
      BY <1>6, <2>2, <3>q DEF StoreDone
    <3> QED
      BY <1>1, <1>6, <3>1, <3>2, <3>3
  <2>5. orderPc'["a"] = 2 /\ orderPc'["b"] = orderPc["b"] /\ orderPc'["c"] = 1 /\ orderPc'["d"] = 1
    BY <1>0, <1>1, <2>4
  <2>6. /\ orderPc'["a"] \in 1..3 /\ orderPc'["b"] \in 1..3
        /\ Len(atomics'["x"]) = (IF orderPc'["a"] = 1 THEN 1 ELSE 2)
        /\ Len(atomics'["y"]) = (IF orderPc'["a"] = 3 THEN 2 ELSE 1)
    <3>1. Len(atomics["y"]) = 1 /\ orderPc["b"] \in 1..3 /\ 2 \in 1..3 /\ 3 \in 1..3 /\ 2 # 3 /\ 2 # 1 /\ 3 # 1
      BY <1>0, <1>6
    <3> QED
      BY <2>4, <2>5, <3>1
  <2>7. /\ atomics'["y"][1].value = 0 /\ atomics'["x"][2].value = 1 /\ view'["a"]["x"] = 2
        /\ orderPc'["a"] = 3 => atomics'["y"][2].known["x"] = 2
    BY <1>0, <1>6, <2>4, <2>5
  <2>8. (orderPc'["b"] # 1 => view'["b"]["x"] >= 2) /\ z' = (IF orderPc'["b"] = 3 THEN 1 ELSE 0)
    BY <1>0, <2>4, <2>5
  <2> QED
    BY <2>4, <2>5, <2>6, <2>7, <2>8 DEF AcquireReleaseInv
<1>7. CASE t = "a" /\ orderPc["a"] = 2
  <2>1. ins = Orders!Do("store", "y", 1, "release")
    BY <1>3, <1>4, <1>7
  <2>2. ins \in Instructions /\ ins.op = "store" /\ ins.loc = "y" /\ ins.value = 1 /\ ins.order = "release"
    BY <1>1, <2>1, OrdersDo
  <2>3. Orders!Store(t)
    BY <1>2, <1>3, <2>2
  <2>4. /\ OrdersType' /\ program' = program /\ z' = z /\ orderPc' = [orderPc EXCEPT !["a"] = 3]
        /\ atomics'["x"] = atomics["x"] /\ Len(atomics'["y"]) = 2 /\ atomics'["y"][1] = atomics["y"][1]
        /\ atomics'["y"][2].known["x"] = view["a"]["x"]
        /\ view'["a"]["x"] = view["a"]["x"] /\ view'["b"] = view["b"]
    <3>1. Len(atomics["y"]) = 1 /\ 1 + 1 = 2 /\ 2 + 1 = 3 /\ 1 \in 1..1
      BY <1>0, <1>7
    <3>2. "x" # "y" /\ "a" # "b" /\ "release" # "seq_cst"
      OBVIOUS
    <3>q. StoreDone(t, ins)
      BY <1>0, <1>3, <2>2, <2>3, OrdersStore
    <3>3. /\ OrdersType' /\ program' = program /\ z' = z /\ orderPc' = [orderPc EXCEPT !["a"] = orderPc["a"] + 1]
          /\ \A l \in Orders!Atomics : l # "y" => atomics'[l] = atomics[l]
          /\ Len(atomics'["y"]) = Len(atomics["y"]) + 1
          /\ \A k \in 1..Len(atomics["y"]) : atomics'["y"][k] = atomics["y"][k]
          /\ \A l \in Orders!Atomics : l # "y" => atomics'["y"][Len(atomics["y"]) + 1].known[l] = view["a"][l]
          /\ \A l \in Orders!Atomics : l # "y" => view'["a"][l] = view["a"][l]
          /\ \A u \in Orders!Threads : u # "a" => view'[u] = view[u]
      BY <1>7, <2>2, <3>2, <3>q DEF StoreDone
    <3> QED
      BY <1>1, <1>7, <3>1, <3>2, <3>3
  <2>5. orderPc'["a"] = 3 /\ orderPc'["b"] = orderPc["b"] /\ orderPc'["c"] = 1 /\ orderPc'["d"] = 1
    BY <1>0, <1>1, <2>4
  <2>6. /\ orderPc'["a"] \in 1..3 /\ orderPc'["b"] \in 1..3
        /\ Len(atomics'["x"]) = (IF orderPc'["a"] = 1 THEN 1 ELSE 2)
        /\ Len(atomics'["y"]) = (IF orderPc'["a"] = 3 THEN 2 ELSE 1)
    <3>1. Len(atomics["x"]) = 2 /\ orderPc["b"] \in 1..3 /\ 2 \in 1..3 /\ 3 \in 1..3 /\ 2 # 3 /\ 2 # 1 /\ 3 # 1
      BY <1>0, <1>7
    <3> QED
      BY <2>4, <2>5, <3>1
  <2>7. /\ atomics'["y"][1].value = 0 /\ atomics'["x"][2].value = 1 /\ view'["a"]["x"] = 2
        /\ orderPc'["a"] = 3 => atomics'["y"][2].known["x"] = 2
    BY <1>0, <1>7, <2>4, <2>5
  <2>8. (orderPc'["b"] # 1 => view'["b"]["x"] >= 2) /\ z' = (IF orderPc'["b"] = 3 THEN 1 ELSE 0)
    BY <1>0, <2>4, <2>5
  <2> QED
    BY <2>4, <2>5, <2>6, <2>7, <2>8 DEF AcquireReleaseInv
<1>8. CASE t = "b" /\ orderPc["b"] = 1
  <2>1. ins = Orders!Do("await", "y", 1, "acquire")
    BY <1>3, <1>4, <1>8
  <2>2. ins \in Instructions /\ ins.op = "await" /\ ins.loc = "y" /\ ins.value = 1 /\ ins.order = "acquire"
    BY <1>1, <2>1, OrdersDo
  <2>3. PICK i \in DOMAIN atomics[ins.loc] : Orders!Load(t, i)
    BY <1>2, <1>3, <2>2
  <2>4. /\ i \in 1..Len(atomics["y"]) /\ OrdersType' /\ program' = program /\ atomics' = atomics /\ z' = z
        /\ orderPc' = [orderPc EXCEPT !["b"] = IF atomics["y"][i].value = 0 THEN 1 ELSE 2]
        /\ view'["a"] = view["a"] /\ view'["b"]["x"] >= atomics["y"][i].known["x"]
    <3>1. "await" # "test" /\ 1 + 1 = 2 /\ "a" # "b"
      OBVIOUS
    <3> QED
      BY <1>0, <1>1, <1>3, <1>8, <2>2, <2>3, <3>1, OrdersLoad, SMTT(30)
  <2>5. orderPc'["a"] = orderPc["a"] /\ orderPc'["c"] = 1 /\ orderPc'["d"] = 1
    BY <1>0, <1>1, <2>4
  <2>6. CASE atomics["y"][i].value = 0
    <3>1. orderPc'["b"] = 1
      BY <1>1, <2>4, <2>6
    <3> QED
      BY <1>0, <1>8, <2>4, <2>5, <3>1 DEF AcquireReleaseInv
  <2>7. CASE atomics["y"][i].value # 0
    <3>1. orderPc'["b"] = 2
      BY <1>1, <2>4, <2>7
    <3>2. i = 2 /\ orderPc["a"] = 3
      BY <1>0, <2>4, <2>7
    <3>3. view'["b"]["x"] >= 2
      BY <1>0, <2>4, <3>2
    <3> QED
      BY <1>0, <1>8, <2>4, <2>5, <3>1, <3>3 DEF AcquireReleaseInv
  <2> QED
    BY <2>6, <2>7
<1>9. CASE t = "b" /\ orderPc["b"] = 2
  <2>1. ins = Orders!Do("test", "x", 1, "relaxed")
    BY <1>3, <1>4, <1>9
  <2>2. ins \in Instructions /\ ins.op = "test" /\ ins.loc = "x" /\ ins.value = 1 /\ ins.order = "relaxed"
    BY <1>1, <2>1, OrdersDo
  <2>3. PICK i \in DOMAIN atomics[ins.loc] : Orders!Load(t, i)
    BY <1>2, <1>3, <2>2
  <2>4. /\ i \in 1..Len(atomics["x"]) /\ view["b"]["x"] <= i
        /\ OrdersType' /\ program' = program /\ atomics' = atomics
        /\ z' = IF atomics["x"][i].value # 0 THEN z + 1 ELSE z
        /\ orderPc' = [orderPc EXCEPT !["b"] = 3]
        /\ view'["a"] = view["a"] /\ view'["b"]["x"] >= view["b"]["x"]
    <3>1. "await" # "test" /\ 2 + 1 = 3 /\ "a" # "b"
      OBVIOUS
    <3> QED
      BY <1>0, <1>1, <1>3, <1>9, <2>2, <2>3, <3>1, OrdersLoad
  <2>5. orderPc'["a"] = orderPc["a"] /\ orderPc'["b"] = 3 /\ orderPc'["c"] = 1 /\ orderPc'["d"] = 1
    BY <1>0, <1>1, <2>4
  <2>6. view["b"]["x"] \in Nat /\ view'["b"]["x"] \in Nat
    <3>1. view["b"] \in View /\ view'["b"] \in View
      BY <1>0, <1>1, <2>4 DEF OrdersType
    <3> QED
      BY <1>1, <3>1 DEF View
  <2>7. i = 2 /\ orderPc["a"] # 1 /\ view'["b"]["x"] >= 2
    BY <1>0, <1>9, <2>4, <2>6
  <2>8. z' = 1
    BY <1>0, <1>9, <2>4, <2>7
  <2> QED
    BY <1>0, <1>9, <2>4, <2>5, <2>7, <2>8 DEF AcquireReleaseInv
<1>10. orderPc[t] <= 2
  <2>1. Len(<<Orders!Do("store", "x", 1, "relaxed"), Orders!Do("store", "y", 1, "release")>>) = 2
    OBVIOUS
  <2>2. Len(<<Orders!Do("await", "y", 1, "acquire"), Orders!Do("test", "x", 1, "relaxed")>>) = 2
    OBVIOUS
  <2> QED
    BY <1>2, <1>4, <1>5, <2>1, <2>2
<1> QED
  BY <1>0, <1>5, <1>6, <1>7, <1>8, <1>9, <1>10

\* seq_cst.cc.
LEMMA OrdersSeqCst ==
  ASSUME SeqCstInv, program = "seq_cst", Orders!Next PROVE SeqCstInv'
<1>0. /\ OrdersType /\ orderPc["a"] \in 1..2 /\ orderPc["b"] \in 1..2 /\ orderPc["c"] \in 1..3 /\ orderPc["d"] \in 1..3
      /\ Len(atomics["x"]) = orderPc["a"] /\ Len(atomics["y"]) = orderPc["b"]
      /\ sc["x"] >= orderPc["a"] /\ sc["y"] >= orderPc["b"]
      /\ atomics["x"][1].value = 0 /\ atomics["y"][1].value = 0
      /\ orderPc["a"] = 2 => atomics["x"][2].value = 1
      /\ orderPc["b"] = 2 => atomics["y"][2].value = 1
      /\ orderPc["c"] # 1 => orderPc["a"] = 2
      /\ orderPc["d"] # 1 => orderPc["b"] = 2
      /\ orderPc["c"] = 3 /\ orderPc["d"] = 3 => z # 0
  BY DEF SeqCstInv
<1>1. /\ "a" \in Orders!Threads /\ "b" \in Orders!Threads /\ "c" \in Orders!Threads /\ "d" \in Orders!Threads
      /\ "x" \in Orders!Atomics /\ "y" \in Orders!Atomics /\ orderPc \in [Orders!Threads -> Nat] /\ z \in Nat
      /\ sc["x"] \in Nat /\ sc["y"] \in Nat
  BY <1>0 DEF Orders!Threads, Orders!Atomics, OrdersType, View
<1>2. PICK t \in Orders!Threads :
         /\ orderPc[t] <= Len(Orders!Code(t))
         /\ \/ Orders!Code(t)[orderPc[t]].op = "store" /\ Orders!Store(t)
            \/ /\ Orders!Code(t)[orderPc[t]].op # "store"
               /\ \E i \in DOMAIN atomics[Orders!Code(t)[orderPc[t]].loc] : Orders!Load(t, i)
  BY OrdersThread
<1>3. PICK ins : ins = Orders!Code(t)[orderPc[t]]
  OBVIOUS
<1>4. /\ Orders!Code("a") = <<Orders!Do("store", "x", 1, "seq_cst")>>
      /\ Orders!Code("b") = <<Orders!Do("store", "y", 1, "seq_cst")>>
      /\ Orders!Code("c") = <<Orders!Do("await", "x", 1, "seq_cst"), Orders!Do("test", "y", 1, "seq_cst")>>
      /\ Orders!Code("d") = <<Orders!Do("await", "y", 1, "seq_cst"), Orders!Do("test", "x", 1, "seq_cst")>>
  BY OrdersCode
<1>5. CASE t = "a"
  <2>0. orderPc["a"] = 1
    <3>1. Len(<<Orders!Do("store", "x", 1, "seq_cst")>>) = 1
      OBVIOUS
    <3> QED
      BY <1>0, <1>2, <1>4, <1>5, <3>1
  <2>1. ins = Orders!Do("store", "x", 1, "seq_cst")
    BY <1>3, <1>4, <1>5, <2>0
  <2>2. ins \in Instructions /\ ins.op = "store" /\ ins.loc = "x" /\ ins.value = 1 /\ ins.order = "seq_cst"
    BY <1>1, <2>1, OrdersDo
  <2>3. Orders!Store(t)
    BY <1>2, <1>3, <2>2
  <2>4. StoreDone(t, ins)
    BY <1>0, <1>3, <2>2, <2>3, OrdersStore
  <2>5. /\ OrdersType' /\ program' = program /\ z' = z /\ orderPc' = [orderPc EXCEPT !["a"] = orderPc["a"] + 1]
        /\ \A l \in Orders!Atomics : l # "x" => atomics'[l] = atomics[l]
        /\ Len(atomics'["x"]) = Len(atomics["x"]) + 1
        /\ \A k \in 1..Len(atomics["x"]) : atomics'["x"][k] = atomics["x"][k]
        /\ atomics'["x"][Len(atomics["x"]) + 1].value = 1
        /\ \A l \in Orders!Atomics : sc'[l] >= sc[l]
        /\ sc'["x"] >= Len(atomics["x"]) + 1
    BY <1>5, <2>2, <2>4 DEF StoreDone
  <2>6. sc'["x"] \in Nat /\ sc'["y"] \in Nat
    BY <1>1, <2>5 DEF OrdersType, View
  <2>7. /\ Len(atomics["x"]) = 1 /\ 1 + 1 = 2 /\ 1 \in 1..1 /\ 2 \in 1..2 /\ 2 # 1 /\ "x" # "y"
    BY <1>0, <2>0
  <2>8. /\ orderPc'["a"] = 2 /\ orderPc'["b"] = orderPc["b"]
        /\ orderPc'["c"] = orderPc["c"] /\ orderPc'["d"] = orderPc["d"]
    BY <1>1, <2>0, <2>5, <2>7
  <2>9. /\ Len(atomics'["x"]) = 2 /\ atomics'["x"][1].value = 0 /\ atomics'["x"][2].value = 1
        /\ atomics'["y"] = atomics["y"]
    BY <1>0, <1>1, <2>5, <2>7
  <2>10. sc'["x"] >= 2 /\ sc'["y"] >= orderPc["b"]
    BY <1>0, <1>1, <2>5, <2>6, <2>7
  <2>11. SeqCstInv'
    BY <1>0, <2>5, <2>7, <2>8, <2>9, <2>10 DEF SeqCstInv
  <2> QED
    BY <2>11
<1>6. CASE t = "b"
  <2>0. orderPc["b"] = 1
    <3>1. Len(<<Orders!Do("store", "y", 1, "seq_cst")>>) = 1
      OBVIOUS
    <3> QED
      BY <1>0, <1>2, <1>4, <1>6, <3>1
  <2>1. ins = Orders!Do("store", "y", 1, "seq_cst")
    BY <1>3, <1>4, <1>6, <2>0
  <2>2. ins \in Instructions /\ ins.op = "store" /\ ins.loc = "y" /\ ins.value = 1 /\ ins.order = "seq_cst"
    BY <1>1, <2>1, OrdersDo
  <2>3. Orders!Store(t)
    BY <1>2, <1>3, <2>2
  <2>4. StoreDone(t, ins)
    BY <1>0, <1>3, <2>2, <2>3, OrdersStore
  <2>5. /\ OrdersType' /\ program' = program /\ z' = z /\ orderPc' = [orderPc EXCEPT !["b"] = orderPc["b"] + 1]
        /\ \A l \in Orders!Atomics : l # "y" => atomics'[l] = atomics[l]
        /\ Len(atomics'["y"]) = Len(atomics["y"]) + 1
        /\ \A k \in 1..Len(atomics["y"]) : atomics'["y"][k] = atomics["y"][k]
        /\ atomics'["y"][Len(atomics["y"]) + 1].value = 1
        /\ \A l \in Orders!Atomics : sc'[l] >= sc[l]
        /\ sc'["y"] >= Len(atomics["y"]) + 1
    BY <1>6, <2>2, <2>4 DEF StoreDone
  <2>6. sc'["x"] \in Nat /\ sc'["y"] \in Nat
    BY <1>1, <2>5 DEF OrdersType, View
  <2>7. /\ Len(atomics["y"]) = 1 /\ 1 + 1 = 2 /\ 1 \in 1..1 /\ 2 \in 1..2 /\ 2 # 1 /\ "x" # "y"
    BY <1>0, <2>0
  <2>8. /\ orderPc'["b"] = 2 /\ orderPc'["a"] = orderPc["a"]
        /\ orderPc'["c"] = orderPc["c"] /\ orderPc'["d"] = orderPc["d"]
    BY <1>1, <2>0, <2>5, <2>7
  <2>9. /\ Len(atomics'["y"]) = 2 /\ atomics'["y"][1].value = 0 /\ atomics'["y"][2].value = 1
        /\ atomics'["x"] = atomics["x"]
    BY <1>0, <1>1, <2>5, <2>7
  <2>10. sc'["y"] >= 2 /\ sc'["x"] >= orderPc["a"]
    BY <1>0, <1>1, <2>5, <2>6, <2>7
  <2>11. SeqCstInv'
    BY <1>0, <2>5, <2>7, <2>8, <2>9, <2>10 DEF SeqCstInv
  <2> QED
    BY <2>11
<1>7. CASE t = "c" /\ orderPc["c"] = 1
  <2>1. ins = Orders!Do("await", "x", 1, "seq_cst")
    BY <1>3, <1>4, <1>7
  <2>2. ins \in Instructions /\ ins.op = "await" /\ ins.loc = "x" /\ ins.value = 1 /\ ins.order = "seq_cst"
    BY <1>1, <2>1, OrdersDo
  <2>3. PICK i \in DOMAIN atomics[ins.loc] : Orders!Load(t, i)
    BY <1>2, <1>3, <2>2
  <2>4. /\ i \in 1..Len(atomics["x"]) /\ sc["x"] <= i
        /\ OrdersType' /\ program' = program /\ atomics' = atomics /\ z' = z
        /\ orderPc' = [orderPc EXCEPT !["c"] = IF atomics["x"][i].value = 0 THEN 1 ELSE 2]
        /\ \A l \in Orders!Atomics : sc'[l] >= sc[l]
    <3>1. "await" # "test" /\ 1 + 1 = 2
      OBVIOUS
    <3> QED
      BY <1>0, <1>1, <1>3, <1>7, <2>2, <2>3, <3>1, OrdersLoad, SMTT(30)
  <2>5. orderPc'["a"] = orderPc["a"] /\ orderPc'["b"] = orderPc["b"] /\ orderPc'["d"] = orderPc["d"]
    BY <1>1, <2>4
  <2>6. sc'["x"] >= orderPc["a"] /\ sc'["y"] >= orderPc["b"]
    <3>1. sc'["x"] \in Nat /\ sc'["y"] \in Nat
      BY <1>1, <2>4 DEF OrdersType, View
    <3> QED
      BY <1>0, <1>1, <2>4, <3>1, SMTT(30)
  <2>7. orderPc'["c"] = 1 \/ (orderPc'["c"] = 2 /\ orderPc["a"] = 2)
    <3>1. CASE atomics["x"][i].value = 0
      BY <1>1, <2>4, <3>1
    <3>2. CASE atomics["x"][i].value # 0
      <4>1. orderPc'["c"] = 2
        BY <1>1, <2>4, <3>2
      <4>2. i = 2 /\ orderPc["a"] = 2
        BY <1>0, <2>4, <3>2
      <4> QED
        BY <4>1, <4>2
    <3> QED
      BY <3>1, <3>2
  <2>8. orderPc'["c"] \in 1..3 /\ orderPc'["c"] # 3
    BY <2>7
  <2>9. SeqCstInv'
    BY <1>0, <2>4, <2>5, <2>6, <2>7, <2>8 DEF SeqCstInv
  <2> QED
    BY <2>9
<1>8. CASE t = "c" /\ orderPc["c"] = 2
  <2>1. ins = Orders!Do("test", "y", 1, "seq_cst")
    BY <1>3, <1>4, <1>8
  <2>2. ins \in Instructions /\ ins.op = "test" /\ ins.loc = "y" /\ ins.value = 1 /\ ins.order = "seq_cst"
    BY <1>1, <2>1, OrdersDo
  <2>3. PICK i \in DOMAIN atomics[ins.loc] : Orders!Load(t, i)
    BY <1>2, <1>3, <2>2
  <2>4. /\ i \in 1..Len(atomics["y"]) /\ sc["y"] <= i
        /\ OrdersType' /\ program' = program /\ atomics' = atomics
        /\ z' = IF atomics["y"][i].value # 0 THEN z + 1 ELSE z
        /\ orderPc' = [orderPc EXCEPT !["c"] = 3]
        /\ \A l \in Orders!Atomics : sc'[l] >= sc[l]
    <3>1. "await" # "test" /\ 2 + 1 = 3
      OBVIOUS
    <3> QED
      BY <1>0, <1>1, <1>3, <1>8, <2>2, <2>3, <3>1, OrdersLoad, SMTT(30)
  <2>5. /\ orderPc'["a"] = orderPc["a"] /\ orderPc'["b"] = orderPc["b"] /\ orderPc'["d"] = orderPc["d"]
        /\ orderPc'["c"] = 3
    BY <1>1, <2>4
  <2>6. sc'["x"] >= orderPc["a"] /\ sc'["y"] >= orderPc["b"]
    <3>1. sc'["x"] \in Nat /\ sc'["y"] \in Nat
      BY <1>1, <2>4 DEF OrdersType, View
    <3> QED
      BY <1>0, <1>1, <2>4, <3>1
  <2>7. orderPc["d"] = 3 => z' # 0
    <3>1. SUFFICES ASSUME orderPc["d"] = 3 PROVE z' # 0
      OBVIOUS
    <3>2. orderPc["b"] = 2 /\ i = 2
      BY <1>0, <1>1, <2>4, <3>1
    <3>3. z' = z + 1
      BY <1>0, <2>4, <3>2
    <3> QED
      BY <1>1, <3>3
  <2>8. 3 \in 1..3 /\ orderPc["a"] = 2
    BY <1>0, <1>8
  <2>9. SeqCstInv'
    BY <1>0, <2>4, <2>5, <2>6, <2>7, <2>8 DEF SeqCstInv
  <2> QED
    BY <2>9
<1>9. CASE t = "d" /\ orderPc["d"] = 1
  <2>1. ins = Orders!Do("await", "y", 1, "seq_cst")
    BY <1>3, <1>4, <1>9
  <2>2. ins \in Instructions /\ ins.op = "await" /\ ins.loc = "y" /\ ins.value = 1 /\ ins.order = "seq_cst"
    BY <1>1, <2>1, OrdersDo
  <2>3. PICK i \in DOMAIN atomics[ins.loc] : Orders!Load(t, i)
    BY <1>2, <1>3, <2>2
  <2>4. /\ i \in 1..Len(atomics["y"]) /\ sc["y"] <= i
        /\ OrdersType' /\ program' = program /\ atomics' = atomics /\ z' = z
        /\ orderPc' = [orderPc EXCEPT !["d"] = IF atomics["y"][i].value = 0 THEN 1 ELSE 2]
        /\ \A l \in Orders!Atomics : sc'[l] >= sc[l]
    <3>1. "await" # "test" /\ 1 + 1 = 2
      OBVIOUS
    <3> QED
      BY <1>0, <1>1, <1>3, <1>9, <2>2, <2>3, <3>1, OrdersLoad
  <2>5. orderPc'["a"] = orderPc["a"] /\ orderPc'["b"] = orderPc["b"] /\ orderPc'["c"] = orderPc["c"]
    BY <1>1, <2>4
  <2>6. sc'["x"] >= orderPc["a"] /\ sc'["y"] >= orderPc["b"]
    <3>1. sc'["x"] \in Nat /\ sc'["y"] \in Nat
      BY <1>1, <2>4 DEF OrdersType, View
    <3> QED
      BY <1>0, <1>1, <2>4, <3>1
  <2>7. orderPc'["d"] = 1 \/ (orderPc'["d"] = 2 /\ orderPc["b"] = 2)
    <3>1. CASE atomics["y"][i].value = 0
      BY <1>1, <2>4, <3>1
    <3>2. CASE atomics["y"][i].value # 0
      <4>1. orderPc'["d"] = 2
        BY <1>1, <2>4, <3>2
      <4>2. i = 2 /\ orderPc["b"] = 2
        BY <1>0, <2>4, <3>2
      <4> QED
        BY <4>1, <4>2
    <3> QED
      BY <3>1, <3>2
  <2>8. orderPc'["d"] \in 1..3 /\ orderPc'["d"] # 3
    BY <2>7
  <2>9. SeqCstInv'
    BY <1>0, <2>4, <2>5, <2>6, <2>7, <2>8 DEF SeqCstInv
  <2> QED
    BY <2>9
<1>10. CASE t = "d" /\ orderPc["d"] = 2
  <2>1. ins = Orders!Do("test", "x", 1, "seq_cst")
    BY <1>3, <1>4, <1>10
  <2>2. ins \in Instructions /\ ins.op = "test" /\ ins.loc = "x" /\ ins.value = 1 /\ ins.order = "seq_cst"
    BY <1>1, <2>1, OrdersDo
  <2>3. PICK i \in DOMAIN atomics[ins.loc] : Orders!Load(t, i)
    BY <1>2, <1>3, <2>2
  <2>4. /\ i \in 1..Len(atomics["x"]) /\ sc["x"] <= i
        /\ OrdersType' /\ program' = program /\ atomics' = atomics
        /\ z' = IF atomics["x"][i].value # 0 THEN z + 1 ELSE z
        /\ orderPc' = [orderPc EXCEPT !["d"] = 3]
        /\ \A l \in Orders!Atomics : sc'[l] >= sc[l]
    <3>1. "await" # "test" /\ 2 + 1 = 3
      OBVIOUS
    <3> QED
      BY <1>0, <1>1, <1>3, <1>10, <2>2, <2>3, <3>1, OrdersLoad, SMTT(30)
  <2>5. /\ orderPc'["a"] = orderPc["a"] /\ orderPc'["b"] = orderPc["b"] /\ orderPc'["c"] = orderPc["c"]
        /\ orderPc'["d"] = 3
    BY <1>1, <2>4
  <2>6. sc'["x"] >= orderPc["a"] /\ sc'["y"] >= orderPc["b"]
    <3>1. sc'["x"] \in Nat /\ sc'["y"] \in Nat
      BY <1>1, <2>4 DEF OrdersType, View
    <3> QED
      BY <1>0, <1>1, <2>4, <3>1
  <2>7. orderPc["c"] = 3 => z' # 0
    <3>1. SUFFICES ASSUME orderPc["c"] = 3 PROVE z' # 0
      OBVIOUS
    <3>2. orderPc["a"] = 2 /\ i = 2
      BY <1>0, <1>1, <2>4, <3>1
    <3>3. z' = z + 1
      BY <1>0, <2>4, <3>2
    <3> QED
      BY <1>1, <3>3
  <2>8. 3 \in 1..3 /\ orderPc["b"] = 2
    BY <1>0, <1>10
  <2>9. SeqCstInv'
    BY <1>0, <2>4, <2>5, <2>6, <2>7, <2>8 DEF SeqCstInv
  <2> QED
    BY <2>9
<1>11. ASSUME t \in {"c", "d"} PROVE orderPc[t] <= 2 /\ orderPc[t] \in 1..3
  <2>1. Len(<<Orders!Do("await", "x", 1, "seq_cst"), Orders!Do("test", "y", 1, "seq_cst")>>) = 2
    OBVIOUS
  <2>2. Len(<<Orders!Do("await", "y", 1, "seq_cst"), Orders!Do("test", "x", 1, "seq_cst")>>) = 2
    OBVIOUS
  <2> QED
    BY <1>0, <1>2, <1>4, <1>11, <2>1, <2>2
<1> QED
  BY <1>5, <1>6, <1>7, <1>8, <1>9, <1>10, <1>11 DEF Orders!Threads

\* relaxed_test.cc.
LEMMA OrdersRelaxedTest ==
  ASSUME RelaxedTestInv, program = "relaxed_test", Orders!Next PROVE RelaxedTestInv'
<1>0. /\ OrdersType /\ orderPc["c"] = 1 /\ orderPc["d"] = 1
      /\ orderPc["a"] \in 1..(Iterations + 1) /\ orderPc["b"] \in 1..(Iterations + 1)
      /\ Len(atomics["x"]) # 0
      /\ \/ orderPc["a"] = 1 /\ orderPc["b"] = 1
         \/ orderPc["a"] # 1 /\ atomics["x"][Len(atomics["x"])].value = orderPc["a"] - 2
         \/ orderPc["b"] # 1 /\ atomics["x"][Len(atomics["x"])].value = 2 - orderPc["b"]
  BY DEF RelaxedTestInv
<1>1. /\ "a" \in Orders!Threads /\ "b" \in Orders!Threads /\ "c" \in Orders!Threads /\ "d" \in Orders!Threads
      /\ "x" \in Orders!Atomics /\ orderPc \in [Orders!Threads -> Nat] /\ Iterations \in Nat
      /\ Len(atomics["x"]) \in Nat
  <2>1. atomics["x"] \in Seq(Stored)
    BY <1>0 DEF OrdersType, Orders!Atomics
  <2> QED
    BY <1>0, <2>1, OrdersConstants DEF Orders!Threads, Orders!Atomics, OrdersType
<1>2. PICK t \in Orders!Threads :
         /\ orderPc[t] <= Len(Orders!Code(t))
         /\ \/ Orders!Code(t)[orderPc[t]].op = "store" /\ Orders!Store(t)
            \/ /\ Orders!Code(t)[orderPc[t]].op # "store"
               /\ \E i \in DOMAIN atomics[Orders!Code(t)[orderPc[t]].loc] : Orders!Load(t, i)
  BY OrdersThread
<1>3. PICK ins : ins = Orders!Code(t)[orderPc[t]]
  OBVIOUS
<1>4. /\ Orders!Code("a") = [i \in 1..Iterations |-> Orders!Do("store", "x", 1 * (i - 1), "relaxed")]
      /\ Orders!Code("b") = [i \in 1..Iterations |-> Orders!Do("store", "x", (-1) * (i - 1), "relaxed")]
      /\ Orders!Code("c") = <<>> /\ Orders!Code("d") = <<>>
  BY OrdersCode
<1>5. t \in {"a", "b"} /\ orderPc[t] \in 1..Iterations /\ orderPc[t] \in Nat
  <2>1. Len(<<>>) = 0
    OBVIOUS
  <2>2. t # "c" /\ t # "d"
    BY <1>0, <1>2, <1>4, <2>1
  <2>3. t \in {"a", "b"}
    BY <2>2 DEF Orders!Threads
  <2>4. Len(Orders!Code(t)) = Iterations
    BY <1>1, <1>4, <2>3
  <2> QED
    BY <1>0, <1>1, <1>2, <2>3, <2>4
<1>6. PICK v : v = IF t = "a" THEN 1 * (orderPc[t] - 1) ELSE (-1) * (orderPc[t] - 1)
  OBVIOUS
<1>7. v \in Int /\ (t = "a" => v = orderPc[t] - 1) /\ (t = "b" => v = 1 - orderPc[t])
  BY <1>5, <1>6
<1>8. ins = Orders!Do("store", "x", v, "relaxed")
  BY <1>3, <1>4, <1>5, <1>6
<1>9. ins \in Instructions /\ ins.op = "store" /\ ins.loc = "x" /\ ins.value = v /\ ins.order = "relaxed"
  BY <1>1, <1>7, <1>8, OrdersDo
<1>10. Orders!Store(t)
  BY <1>2, <1>3, <1>9
<1>11. StoreDone(t, ins)
  BY <1>0, <1>3, <1>9, <1>10, OrdersStore
<1>12. /\ OrdersType' /\ program' = program /\ orderPc' = [orderPc EXCEPT ![t] = orderPc[t] + 1]
       /\ Len(atomics'["x"]) = Len(atomics["x"]) + 1
       /\ atomics'["x"][Len(atomics["x"]) + 1].value = v
  BY <1>9, <1>11 DEF StoreDone
<1>13. /\ orderPc'[t] = orderPc[t] + 1 /\ orderPc'["c"] = 1 /\ orderPc'["d"] = 1
       /\ \A u \in {"a", "b"} : u # t => orderPc'[u] = orderPc[u]
  BY <1>0, <1>1, <1>5, <1>12
<1>14. /\ Len(atomics'["x"]) # 0 /\ atomics'["x"][Len(atomics'["x"])].value = v
       /\ orderPc'[t] # 1 /\ orderPc'[t] \in 1..(Iterations + 1)
  BY <1>1, <1>5, <1>12, <1>13
<1>15. CASE t = "a"
  <2>1. v = orderPc'["a"] - 2 /\ orderPc'["b"] = orderPc["b"]
    BY <1>5, <1>7, <1>13, <1>15
  <2> QED
    BY <1>0, <1>12, <1>13, <1>14, <1>15, <2>1 DEF RelaxedTestInv
<1>16. CASE t = "b"
  <2>1. v = 2 - orderPc'["b"] /\ orderPc'["a"] = orderPc["a"]
    BY <1>5, <1>7, <1>13, <1>16
  <2> QED
    BY <1>0, <1>12, <1>13, <1>14, <1>16, <2>1 DEF RelaxedTestInv
<1> QED
  BY <1>5, <1>15, <1>16

\* The programs keep their invariant.
LEMMA OrdersNext == OrdersInv /\ (Orders!Next \/ UNCHANGED orderVars) => OrdersInv'
<1> SUFFICES ASSUME OrdersInv, Orders!Next \/ UNCHANGED orderVars PROVE OrdersInv'
  OBVIOUS
<1>1. CASE Orders!Next
  <2>1. program' = program
    <3>1. PICK t \in Orders!Threads : Orders!Store(t) \/ \E i : Orders!Load(t, i)
      BY <1>1 DEF Orders!Next
    <3> QED
      BY <3>1 DEF Orders!Store, Orders!Load
  <2>2. AcquireReleaseInv'
    <3>1. CASE program = "acquire_release"
      BY <1>1, <3>1, OrdersAcquireRelease DEF OrdersInv
    <3>2. CASE program # "acquire_release"
      BY <2>1, <3>2 DEF AcquireReleaseInv
    <3> QED
      BY <3>1, <3>2
  <2>3. SeqCstInv'
    <3>1. CASE program = "seq_cst"
      BY <1>1, <3>1, OrdersSeqCst DEF OrdersInv
    <3>2. CASE program # "seq_cst"
      BY <2>1, <3>2 DEF SeqCstInv
    <3> QED
      BY <3>1, <3>2
  <2>4. RelaxedTestInv'
    <3>1. CASE program = "relaxed_test"
      BY <1>1, <3>1, OrdersRelaxedTest DEF OrdersInv
    <3>2. CASE program # "relaxed_test"
      BY <2>1, <3>2 DEF RelaxedTestInv
    <3> QED
      BY <3>1, <3>2
  <2> QED
    BY <2>2, <2>3, <2>4 DEF OrdersInv
<1>2. CASE UNCHANGED orderVars
  <2>1. /\ program' = program /\ orderPc' = orderPc /\ atomics' = atomics /\ view' = view /\ sc' = sc /\ z' = z
    BY <1>2 DEF orderVars
  <2>2. AcquireReleaseInv'
    BY <2>1 DEF OrdersInv, AcquireReleaseInv, OrdersType
  <2>3. SeqCstInv'
    BY <2>1 DEF OrdersInv, SeqCstInv, OrdersType
  <2>4. RelaxedTestInv'
    BY <2>1 DEF OrdersInv, RelaxedTestInv, OrdersType
  <2> QED
    BY <2>2, <2>3, <2>4 DEF OrdersInv
<1> QED
  BY <1>1, <1>2

\* The invariant is what the comments of the programs say.
LEMMA OrdersSound == OrdersInv => Orders!MemoryOrdersSound
<1> SUFFICES ASSUME OrdersInv, Orders!Joined
             PROVE  /\ program = "acquire_release" => z = 1
                    /\ program = "seq_cst" => z # 0
                    /\ program = "relaxed_test" =>
                          atomics["x"][Len(atomics["x"])].value \in {Iterations - 1, 1 - Iterations}
  BY DEF Orders!MemoryOrdersSound
<1>0. /\ orderPc["a"] = Len(Orders!Code("a")) + 1 /\ orderPc["b"] = Len(Orders!Code("b")) + 1
      /\ orderPc["c"] = Len(Orders!Code("c")) + 1 /\ orderPc["d"] = Len(Orders!Code("d")) + 1
  BY DEF Orders!Joined, Orders!Threads
<1>1. ASSUME program = "acquire_release" PROVE z = 1
  <2>1. Len(Orders!Code("b")) = 2
    BY <1>1, OrdersCode
  <2>2. orderPc["b"] = 3
    BY <1>0, <2>1, 2 + 1 = 3
  <2> QED
    BY <1>1, <2>2 DEF OrdersInv, AcquireReleaseInv
<1>2. ASSUME program = "seq_cst" PROVE z # 0
  <2>1. Len(Orders!Code("c")) = 2 /\ Len(Orders!Code("d")) = 2
    BY <1>2, OrdersCode
  <2>2. orderPc["c"] = 3 /\ orderPc["d"] = 3
    BY <1>0, <2>1, 2 + 1 = 3
  <2> QED
    BY <1>2, <2>2 DEF OrdersInv, SeqCstInv
<1>3. ASSUME program = "relaxed_test"
      PROVE  atomics["x"][Len(atomics["x"])].value \in {Iterations - 1, 1 - Iterations}
  <2>1. Len(Orders!Code("a")) = Iterations /\ Len(Orders!Code("b")) = Iterations
    BY <1>3, OrdersConstants, OrdersCode
  <2>2. orderPc["a"] = Iterations + 1 /\ orderPc["b"] = Iterations + 1
    BY <1>0, <2>1
  <2>3. \/ orderPc["a"] = 1 /\ orderPc["b"] = 1
        \/ orderPc["a"] # 1 /\ atomics["x"][Len(atomics["x"])].value = orderPc["a"] - 2
        \/ orderPc["b"] # 1 /\ atomics["x"][Len(atomics["x"])].value = 2 - orderPc["b"]
    BY <1>3 DEF OrdersInv, RelaxedTestInv
  <2> QED
    BY <2>2, <2>3, OrdersConstants
<1> QED
  BY <1>1, <1>2, <1>3

------------------------------------------------------------------------------
(* atomic_lock together                                                    *)

\* The inductive invariants of the four parts of atomic_lock.
AtomicsInv == PtrInv /\ SpinInv /\ ListInv /\ OrdersInv

\* A step of one of the four leaves the others alone.
LEMMA AtomicsInvStep == AtomicsInv /\ [ComponentNext]_componentVars => AtomicsInv'
<1> SUFFICES ASSUME AtomicsInv, [ComponentNext]_componentVars PROVE AtomicsInv'
  OBVIOUS
<1>1. [Ptr!Next]_ptrVars
  BY DEF ComponentNext, componentVars, AtomicNext, ArithmeticNext, atomicVars, arithmeticVars
<1>2. [Spin!Next]_spinVars
  BY DEF ComponentNext, componentVars, AtomicNext, ArithmeticNext, atomicVars, arithmeticVars
<1>3. [List!Next]_skipVars
  BY DEF ComponentNext, componentVars, AtomicNext, ArithmeticNext, atomicVars, arithmeticVars
<1>4. [Orders!Next]_orderVars
  BY DEF ComponentNext, componentVars, AtomicNext, ArithmeticNext, atomicVars, arithmeticVars
<1> QED
  BY <1>1, <1>2, <1>3, <1>4, PtrNext, SpinNext, ListNext, OrdersNext DEF AtomicsInv

\* With any number of threads, of slots, of objects and of keys: an object is deleted
\* once and by its last owner, one thread is inside the lock and no addition is lost,
\* a reader finds a node as its list was during the search, whatever is inserted
\* meanwhile, and z and the counters of the examples of memory orders are what their
\* comments say.
THEOREM Atomics == ComponentSpec => []AtomicsSound
<1>1. ComponentInit => AtomicsInv
  BY PtrInit, SpinInit, ListInit, OrdersInit DEF ComponentInit, AtomicsInv
<1>2. AtomicsInv /\ [ComponentNext]_componentVars => AtomicsInv'
  BY AtomicsInvStep
<1>3. AtomicsInv => AtomicsSound
  BY PtrSound, SpinSound, ListSound, OrdersSound DEF AtomicsInv, AtomicsSound
<1> QED
  BY <1>1, <1>2, <1>3, PTL DEF ComponentSpec

------------------------------------------------------------------------------
(* NetBuffer                                                               *)

\* A message buffer and a connection.
BufferType == [size : Nat, rpos : Nat, wpos : Nat]
ConnType == [handler : {"set", "empty"}, closed : BOOLEAN, interest : SUBSET {"in", "out"},
             output : Nat, sent : Nat, delivered : Nat, buf : BufferType, received : Nat, consumed : Nat]

\* A buffer reads behind what it wrote, within its vector.
BufferSound(b) == b \in BufferType /\ b.rpos <= b.wpos /\ b.wpos <= b.size

\* A connection between two steps of the loop.
ConnSound(k) ==
  /\ k \in ConnType /\ BufferSound(k.buf)
  /\ Buf!GetActiveSize(k.buf) = k.received - k.consumed
  /\ k.delivered + k.output = k.sent
  /\ k.handler = "empty" <=> k.closed
  /\ k.closed => k.interest = {}
  /\ ~k.closed => ("out" \in k.interest <=> k.output > 0)

\* The smaller and the larger of two numbers.
LEMMA BufMinMax ==
  ASSUME NEW a \in Int, NEW b \in Int
  PROVE  /\ Buf!Min({a, b}) = (IF a <= b THEN a ELSE b)
         /\ Buf!Max({a, b}) = (IF a >= b THEN a ELSE b)
<1>1. Buf!Min({a, b}) = (IF a <= b THEN a ELSE b)
  BY DEF Buf!Min
<1>2. Buf!Max({a, b}) = (IF a >= b THEN a ELSE b)
  BY DEF Buf!Max
<1> QED
  BY <1>1, <1>2

\* Normalize and EnsureFreeSpace keep the bytes and make the room.
LEMMA BufEnsure ==
  ASSUME NEW b, BufferSound(b), NEW n \in Nat
  PROVE  LET r == Buf!EnsureFreeSpace(b, n)
         IN  /\ BufferSound(r) /\ r.wpos + n <= r.size
             /\ Buf!GetActiveSize(r) = Buf!GetActiveSize(b)
<1>0. b \in BufferType /\ b.size \in Nat /\ b.rpos \in Nat /\ b.wpos \in Nat
      /\ b.rpos <= b.wpos /\ b.wpos <= b.size
  BY DEF BufferSound, BufferType
<1> DEFINE active == b.wpos - b.rpos
<1>1. active \in Nat /\ Buf!GetActiveSize(b) = active /\ Buf!GetFreeSize(b) = b.size - b.wpos
  BY <1>0 DEF Buf!GetActiveSize, Buf!GetFreeSize
<1>2. /\ Buf!Normalize(b) \in BufferType /\ Buf!Normalize(b).size = b.size
      /\ Buf!Normalize(b).rpos = 0 /\ Buf!Normalize(b).wpos = active
  BY <1>0, <1>1 DEF Buf!Normalize, BufferType
<1> HIDE DEF active
<1>3. CASE b.size - active < n
  <2> DEFINE more == Buf!Max({n, b.size \div 2})
             r == [Buf!Normalize(b) EXCEPT !.size = @ + more]
  <2>1. more \in Nat /\ n <= more
    <3>1. b.size \div 2 \in Nat
      BY <1>0
    <3>2. n \in Int /\ b.size \div 2 \in Int
      BY <3>1
    <3>3. more = (IF n >= b.size \div 2 THEN n ELSE b.size \div 2)
      BY <3>2, BufMinMax
    <3> HIDE DEF more
    <3> QED
      BY <3>1, <3>3
  <2>2. Buf!EnsureFreeSpace(b, n) = r
    BY <1>1, <1>2, <1>3 DEF Buf!EnsureFreeSpace
  <2> HIDE DEF more
  <2>3. r \in BufferType /\ r.size = b.size + more /\ r.rpos = 0 /\ r.wpos = active
    BY <1>0, <1>2, <2>1 DEF BufferType
  <2> HIDE DEF r
  <2>4. r.rpos <= r.wpos /\ r.wpos <= r.size /\ r.wpos + n <= r.size /\ r.wpos - r.rpos = active
    BY <1>0, <1>1, <2>1, <2>3 DEF active
  <2> QED
    BY <1>1, <2>2, <2>3, <2>4 DEF BufferSound, Buf!GetActiveSize
<1>4. CASE ~(b.size - active < n) /\ b.size - b.wpos < n
  <2>1. Buf!EnsureFreeSpace(b, n) = Buf!Normalize(b)
    BY <1>1, <1>4 DEF Buf!EnsureFreeSpace
  <2>2. active + n <= b.size
    BY <1>0, <1>1, <1>4
  <2> QED
    BY <1>0, <1>1, <1>2, <2>1, <2>2 DEF BufferSound, Buf!GetActiveSize
<1>5. CASE ~(b.size - active < n) /\ ~(b.size - b.wpos < n)
  <2>1. Buf!EnsureFreeSpace(b, n) = b
    BY <1>1, <1>5 DEF Buf!EnsureFreeSpace
  <2> QED
    BY <1>0, <1>5, <2>1 DEF BufferSound
<1> QED
  BY <1>3, <1>4, <1>5

\* The bytes at the end are counted when there is room for them.
LEMMA BufWritten ==
  ASSUME NEW b, BufferSound(b), NEW n \in Nat, b.wpos + n <= b.size
  PROVE  LET r == Buf!WriteCompleted(b, n)
         IN  BufferSound(r) /\ Buf!GetActiveSize(r) = Buf!GetActiveSize(b) + n
<1>0. b \in BufferType /\ b.size \in Nat /\ b.rpos \in Nat /\ b.wpos \in Nat
      /\ b.rpos <= b.wpos /\ b.wpos <= b.size
  BY DEF BufferSound, BufferType
<1> DEFINE r == Buf!WriteCompleted(b, n)
<1>1. r \in BufferType /\ r.size = b.size /\ r.rpos = b.rpos /\ r.wpos = b.wpos + n
  BY <1>0 DEF Buf!WriteCompleted, BufferType
<1> HIDE DEF r
<1> QED
  BY <1>0, <1>1 DEF BufferSound, Buf!GetActiveSize, r

\* Recv puts the n bytes readv has read behind those of the buffer, whether they
\* fit or came in through the extra area.
LEMMA BufReceived ==
  ASSUME NEW b, BufferSound(b), NEW n \in Nat
  PROVE  LET r == Buf!Recv(b, n)
         IN  BufferSound(r) /\ Buf!GetActiveSize(r) = Buf!GetActiveSize(b) + n
<1>0. b \in BufferType /\ b.size \in Nat /\ b.rpos \in Nat /\ b.wpos \in Nat
      /\ b.rpos <= b.wpos /\ b.wpos <= b.size
  BY DEF BufferSound, BufferType
<1> DEFINE free == Buf!GetFreeSize(b)
<1>1. free \in Nat /\ free = b.size - b.wpos /\ b.wpos + free <= b.size
      /\ Buf!GetActiveSize(b) \in Int
  BY <1>0 DEF Buf!GetFreeSize, Buf!GetActiveSize
<1>2. CASE n <= free
  <2>1. Buf!Recv(b, n) = Buf!WriteCompleted(b, n) /\ b.wpos + n <= b.size
    BY <1>0, <1>1, <1>2 DEF Buf!Recv
  <2> QED
    BY <2>1, BufWritten
<1>3. CASE ~(n <= free)
  <2> DEFINE full == Buf!WriteCompleted(b, free)
             rest == n - free
             room == Buf!EnsureFreeSpace(full, rest)
  <2>1. rest \in Nat /\ rest > 0
    BY <1>1, <1>3
  <2>2. Buf!Recv(b, n) = Buf!WriteCompleted(room, rest)
    BY <1>3, <2>1 DEF Buf!Recv, Buf!Write
  <2>3. BufferSound(full) /\ Buf!GetActiveSize(full) = Buf!GetActiveSize(b) + free
    BY <1>1, BufWritten
  <2> HIDE DEF free, full, rest
  <2>4. BufferSound(room) /\ room.wpos + rest <= room.size /\ Buf!GetActiveSize(room) = Buf!GetActiveSize(full)
    BY <2>1, <2>3, BufEnsure
  <2> HIDE DEF room
  <2>5. /\ BufferSound(Buf!WriteCompleted(room, rest))
        /\ Buf!GetActiveSize(Buf!WriteCompleted(room, rest)) = Buf!GetActiveSize(room) + rest
    BY <2>1, <2>4, BufWritten
  <2>6. Buf!GetActiveSize(b) + free + rest = Buf!GetActiveSize(b) + n
    BY <1>1 DEF rest
  <2> QED
    BY <2>2, <2>3, <2>4, <2>5, <2>6
<1> QED
  BY <1>2, <1>3

\* The fields of a connection.
LEMMA ConnFields ==
  ASSUME NEW k, ConnSound(k)
  PROVE  /\ k.handler \in {"set", "empty"} /\ k.closed \in BOOLEAN /\ k.interest \in SUBSET {"in", "out"}
         /\ k.output \in Nat /\ k.sent \in Nat /\ k.delivered \in Nat
         /\ k.received \in Nat /\ k.consumed \in Nat
         /\ BufferSound(k.buf) /\ Buf!GetActiveSize(k.buf) \in Nat
         /\ Buf!GetActiveSize(k.buf) = k.received - k.consumed /\ k.delivered + k.output = k.sent
<1>1. k.buf \in BufferType
  BY DEF ConnSound, ConnType
<1>2. Buf!GetActiveSize(k.buf) \in Nat
  BY <1>1 DEF ConnSound, BufferSound, BufferType, Buf!GetActiveSize
<1> QED
  BY <1>2 DEF ConnSound, ConnType

\* A connection just accepted.
LEMMA ConnNew == ConnSound(Buf!TcpConn)
<1> DEFINE b == Buf!MessageBuffer(BufSize)
<1>1. b \in BufferType /\ b.rpos = 0 /\ b.wpos = 0 /\ b.size = BufSize
  BY BuffersAssumption DEF Buf!MessageBuffer, BufferType
<1>2. BufferSound(b) /\ Buf!GetActiveSize(b) = 0
  BY <1>1, BuffersAssumption DEF BufferSound, Buf!GetActiveSize
<1> HIDE DEF b
<1>3. Buf!TcpConn = [handler |-> "set", closed |-> FALSE, interest |-> {"in"}, output |-> 0,
                     sent |-> 0, delivered |-> 0, buf |-> b, received |-> 0, consumed |-> 0]
  BY DEF Buf!TcpConn, b
<1>4. Buf!TcpConn \in ConnType
  BY <1>1, <1>3 DEF ConnType
<1> QED
  BY <1>2, <1>3, <1>4 DEF ConnSound

\* Close sets the flag and empties the function object together.
LEMMA ConnClosed ==
  ASSUME NEW k, ConnSound(k)
  PROVE  ConnSound(Buf!Close(k))
<1>1. CASE k.closed
  BY <1>1 DEF Buf!Close
<1>2. CASE ~k.closed
  <2> DEFINE r == [k EXCEPT !.closed = TRUE, !.interest = {}, !.handler = "empty"]
  <2>1. k \in ConnType
    BY DEF ConnSound
  <2>2. /\ r \in ConnType /\ r.closed = TRUE /\ r.handler = "empty" /\ r.interest = {} /\ r.buf = k.buf
        /\ r.received = k.received /\ r.consumed = k.consumed /\ r.delivered = k.delivered
        /\ r.output = k.output /\ r.sent = k.sent
    BY <2>1 DEF ConnType
  <2> HIDE DEF r
  <2>3. ConnSound(r)
    BY <2>2 DEF ConnSound
  <2> QED
    BY <1>2, <2>3 DEF Buf!Close, r
<1> QED
  BY <1>1, <1>2

\* A connection after its output has changed: EPOLLOUT follows it.
LEMMA ConnOutput ==
  ASSUME NEW k, ConnSound(k), ~k.closed, NEW r,
         r \in ConnType, r.closed = FALSE, r.handler = "set", r.buf = k.buf,
         r.received = k.received, r.consumed = k.consumed,
         r.delivered + r.output = r.sent, "out" \in r.interest <=> r.output > 0
  PROVE  ConnSound(r)
  BY DEF ConnSound

\* Send: what the kernel does not take is in the output buffer.
LEMMA ConnSent ==
  ASSUME NEW k, ConnSound(k), NEW n \in 0..BufMessage, NEW fails \in BOOLEAN
  PROVE  ConnSound(Buf!Send(k, n, fails))
<1>0. /\ k \in ConnType /\ k.output \in Nat /\ k.sent \in Nat /\ k.delivered \in Nat /\ n \in Nat
      /\ n <= BufMessage /\ BufMessage \in Nat /\ k.delivered + k.output = k.sent
      /\ k.closed \in BOOLEAN
  BY ConnFields, BuffersAssumption DEF ConnSound
<1> DEFINE queued == [k EXCEPT !.sent = @ + BufMessage, !.output = @ + BufMessage]
           rest == [queued EXCEPT !.delivered = @ + n, !.output = @ - n]
<1>1. CASE k.closed
  BY <1>1 DEF Buf!Send
<1>2. CASE ~k.closed
  <2>0. k.handler = "set" /\ ("out" \in k.interest <=> k.output > 0) /\ k.closed = FALSE
    BY <1>0, <1>2, ConnFields DEF ConnSound
  <2>1. /\ queued \in ConnType /\ queued.closed = FALSE /\ queued.handler = "set" /\ queued.buf = k.buf
        /\ queued.received = k.received /\ queued.consumed = k.consumed
        /\ queued.delivered = k.delivered /\ queued.output = k.output + BufMessage
        /\ queued.sent = k.sent + BufMessage /\ queued.interest = k.interest
    <3>1. k.sent + BufMessage \in Nat /\ k.output + BufMessage \in Nat
      BY <1>0
    <3> QED
      BY <1>0, <2>0, <3>1 DEF ConnType
  <2> HIDE DEF queued
  <2>2. CASE k.output > 0
    <3> DEFINE r == [queued EXCEPT !.interest = {"in", "out"}]
    <3>1. Buf!Send(k, n, fails) = r
      BY <1>2, <2>2 DEF Buf!Send, Buf!EnableWrite, queued
    <3>2. /\ r \in ConnType /\ r.closed = FALSE /\ r.handler = "set" /\ r.buf = k.buf
          /\ r.received = k.received /\ r.consumed = k.consumed
          /\ r.delivered = queued.delivered /\ r.output = queued.output /\ r.sent = queued.sent
          /\ "out" \in r.interest
      BY <2>1 DEF ConnType
    <3> HIDE DEF r
    <3>3. r.delivered + r.output = r.sent /\ r.output > 0
      BY <1>0, <2>1, <2>2, <3>2
    <3>4. ConnSound(r)
      BY <1>2, <3>2, <3>3, ConnOutput
    <3> QED
      BY <3>1, <3>4
  <2>3. CASE ~(k.output > 0) /\ fails
    BY <1>2, <2>3, ConnClosed DEF Buf!Send
  <2>4. CASE ~(k.output > 0) /\ ~fails
    <3>0. k.output = 0
      BY <1>0, <2>4
    <3>1. /\ rest \in ConnType /\ rest.closed = FALSE /\ rest.handler = "set" /\ rest.buf = k.buf
          /\ rest.received = k.received /\ rest.consumed = k.consumed
          /\ rest.delivered = k.delivered + n /\ rest.output = BufMessage - n
          /\ rest.sent = k.sent + BufMessage /\ rest.interest = k.interest
      <4>1. BufMessage - n \in Nat /\ k.delivered + n \in Nat /\ queued.output - n = BufMessage - n
        BY <1>0, <2>1, <3>0
      <4> QED
        BY <2>1, <4>1 DEF ConnType
    <3> HIDE DEF rest
    <3>2. rest.delivered + rest.output = rest.sent
      BY <1>0, <3>0, <3>1
    <3>3. CASE n < BufMessage
      <4> DEFINE r == [rest EXCEPT !.interest = {"in", "out"}]
      <4>1. Buf!Send(k, n, fails) = r
        BY <1>2, <2>4, <3>3 DEF Buf!Send, Buf!EnableWrite, queued, rest
      <4>2. /\ r \in ConnType /\ r.closed = FALSE /\ r.handler = "set" /\ r.buf = k.buf
            /\ r.received = k.received /\ r.consumed = k.consumed
            /\ r.delivered = rest.delivered /\ r.output = rest.output /\ r.sent = rest.sent
            /\ "out" \in r.interest
        BY <3>1 DEF ConnType
      <4> HIDE DEF r
      <4>3. r.delivered + r.output = r.sent /\ r.output > 0
        BY <1>0, <3>1, <3>2, <3>3, <4>2
      <4>4. ConnSound(r)
        BY <1>2, <4>2, <4>3, ConnOutput
      <4> QED
        BY <4>1, <4>4
    <3>4. CASE ~(n < BufMessage)
      <4>1. Buf!Send(k, n, fails) = rest
        BY <1>2, <2>4, <3>4 DEF Buf!Send, queued, rest
      <4>2. ~(rest.output > 0)
        BY <1>0, <3>1, <3>4
      <4>3. ConnSound(rest)
        BY <1>2, <2>0, <2>4, <3>1, <3>2, <4>2, ConnOutput
      <4> QED
        BY <4>1, <4>3
    <3> QED
      BY <3>3, <3>4
  <2> QED
    BY <2>2, <2>3, <2>4
<1> QED
  BY <1>1, <1>2

\* A write that takes n of the bytes that wait.
LEMMA ConnWritten ==
  ASSUME NEW k, ConnSound(k), ~k.closed, NEW n \in Nat, n <= k.output
  PROVE  LET left == [k EXCEPT !.output = @ - n, !.delivered = @ + n]
         IN  ConnSound(IF left.output = 0 THEN Buf!DisableWrite(left) ELSE left)
<1>0. /\ k \in ConnType /\ k.output \in Nat /\ k.sent \in Nat /\ k.delivered \in Nat
      /\ k.delivered + k.output = k.sent /\ k.handler = "set" /\ k.closed = FALSE
      /\ ("out" \in k.interest <=> k.output > 0)
  BY ConnFields DEF ConnSound
<1> DEFINE left == [k EXCEPT !.output = @ - n, !.delivered = @ + n]
<1>1. /\ left \in ConnType /\ left.closed = FALSE /\ left.handler = "set" /\ left.buf = k.buf
      /\ left.received = k.received /\ left.consumed = k.consumed
      /\ left.delivered = k.delivered + n /\ left.output = k.output - n
      /\ left.sent = k.sent /\ left.interest = k.interest
  <2>1. k.output - n \in Nat /\ k.delivered + n \in Nat
    BY <1>0
  <2> QED
    BY <1>0, <2>1 DEF ConnType
<1> HIDE DEF left
<1>2. left.delivered + left.output = left.sent
  BY <1>0, <1>1
<1>3. CASE left.output = 0
  <2> DEFINE r == [left EXCEPT !.interest = {"in"}]
  <2>1. /\ r \in ConnType /\ r.closed = FALSE /\ r.handler = "set" /\ r.buf = k.buf
        /\ r.received = k.received /\ r.consumed = k.consumed
        /\ r.delivered = left.delivered /\ r.output = left.output /\ r.sent = left.sent
        /\ "out" \notin r.interest
    BY <1>1 DEF ConnType
  <2> HIDE DEF r
  <2>2. r.delivered + r.output = r.sent /\ ~(r.output > 0)
    BY <1>2, <1>3, <2>1
  <2>3. ConnSound(r)
    BY <2>1, <2>2, ConnOutput
  <2> QED
    BY <1>3, <2>3 DEF Buf!DisableWrite, r, left
<1>4. CASE left.output # 0
  <2>1. left.output > 0 /\ k.output > 0
    BY <1>0, <1>1, <1>4
  <2>2. ConnSound(left)
    BY <1>0, <1>1, <1>2, <2>1, ConnOutput
  <2> QED
    BY <1>4, <2>2 DEF left
<1> QED
  BY <1>3, <1>4

\* A connection after its input has changed.
LEMMA ConnInput ==
  ASSUME NEW k, ConnSound(k), NEW r, r \in ConnType, r.closed = k.closed, r.handler = k.handler,
         r.interest = k.interest, r.output = k.output, r.sent = k.sent, r.delivered = k.delivered,
         BufferSound(r.buf), Buf!GetActiveSize(r.buf) = r.received - r.consumed
  PROVE  ConnSound(r)
  BY DEF ConnSound

\* A read of n bytes.
LEMMA ConnRead ==
  ASSUME NEW k, ConnSound(k), NEW n \in Nat
  PROVE  ConnSound([k EXCEPT !.buf = Buf!Recv(@, n), !.received = @ + n])
<1>0. k \in ConnType /\ k.received \in Nat /\ k.consumed \in Nat
      /\ BufferSound(k.buf) /\ Buf!GetActiveSize(k.buf) = k.received - k.consumed
  BY ConnFields DEF ConnSound
<1> DEFINE b == Buf!Recv(k.buf, n)
           r == [k EXCEPT !.buf = b, !.received = k.received + n]
<1>1. BufferSound(b) /\ Buf!GetActiveSize(b) = Buf!GetActiveSize(k.buf) + n
  BY <1>0, BufReceived
<1> HIDE DEF b
<1>2. /\ r \in ConnType /\ r.closed = k.closed /\ r.handler = k.handler
      /\ r.interest = k.interest /\ r.output = k.output /\ r.sent = k.sent /\ r.delivered = k.delivered
      /\ r.buf = b /\ r.received = k.received + n /\ r.consumed = k.consumed
  <2>1. b \in BufferType /\ k.received + n \in Nat
    BY <1>0, <1>1 DEF BufferSound
  <2> QED
    BY <1>0, <2>1 DEF ConnType
<1>3. [k EXCEPT !.buf = Buf!Recv(@, n), !.received = @ + n] = r
  BY <1>0 DEF ConnType, b
<1> HIDE DEF r
<1>4. Buf!GetActiveSize(r.buf) = r.received - r.consumed
  BY <1>0, <1>1, <1>2
<1> QED
  BY <1>1, <1>2, <1>3, <1>4, ConnInput

\* The callback takes the first line that is whole.
LEMMA ConnLine ==
  ASSUME NEW k, ConnSound(k)
  PROVE  ConnSound(Buf!GetDataUntilCrLf(k))
<1>0. /\ k \in ConnType /\ k.received \in Nat /\ k.consumed \in Nat /\ BufferSound(k.buf)
      /\ Buf!GetActiveSize(k.buf) \in Nat /\ Buf!GetActiveSize(k.buf) = k.received - k.consumed
  BY ConnFields DEF ConnSound
<1>1. CASE Buf!LinesIn(k) = {}
  BY <1>1 DEF Buf!GetDataUntilCrLf
<1>2. CASE Buf!LinesIn(k) # {}
  <2> DEFINE e == Buf!Min(Buf!LinesIn(k))
             b == Buf!ReadCompleted(k.buf, e - k.consumed)
             r == [k EXCEPT !.buf = b, !.consumed = e]
  <2>1. Buf!LinesIn(k) \subseteq Nat
    BY BuffersAssumption DEF Buf!LinesIn
  <2>2. e \in Buf!LinesIn(k)
    <3>1. \E x \in Buf!LinesIn(k) : \A y \in Buf!LinesIn(k) : x <= y
      BY <1>2, <2>1, LeastElement
    <3> QED
      BY <3>1 DEF Buf!Min
  <2>3. e \in Nat /\ k.consumed + 2 <= e /\ e <= k.consumed + Buf!GetActiveSize(k.buf)
    BY <2>1, <2>2 DEF Buf!LinesIn
  <2>4. Buf!GetDataUntilCrLf(k) = r
    BY <1>0, <1>2 DEF Buf!GetDataUntilCrLf, ConnType
  <2> HIDE DEF e
  <2>5. k.buf \in BufferType /\ k.buf.size \in Nat /\ k.buf.rpos \in Nat /\ k.buf.wpos \in Nat
        /\ k.buf.wpos <= k.buf.size /\ Buf!GetActiveSize(k.buf) = k.buf.wpos - k.buf.rpos
    BY <1>0 DEF BufferSound, BufferType, Buf!GetActiveSize
  <2>6. k.buf.rpos + (e - k.consumed) \in Nat /\ k.buf.rpos + (e - k.consumed) <= k.buf.wpos
    BY <1>0, <2>3, <2>5
  <2>7. /\ b \in BufferType /\ b.size = k.buf.size /\ b.wpos = k.buf.wpos
        /\ b.rpos = k.buf.rpos + (e - k.consumed)
    BY <2>5, <2>6 DEF Buf!ReadCompleted, BufferType
  <2> HIDE DEF b
  <2>8. BufferSound(b) /\ Buf!GetActiveSize(b) = k.received - e
    BY <1>0, <2>3, <2>5, <2>6, <2>7 DEF BufferSound, Buf!GetActiveSize
  <2>9. /\ r \in ConnType /\ r.closed = k.closed /\ r.handler = k.handler
        /\ r.interest = k.interest /\ r.output = k.output /\ r.sent = k.sent /\ r.delivered = k.delivered
        /\ r.buf = b /\ r.received = k.received /\ r.consumed = e
    BY <1>0, <2>3, <2>7 DEF ConnType
  <2> HIDE DEF r
  <2> QED
    BY <2>4, <2>8, <2>9, ConnInput
<1> QED
  BY <1>1, <1>2

\* The sockets, and what of them is between two events.
BufSockets == [Buf!Conns -> [arrived : Nat, room : Nat, state : {"open", "shut", "reset"}]]

\* The sockets, and the events of the loop: those that wait are of connections that
\* are not closed, each of another one, and none of the one that is being handled.
BufType ==
  /\ bufConn \in Seq(ConnType) /\ waiting \in Nat /\ Len(bufConn) + waiting <= BufConns
  /\ net \in BufSockets
  /\ bufPc \in {"wait", "events", "read", "callback", "write", "close", "threw"}

BufEvents ==
  /\ bufPc \in {"wait", "events"} => bufCur.ptr = 0
  /\ bufPc \in {"read", "callback", "write", "close"} => bufCur.ptr \in 1..Len(bufConn)
  /\ \A e \in batch : e # Buf!Listener =>
        e.ptr \in 1..Len(bufConn) /\ e.ptr # bufCur.ptr /\ ~bufConn[e.ptr].closed
  /\ \A e, f \in batch : e.ptr = f.ptr => e = f
  /\ Buf!Listener \in batch => waiting > 0

\* The inductive invariant of the server of network_buffer_design.
BufInv == BufType /\ BufEvents /\ \A c \in 1..Len(bufConn) : ConnSound(bufConn[c])

\* No connection yet.
LEMMA BufInit == Buf!Init => BufInv
<1> SUFFICES ASSUME Buf!Init PROVE BufInv
  OBVIOUS
<1>1. bufConn = <<>> /\ Len(bufConn) = 0 /\ waiting = 0 /\ batch = {} /\ bufCur.ptr = 0 /\ bufPc = "wait"
  BY DEF Buf!Init, Buf!NoEvent
<1>2. bufConn \in Seq(ConnType)
  BY <1>1
<1>3. net \in BufSockets
  BY BuffersAssumption DEF Buf!Init, BufSockets
<1>4. BufType
  BY <1>1, <1>2, <1>3, BuffersAssumption DEF BufType
<1>5. BufEvents
  BY <1>1 DEF BufEvents
<1> QED
  BY <1>1, <1>4, <1>5 DEF BufInv

\* Events of different connections are different, and are told apart by ptr.
LEMMA BufPoll ==
  ASSUME BufInv, Buf!Poll
  PROVE  BufInv'
<1>0. /\ bufPc = "wait" /\ bufPc' = "events" /\ batch' = Buf!Ready /\ bufCur.ptr = 0
      /\ UNCHANGED <<bufConn, net, waiting, bufCur>>
  BY DEF Buf!Poll, BufInv, BufEvents
<1>1. DOMAIN bufConn = 1..Len(bufConn) /\ Len(bufConn) \in Nat
  BY LenProperties DEF BufInv, BufType
<1>2. ASSUME NEW e \in Buf!Ready, e # Buf!Listener
      PROVE  e.ptr \in 1..Len(bufConn) /\ e = Buf!Events(e.ptr) /\ ~bufConn[e.ptr].closed
  <2>1. PICK c \in 1..Len(bufConn) : e = Buf!Events(c) /\ (e.in \/ e.out \/ e.hup)
    BY <1>1, <1>2 DEF Buf!Ready
  <2>2. e.ptr = c /\ bufConn[c].interest # {}
    BY <2>1 DEF Buf!Events
  <2>3. ~bufConn[c].closed
    BY <2>2 DEF BufInv, ConnSound
  <2> QED
    BY <2>1, <2>2, <2>3
<1>3. Buf!Listener.ptr = -1
  BY DEF Buf!Listener
<1>4. Buf!Listener \in Buf!Ready => waiting > 0
  <2>1. ASSUME NEW c PROVE Buf!Events(c).ptr = c
    BY DEF Buf!Events
  <2>2. -1 \notin 1..Len(bufConn)
    BY <1>1
  <2> QED
    BY <1>1, <1>3, <2>1, <2>2 DEF Buf!Ready
<1>5. \A e, f \in Buf!Ready : e.ptr = f.ptr => e = f
  <2>1. -1 \notin 1..Len(bufConn)
    BY <1>1
  <2> QED
    BY <1>2, <1>3, <2>1
<1>6. 0 \notin 1..Len(bufConn)
  BY <1>1
<1>7. BufEvents'
  BY <1>0, <1>2, <1>4, <1>5, <1>6 DEF BufEvents
<1>8. BufType'
  BY <1>0 DEF BufInv, BufType
<1> QED
  BY <1>0, <1>7, <1>8 DEF BufInv

\* The batch is done.
LEMMA BufBatchDone ==
  ASSUME BufInv, Buf!BatchDone
  PROVE  BufInv'
<1>1. bufPc = "events" /\ bufPc' = "wait" /\ UNCHANGED <<bufConn, net, waiting, batch, bufCur>>
  BY DEF Buf!BatchDone
<1>2. BufType'
  BY <1>1 DEF BufInv, BufType
<1>3. BufEvents'
  BY <1>1 DEF BufInv, BufEvents
<1> QED
  BY <1>1, <1>2, <1>3 DEF BufInv

\* A connection is accepted.
LEMMA BufAccept ==
  ASSUME BufInv, Buf!HandleAccept
  PROVE  BufInv'
<1>0. /\ bufPc = "events" /\ Buf!Listener \in batch /\ batch' = batch \ {Buf!Listener}
      /\ waiting' = waiting - 1 /\ bufConn' = Append(bufConn, Buf!TcpConn) /\ UNCHANGED <<net, bufCur, bufPc>>
  BY DEF Buf!HandleAccept
<1>1. /\ bufConn \in Seq(ConnType) /\ Len(bufConn) \in Nat /\ waiting \in Nat /\ waiting > 0
      /\ Len(bufConn) + waiting <= BufConns
  BY <1>0, LenProperties DEF BufInv, BufType, BufEvents
<1>2. Buf!TcpConn \in ConnType
  BY ConnNew DEF ConnSound
<1>3. /\ bufConn' \in Seq(ConnType) /\ Len(bufConn') = Len(bufConn) + 1
      /\ \A c \in 1..Len(bufConn) : bufConn'[c] = bufConn[c]
      /\ bufConn'[Len(bufConn) + 1] = Buf!TcpConn
  BY <1>0, <1>1, <1>2, AppendProperties
<1>4. \A c \in 1..Len(bufConn') : c \in 1..Len(bufConn) \/ c = Len(bufConn) + 1
  BY <1>1, <1>3
<1>5. \A c \in 1..Len(bufConn) : c \in 1..Len(bufConn')
  BY <1>1, <1>3
<1>6. waiting' \in Nat /\ Len(bufConn') + waiting' <= BufConns
  BY <1>0, <1>1, <1>3, BuffersAssumption
<1>7. BufType'
  BY <1>0, <1>3, <1>6 DEF BufInv, BufType
<1>8. BufEvents'
  BY <1>0, <1>3, <1>5 DEF BufInv, BufEvents
<1>9. \A c \in 1..Len(bufConn') : ConnSound(bufConn'[c])
  BY <1>3, <1>4, ConnNew DEF BufInv
<1> QED
  BY <1>7, <1>8, <1>9 DEF BufInv

\* What HandleIO does next is one of its handlers, or nothing.
LEMMA BufAfter ==
  ASSUME NEW done, NEW e
  PROVE  Buf!After(done, e) \in {"read", "write", "close", "events"}
  BY DEF Buf!After

\* The loop calls the function object of an event: it is not empty.
LEMMA BufHandleIO ==
  ASSUME BufInv, NEW e \in batch, Buf!HandleIO(e)
  PROVE  BufInv'
<1>0. /\ bufPc = "events" /\ e \in batch /\ e # Buf!Listener /\ batch' = batch \ {e}
      /\ bufPc' = IF bufConn[e.ptr].handler = "empty" THEN "empty"
                  ELSE IF bufConn[e.ptr].closed THEN "events" ELSE Buf!After("io", e)
      /\ bufCur' = IF bufPc' \in {"events", "empty"} THEN Buf!NoEvent ELSE e
      /\ UNCHANGED <<bufConn, net, waiting>>
  BY DEF Buf!HandleIO
<1>1. e.ptr \in 1..Len(bufConn) /\ ~bufConn[e.ptr].closed
  BY <1>0 DEF BufInv, BufEvents
<1>2. bufConn[e.ptr].handler # "empty"
  BY <1>1 DEF BufInv, ConnSound
<1>3. bufPc' = Buf!After("io", e) /\ bufPc' \in {"read", "write", "close", "events"}
  BY <1>0, <1>1, <1>2, BufAfter
<1>4. (bufPc' = "events" /\ bufCur' = Buf!NoEvent) \/ (bufPc' # "events" /\ bufCur' = e)
  <2>1. CASE bufPc' = "events"
    BY <1>0, <2>1
  <2>2. CASE bufPc' # "events"
    <3>1. bufPc' \notin {"events", "empty"}
      BY <1>3, <2>2
    <3> QED
      BY <1>0, <2>2, <3>1
  <2> QED
    BY <2>1, <2>2
<1>5. Buf!NoEvent.ptr = 0 /\ 0 \notin 1..Len(bufConn)
  <2>1. Len(bufConn) \in Nat
    BY LenProperties DEF BufInv, BufType
  <2> QED
    BY <2>1 DEF Buf!NoEvent
<1>6. BufType'
  BY <1>0, <1>3 DEF BufInv, BufType
<1>7. BufEvents'
  BY <1>0, <1>1, <1>3, <1>4, <1>5 DEF BufInv, BufEvents
<1> QED
  BY <1>0, <1>6, <1>7 DEF BufInv

\* A handler of the event of connection c: only c changes, and no event that waits
\* is of c.
LEMMA BufHandled ==
  ASSUME BufInv, bufPc \in {"read", "callback", "write", "close"},
         NEW k, bufConn' = [bufConn EXCEPT ![bufCur.ptr] = k], ConnSound(k),
         net' \in BufSockets,
         \/ bufPc' = "callback" /\ bufCur' = bufCur
         \/ \E done : Buf!Proceed(done),
         UNCHANGED <<waiting, batch>>
  PROVE  BufInv'
<1>0. bufCur.ptr \in 1..Len(bufConn) /\ bufConn \in Seq(ConnType) /\ k \in ConnType /\ Len(bufConn) \in Nat
  BY LenProperties DEF BufInv, BufType, BufEvents, ConnSound
<1>1. /\ bufConn' \in Seq(ConnType) /\ Len(bufConn') = Len(bufConn)
      /\ \A c \in 1..Len(bufConn) : bufConn'[c] = IF c = bufCur.ptr THEN k ELSE bufConn[c]
  BY <1>0, ExceptSeq
<1>2. /\ bufPc' \in {"read", "callback", "write", "close", "events"}
      /\ (bufPc' # "events" /\ bufCur' = bufCur) \/ (bufPc' = "events" /\ bufCur' = Buf!NoEvent)
  <2>1. CASE bufPc' = "callback" /\ bufCur' = bufCur
    BY <2>1
  <2>2. ASSUME NEW done, Buf!Proceed(done) 
             PROVE  /\ bufPc' \in {"read", "callback", "write", "close", "events"}
                    /\ (bufPc' # "events" /\ bufCur' = bufCur) \/ (bufPc' = "events" /\ bufCur' = Buf!NoEvent)
    <3>1. /\ Buf!After(done, bufCur) \in {"read", "write", "close", "events"}
          /\ bufPc' = Buf!After(done, bufCur)
          /\ bufCur' = IF Buf!After(done, bufCur) = "events" THEN Buf!NoEvent ELSE bufCur
      BY <2>2, BufAfter DEF Buf!Proceed
    <3> QED
      BY <3>1
  <2> QED
    BY <2>1, <2>2
<1>3. Buf!NoEvent.ptr = 0 /\ 0 \notin 1..Len(bufConn)
  BY <1>0 DEF Buf!NoEvent
<1>4. BufType'
  BY <1>1, <1>2 DEF BufInv, BufType
<1>5. BufEvents'
  BY <1>0, <1>1, <1>2, <1>3 DEF BufInv, BufEvents
<1>6. \A c \in 1..Len(bufConn') : ConnSound(bufConn'[c])
  BY <1>1 DEF BufInv
<1> QED
  BY <1>4, <1>5, <1>6 DEF BufInv

\* The connection whose event is handled, and its socket.
LEMMA BufCurrent ==
  ASSUME BufInv, bufPc \in {"read", "callback", "write", "close"}
  PROVE  /\ bufCur.ptr \in 1..Len(bufConn) /\ bufCur.ptr \in Buf!Conns
         /\ ConnSound(bufConn[bufCur.ptr]) /\ bufCur.ptr \in DOMAIN bufConn
         /\ net[bufCur.ptr].room \in Nat /\ net[bufCur.ptr].arrived \in Nat
         /\ bufConn[bufCur.ptr].output \in Nat /\ bufConn[bufCur.ptr].received \in Nat
<1>1. bufConn \in Seq(ConnType) /\ Len(bufConn) \in Nat /\ DOMAIN bufConn = 1..Len(bufConn)
  BY LenProperties DEF BufInv, BufType
<1>2. bufCur.ptr \in 1..Len(bufConn) /\ ConnSound(bufConn[bufCur.ptr])
  BY DEF BufInv, BufEvents
<1>3. bufCur.ptr \in Buf!Conns
  BY <1>1, <1>2, BuffersAssumption DEF BufInv, BufType, Buf!Conns
<1>4. net[bufCur.ptr].room \in Nat /\ net[bufCur.ptr].arrived \in Nat
  BY <1>3 DEF BufInv, BufType, BufSockets
<1> QED
  BY <1>1, <1>2, <1>3, <1>4, ConnFields

\* A socket after n bytes were taken.
LEMMA BufRoomTaken ==
  ASSUME BufInv, NEW c \in Buf!Conns, NEW n \in Nat, n <= net[c].room
  PROVE  [net EXCEPT ![c].room = @ - n] \in BufSockets
<1>1. net[c].room \in Nat
  BY DEF BufInv, BufType, BufSockets
<1>2. net[c].room - n \in Nat
  BY <1>1
<1> QED
  BY <1>2 DEF BufInv, BufType, BufSockets

\* A read: bytes, the end of the stream, or a failure, which throws.
LEMMA BufRead ==
  ASSUME BufInv, Buf!HandleRead
  PROVE  BufInv'
<1> DEFINE c == bufCur.ptr
           k == bufConn[c]
           n == Buf!Min({net[c].arrived - k.received, Buf!GetFreeSize(k.buf) + BufExtra})
<1>0. bufPc = "read" /\ UNCHANGED <<net, waiting, batch>>
  BY DEF Buf!HandleRead
<1>1. ConnSound(k) /\ net[c].arrived \in Nat /\ k.received \in Nat /\ c \in DOMAIN bufConn
  BY <1>0, BufCurrent
<1>2. n \in Int
  <2>1. Buf!GetFreeSize(k.buf) \in Int
    BY <1>1 DEF ConnSound, BufferSound, BufferType, Buf!GetFreeSize
  <2>2. net[c].arrived - k.received \in Int /\ Buf!GetFreeSize(k.buf) + BufExtra \in Int
    BY <1>1, <2>1, BuffersAssumption
  <2> QED
    BY <2>2, BufMinMax
<1>3. net' \in BufSockets
  BY <1>0 DEF BufInv, BufType
<1>4. CASE /\ n > 0
           /\ bufConn' = [bufConn EXCEPT ![c] = [k EXCEPT !.buf = Buf!Recv(@, n), !.received = @ + n]]
           /\ bufPc' = "callback" /\ UNCHANGED bufCur
  <2> HIDE DEF n
  <2>1. n \in Nat
    BY <1>2, <1>4
  <2>2. ConnSound([k EXCEPT !.buf = Buf!Recv(@, n), !.received = @ + n])
    BY <1>1, <2>1, ConnRead
  <2> QED
    BY <1>0, <1>3, <1>4, <2>2, BufHandled
<1>5. CASE bufConn' = [bufConn EXCEPT ![c] = Buf!Close(k)] /\ Buf!Proceed("read")
  <2>1. ConnSound(Buf!Close(k))
    BY <1>1, ConnClosed
  <2> QED
    BY <1>0, <1>3, <1>5, <2>1, BufHandled
<1>6. CASE bufPc' = "threw" /\ UNCHANGED <<bufConn, bufCur>>
  <2>1. BufType'
    BY <1>0, <1>6 DEF BufInv, BufType
  <2>2. BufEvents'
    BY <1>0, <1>6 DEF BufInv, BufEvents
  <2> QED
    BY <1>6, <2>1, <2>2 DEF BufInv
<1> QED
  BY <1>4, <1>5, <1>6 DEF Buf!HandleRead

\* The callback takes a line and answers.
LEMMA BufCallback ==
  ASSUME BufInv, Buf!ReadCallback
  PROVE  BufInv'
<1> DEFINE c == bufCur.ptr
           reset == net[c].state = "reset"
           direct == ~bufConn[c].closed /\ bufConn[c].output = 0 /\ net[c].state # "reset"
<1>0. bufPc = "callback" /\ Buf!Proceed("read") /\ UNCHANGED <<waiting, batch>>
  BY DEF Buf!ReadCallback
<1>1. PICK n \in 0..BufMessage :
        /\ Buf!Takes(c, n)
        /\ bufConn' = [bufConn EXCEPT ![c] = Buf!Send(Buf!GetDataUntilCrLf(@), n, reset)]
        /\ net' = IF direct THEN [net EXCEPT ![c].room = @ - n] ELSE net
  BY DEF Buf!ReadCallback
<1>2. ConnSound(bufConn[c]) /\ c \in DOMAIN bufConn /\ c \in Buf!Conns /\ net[c].room \in Nat
  BY <1>0, BufCurrent
<1>3. n \in Nat /\ n <= net[c].room
  <2>1. n = Buf!Min({net[c].room, BufMessage})
    BY <1>0, <1>1 DEF Buf!Takes
  <2>2. n = (IF net[c].room <= BufMessage THEN net[c].room ELSE BufMessage)
    BY <1>2, <2>1, BufMinMax, BuffersAssumption
  <2> QED
    BY <1>2, <2>2, BuffersAssumption
<1>4. net' \in BufSockets
  <2>1. CASE direct
    BY <1>1, <1>2, <1>3, <2>1, BufRoomTaken
  <2>2. CASE ~direct
    BY <1>1, <2>2 DEF BufInv, BufType
  <2> QED
    BY <2>1, <2>2
<1>5. ConnSound(Buf!Send(Buf!GetDataUntilCrLf(bufConn[c]), n, reset))
  <2>1. ConnSound(Buf!GetDataUntilCrLf(bufConn[c]))
    BY <1>2, ConnLine
  <2>2. reset \in BOOLEAN
    OBVIOUS
  <2> HIDE DEF reset
  <2> QED
    BY <1>1, <2>1, <2>2, ConnSent
<1>6. bufConn' = [bufConn EXCEPT ![c] = Buf!Send(Buf!GetDataUntilCrLf(bufConn[c]), n, reset)]
  BY <1>1, <1>2
<1> QED
  BY <1>0, <1>4, <1>5, <1>6, BufHandled

\* A write of the output that waits.
LEMMA BufWrite ==
  ASSUME BufInv, Buf!HandleWrite
  PROVE  BufInv'
<1> DEFINE c == bufCur.ptr
           k == bufConn[c]
<1>0. bufPc = "write" /\ Buf!Proceed("write") /\ UNCHANGED <<waiting, batch>>
  BY DEF Buf!HandleWrite
<1>1. ConnSound(k) /\ c \in DOMAIN bufConn /\ c \in Buf!Conns /\ net[c].room \in Nat /\ k.output \in Nat
  BY <1>0, BufCurrent
<1>2. net \in BufSockets
  BY DEF BufInv, BufType
<1>3. CASE UNCHANGED <<bufConn, net>>
  <2>1. bufConn' = [bufConn EXCEPT ![c] = k]
    <3>1. bufConn \in [1..Len(bufConn) -> ConnType]
      BY LenProperties DEF BufInv, BufType
    <3> QED
      BY <1>3, <3>1
  <2> QED
    BY <1>0, <1>1, <1>2, <1>3, <2>1, BufHandled
<1>4. CASE bufConn' = [bufConn EXCEPT ![c] = Buf!Close(k)] /\ UNCHANGED net
  <2>1. ConnSound(Buf!Close(k))
    BY <1>1, ConnClosed
  <2> QED
    BY <1>0, <1>2, <1>4, <2>1, BufHandled
<1>5. CASE /\ ~k.closed
           /\ \E n \in 0..BufRoom :
                 /\ Buf!Takes(c, n)
                 /\ LET left == [k EXCEPT !.output = @ - n, !.delivered = @ + n]
                    IN  bufConn' = [bufConn EXCEPT ![c] =
                                      IF left.output = 0 THEN Buf!DisableWrite(left) ELSE left]
                 /\ net' = [net EXCEPT ![c].room = @ - n]
  <2>1. PICK n \in 0..BufRoom :
          /\ Buf!Takes(c, n)
          /\ LET left == [k EXCEPT !.output = @ - n, !.delivered = @ + n]
             IN  bufConn' = [bufConn EXCEPT ![c] =
                               IF left.output = 0 THEN Buf!DisableWrite(left) ELSE left]
          /\ net' = [net EXCEPT ![c].room = @ - n]
    BY <1>5
  <2>2. n \in Nat /\ n <= net[c].room /\ n <= k.output
    <3>1. n = Buf!Min({net[c].room, k.output})
      BY <1>0, <2>1 DEF Buf!Takes
    <3>2. n = (IF net[c].room <= k.output THEN net[c].room ELSE k.output)
      BY <1>1, <3>1, BufMinMax
    <3> QED
      BY <1>1, <3>2
  <2>3. net' \in BufSockets
    BY <1>1, <2>1, <2>2, BufRoomTaken
  <2> DEFINE left == [k EXCEPT !.output = @ - n, !.delivered = @ + n]
             r == IF left.output = 0 THEN Buf!DisableWrite(left) ELSE left
  <2>4. ConnSound(r)
    BY <1>1, <1>5, <2>2, ConnWritten
  <2>5. bufConn' = [bufConn EXCEPT ![c] = r]
    BY <2>1
  <2> HIDE DEF r, left
  <2> QED
    BY <1>0, <2>3, <2>4, <2>5, BufHandled
<1> QED
  BY <1>3, <1>4, <1>5 DEF Buf!HandleWrite

\* The peer has hung up.
LEMMA BufHangup ==
  ASSUME BufInv, Buf!HandleHangup
  PROVE  BufInv'
<1>0. bufPc = "close" /\ Buf!Proceed("close") /\ UNCHANGED <<net, waiting, batch>>
  BY DEF Buf!HandleHangup
<1>1. ConnSound(bufConn[bufCur.ptr]) /\ bufCur.ptr \in DOMAIN bufConn
  BY <1>0, BufCurrent
<1>2. bufConn' = [bufConn EXCEPT ![bufCur.ptr] = Buf!Close(bufConn[bufCur.ptr])]
  BY <1>1 DEF Buf!HandleHangup
<1>3. ConnSound(Buf!Close(bufConn[bufCur.ptr]))
  BY <1>1, ConnClosed
<1>4. net' \in BufSockets
  BY <1>0 DEF BufInv, BufType
<1> QED
  BY <1>0, <1>2, <1>3, <1>4, BufHandled

\* What the peers do.
LEMMA BufPeers ==
  ASSUME BufInv, Buf!Connect \/ \E c \in DOMAIN bufConn : Buf!PeerActs(c)
  PROVE  BufInv'
<1>1. CASE Buf!Connect
  <2>1. /\ Len(bufConn) + waiting < BufConns /\ waiting' = waiting + 1
        /\ UNCHANGED <<bufConn, net, batch, bufCur, bufPc>>
    BY <1>1 DEF Buf!Connect
  <2>2. Len(bufConn) \in Nat /\ waiting \in Nat
    BY LenProperties DEF BufInv, BufType
  <2>3. waiting' \in Nat /\ Len(bufConn) + waiting' <= BufConns /\ waiting' > 0
    BY <2>1, <2>2, BuffersAssumption
  <2>4. BufType'
    BY <2>1, <2>3 DEF BufInv, BufType
  <2>5. BufEvents'
    BY <2>1, <2>3 DEF BufInv, BufEvents
  <2> QED
    BY <2>1, <2>4, <2>5 DEF BufInv
<1>2. ASSUME NEW c \in DOMAIN bufConn, Buf!PeerActs(c) PROVE BufInv'
  <2>1. UNCHANGED <<bufConn, waiting, batch, bufCur, bufPc>>
    BY <1>2 DEF Buf!PeerActs
  <2>2. net' \in BufSockets
    <3>0. net \in BufSockets
      BY DEF BufInv, BufType
    <3>1. c \in Buf!Conns
      <4>1. DOMAIN bufConn = 1..Len(bufConn) /\ Len(bufConn) \in Nat /\ waiting \in Nat
        BY LenProperties DEF BufInv, BufType
      <4> QED
        BY <4>1, BuffersAssumption DEF BufInv, BufType, Buf!Conns
    <3>2. net[c].arrived \in Nat
      BY <3>0, <3>1 DEF BufSockets
    <3>3. ASSUME NEW a \in (net[c].arrived + 1)..BufStream, net' = [net EXCEPT ![c].arrived = a]
          PROVE  net' \in BufSockets
      <4>1. a \in Nat
        BY <3>2, BuffersAssumption
      <4> QED
        BY <3>0, <3>1, <3>3, <4>1 DEF BufSockets
    <3>4. CASE net' = [net EXCEPT ![c].room = BufRoom]
      BY <3>0, <3>1, <3>4, BuffersAssumption DEF BufSockets
    <3>5. ASSUME NEW st \in {"shut", "reset"}, net' = [net EXCEPT ![c].state = st] PROVE net' \in BufSockets
      BY <3>0, <3>1, <3>5 DEF BufSockets
    <3> QED
      BY <1>2, <3>3, <3>4, <3>5 DEF Buf!PeerActs
  <2>3. BufType'
    BY <2>1, <2>2 DEF BufInv, BufType
  <2>4. BufEvents'
    BY <2>1 DEF BufInv, BufEvents
  <2> QED
    BY <2>1, <2>3, <2>4 DEF BufInv
<1> QED
  BY <1>1, <1>2

\* Every step of the loop and of the peers keeps the invariant.
LEMMA BufNext == BufInv /\ [Buf!Next]_bufVars => BufInv'
<1> SUFFICES ASSUME BufInv, [Buf!Next]_bufVars PROVE BufInv'
  OBVIOUS
<1>1. CASE UNCHANGED bufVars
  BY <1>1 DEF bufVars, BufInv, BufType, BufEvents
<1>2. CASE Buf!Next
  BY <1>2, BufPoll, BufBatchDone, BufAccept, BufHandleIO, BufRead, BufCallback, BufWrite, BufHangup,
     BufPeers DEF Buf!Next
<1> QED
  BY <1>1, <1>2

\* What the invariant says of the function objects, the buffers and the output.
LEMMA BufSound == BufInv => Buf!BufferServerSound
<1> SUFFICES ASSUME BufInv PROVE Buf!BufferServerSound
  OBVIOUS
<1>1. bufPc # "empty" /\ DOMAIN bufConn = 1..Len(bufConn)
  BY LenProperties DEF BufInv, BufType
<1>2. ASSUME NEW c \in 1..Len(bufConn)
      PROVE  /\ Buf!GetActiveSize(bufConn[c].buf) = bufConn[c].received - bufConn[c].consumed
             /\ 0 <= bufConn[c].buf.rpos /\ bufConn[c].buf.rpos <= bufConn[c].buf.wpos
             /\ bufConn[c].buf.wpos <= bufConn[c].buf.size
             /\ bufConn[c].delivered + bufConn[c].output = bufConn[c].sent
             /\ ~bufConn[c].closed => ("out" \in bufConn[c].interest <=> bufConn[c].output > 0)
  <2>1. ConnSound(bufConn[c])
    BY DEF BufInv
  <2>2. bufConn[c].buf.rpos \in Nat
    BY <2>1 DEF ConnSound, BufferSound, BufferType
  <2> QED
    BY <2>1, <2>2 DEF ConnSound, BufferSound
<1> QED
  BY <1>1, <1>2 DEF Buf!BufferServerSound

------------------------------------------------------------------------------
(* network_buffer_design                                                   *)

\* A step of another component leaves the server alone.
LEMMA BuffersStep ==
  BufInv /\ [ComponentNext]_componentVars => BufInv'
<1> SUFFICES ASSUME BufInv, [ComponentNext]_componentVars PROVE BufInv'
  OBVIOUS
<1>1. [Buf!Next]_bufVars
  BY DEF ComponentNext, componentVars, AtomicNext, ArithmeticNext, atomicVars, arithmeticVars
<1> QED
  BY <1>1, BufNext

\* For every number of connections, every size of a buffer and every stream, what a
\* connection received is consumed or in its buffer, what it sent is delivered or
\* waits to be, EPOLLOUT is on exactly while something does, and the handler of a
\* connection that was closed is never called.
THEOREM Buffers == ComponentSpec => []BuffersSound
<1>1. ComponentInit => BufInv
  BY BufInit DEF ComponentInit
<1>2. BufInv /\ [ComponentNext]_componentVars => BufInv'
  BY BuffersStep
<1>3. BufInv => BuffersSound
  BY BufSound DEF BuffersSound
<1> QED
  BY <1>1, <1>2, <1>3, PTL DEF ComponentSpec
==============================================================================
