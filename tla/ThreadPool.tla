----------------------------- MODULE ThreadPool ------------------------------
(***************************************************************************)
(* threadpool/threadpool.cc: ThreadNum workers popping one BlockingQueue,  *)
(* from the constructor that starts them to the destructor that cancels    *)
(* the queue and joins them one after the other.                           *)
(*                                                                         *)
(* Tasks are the numbers 1..MaxTasks in the order they are posted.  A task *)
(* is posted by a thread outside the pool, only between the end of the     *)
(* constructor and the beginning of the destructor (the lifetime of the    *)
(* object), or by a task the pool is running, which may happen while the   *)
(* destructor waits in join.                                               *)
(***************************************************************************)
EXTENDS BlockingQueue

CONSTANTS
    ThreadNum,   \* the constructor's argument
    MaxTasks     \* bound: tasks posted in one behaviour

ASSUME ThreadPoolAssumption ==
    /\ ThreadNum \in Nat \ {0}
    /\ MaxTasks \in Nat

Workers == 1..ThreadNum

VARIABLES
    phase,       \* the pool object: "ctor", "live", "dtor", "gone"
    joined,      \* how many workers the destructor has joined
    pc,          \* worker -> "unborn", "pop", "run" or "exited"
    task,        \* worker -> the task it runs (0: none)
    posted,      \* history: how many tasks have been posted
    begun,       \* history: the tasks in the order workers took them
    finished     \* history: the tasks that have run to the end

poolVars == <<phase, joined, pc, task, posted, begun, finished>>
vars == <<bqVars, poolVars>>

Init ==
    /\ BQInit
    /\ phase = "ctor"
    /\ joined = 0
    /\ pc = [w \in Workers |-> "unborn"]
    /\ task = [w \in Workers |-> 0]
    /\ posted = 0
    /\ begun = <<>>
    /\ finished = {}

------------------------------------------------------------------------------
(* Constructor: workers_.emplace_back starts the threads in order.         *)

StartWorker(w) ==
    /\ phase = "ctor"
    /\ pc[w] = "unborn"
    /\ \A v \in 1..(w - 1) : pc[v] # "unborn"
    /\ pc' = [pc EXCEPT ![w] = "pop"]
    /\ phase' = IF w = ThreadNum THEN "live" ELSE phase
    /\ UNCHANGED <<bqVars, joined, task, posted, begun, finished>>

------------------------------------------------------------------------------
(* Post pushes and returns; there is no limit on the queue.                *)

PostTask ==
    /\ posted < MaxTasks
    /\ posted' = posted + 1
    /\ Push(posted + 1)

Post ==
    /\ phase = "live"
    /\ PostTask
    /\ UNCHANGED <<phase, joined, pc, task, begun, finished>>

\* A running task posts another one.
PostFromTask(w) ==
    /\ pc[w] = "run"
    /\ PostTask
    /\ UNCHANGED <<phase, joined, pc, task, begun, finished>>

------------------------------------------------------------------------------
(* Worker: while (true) { if (!Pop(task)) break; task(); }                 *)

WorkerTake(w) ==
    /\ pc[w] = "pop"
    /\ \E v \in 1..MaxTasks :
         /\ PopFront(w, v)
         /\ task' = [task EXCEPT ![w] = v]
         /\ begun' = Append(begun, v)
    /\ pc' = [pc EXCEPT ![w] = "run"]
    /\ UNCHANGED <<phase, joined, posted, finished>>

WorkerSleep(w) ==
    /\ pc[w] = "pop"
    /\ PopWait(w)
    /\ UNCHANGED poolVars

WorkerExit(w) ==
    /\ pc[w] = "pop"
    /\ PopFalse(w)
    /\ pc' = [pc EXCEPT ![w] = "exited"]
    /\ UNCHANGED <<phase, joined, task, posted, begun, finished>>

WorkerWake(w) ==
    /\ SpuriousWake(w)
    /\ UNCHANGED poolVars

\* A worker that returns to the loop without having run what it popped
\* while the pool shuts down.
WorkerRunDropped(w) ==
    /\ pc[w] = "run"
    /\ finished' = IF phase = "dtor" THEN finished ELSE finished \cup {task[w]}
    /\ task' = [task EXCEPT ![w] = 0]
    /\ pc' = [pc EXCEPT ![w] = "pop"]
    /\ UNCHANGED <<bqVars, phase, joined, posted, begun>>

WorkerRun(w) ==
    /\ pc[w] = "run"
    /\ finished' = finished \cup {task[w]}
    /\ task' = [task EXCEPT ![w] = 0]
    /\ pc' = [pc EXCEPT ![w] = "pop"]
    /\ UNCHANGED <<bqVars, phase, joined, posted, begun>>

------------------------------------------------------------------------------
(* Destructor: Cancel, then join the workers in the order they were made.  *)

DestroyBegin ==
    /\ phase = "live"
    /\ phase' = "dtor"
    /\ Cancel
    /\ UNCHANGED <<joined, pc, task, posted, begun, finished>>

Join ==
    /\ phase = "dtor"
    /\ joined < ThreadNum
    /\ pc[joined + 1] = "exited"
    /\ joined' = joined + 1
    /\ phase' = IF joined + 1 = ThreadNum THEN "gone" ELSE phase
    /\ UNCHANGED <<bqVars, pc, task, posted, begun, finished>>

\* The pool is destroyed and its threads have ended.
Stopped ==
    /\ phase = "gone"
    /\ UNCHANGED vars

------------------------------------------------------------------------------
\* What a worker thread does by itself.
WorkerStep(w) ==
    WorkerTake(w) \/ WorkerSleep(w) \/ WorkerExit(w) \/ WorkerRun(w)

Next ==
    \/ \E w \in Workers :
          StartWorker(w) \/ PostFromTask(w) \/ WorkerStep(w) \/ WorkerWake(w)
    \/ Post
    \/ DestroyBegin
    \/ Join
    \/ Stopped

Spec == Init /\ [][Next]_vars

\* Started threads keep running, take the mutex when they contend for it, and
\* tasks return.  Nothing says that anyone posts, that a task posts, that a
\* sleeper wakes by itself or that the pool is ever destroyed.
Fairness ==
    /\ \A w \in Workers : WF_vars(StartWorker(w)) /\ WF_vars(WorkerStep(w))
    /\ WF_vars(Join)

FairSpec == Spec /\ Fairness

------------------------------------------------------------------------------
(* Properties                                                              *)

\* The queue holds tasks, the condition holds workers, and the destructor
\* never joins past the last worker.
TypeOK ==
    /\ queue_ \in Seq(1..MaxTasks)
    /\ nonblock_ \in BOOLEAN
    /\ notEmpty \in SUBSET Workers
    /\ phase \in {"ctor", "live", "dtor", "gone"}
    /\ joined \in 0..ThreadNum
    /\ pc \in [Workers -> {"unborn", "pop", "run", "exited"}]
    /\ task \in [Workers -> 0..MaxTasks]
    /\ \A w \in Workers : pc[w] = "run" <=> task[w] # 0
    /\ posted \in 0..MaxTasks
    /\ begun \in Seq(1..MaxTasks)
    /\ finished \in SUBSET (1..MaxTasks)

\* Workers about to evaluate Pop's predicate.
Ready == {w \in Workers : pc[w] = "pop" /\ w \notin notEmpty}

\* Push's notify_one is never lost: while some worker sleeps, the backlog is
\* covered by workers that are awake and on their way into Pop, one for each
\* queued task.  (Push notifies one thread only, and a thread running a task
\* is not on its way.)
WakeupsCoverBacklog ==
    notEmpty # {} => Len(queue_) <= Cardinality(Ready)

\* The tasks taken by the workers followed by the tasks still queued are
\* exactly the tasks posted, in the order of their posts: none is lost,
\* duplicated or overtaken, whichever workers and posters interleave.
TakenInPostOrder ==
    begun \o queue_ = [i \in 1..posted |-> i]

\* When ~ThreadPool returns, every task ever posted has run to its end, also
\* the ones queued when Cancel was called and the ones tasks posted since.
DrainedWhenGone ==
    phase = "gone" => finished = 1..posted

\* The destructor never frees the queue under a worker: when it returns, no
\* worker is asleep in the condition variable, running or about to pop.
NoWorkerOutlivesPool ==
    phase = "gone" => \A w \in Workers : pc[w] = "exited"

\* A posted task is run in the end, whether or not the pool is being
\* destroyed.
PostedTasksRun ==
    \A i \in 1..MaxTasks : posted >= i ~> i \in finished

\* The destructor returns: Cancel wakes every sleeper and no worker sleeps
\* again, so no join blocks for ever.
DestructorReturns == phase = "dtor" ~> phase = "gone"

==============================================================================
