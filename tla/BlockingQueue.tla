---------------------------- MODULE BlockingQueue ----------------------------
(***************************************************************************)
(* The blocking queue of threadpool/blockingqueue.h (the same class is     *)
(* mysqlconnpool/BlockingQueue.h): an unbounded std::queue guarded by one  *)
(* mutex, with one condition variable on which Pop waits.                  *)
(*                                                                         *)
(* Push, Cancel and each pass of Pop through its wait predicate run with   *)
(* mutex_ held from beginning to end, and wait gives the mutex up          *)
(* atomically, so each critical section is one action.  The condition      *)
(* variable is the set of threads that sleep in it.  A thread leaves the   *)
(* set when it is notified or wakes spuriously, and then takes the mutex   *)
(* and evaluates the predicate again like a thread that has just called    *)
(* Pop.                                                                    *)
(***************************************************************************)
EXTENDS Naturals, Sequences, FiniteSets

VARIABLES
    queue_,      \* the elements pushed and not yet popped
    nonblock_,   \* set by Cancel; Pop then returns false on an empty queue
    notEmpty     \* the threads asleep in not_empty_.wait

bqVars == <<queue_, nonblock_, notEmpty>>

\* blockingqueue.h:15.  The pool and the connections construct the queue in
\* blocking mode.
BQInit ==
    /\ queue_ = <<>>
    /\ nonblock_ = FALSE
    /\ notEmpty = {}

\* notify_one wakes some sleeping thread, and nobody when none sleeps.
NotifyOne ==
    IF notEmpty = {} THEN UNCHANGED notEmpty
    ELSE \E t \in notEmpty : notEmpty' = notEmpty \ {t}

\* A push that forgets its notify_one.
PushNoNotify(v) ==
    /\ queue_' = Append(queue_, v)
    /\ UNCHANGED <<nonblock_, notEmpty>>

Push(v) ==
    /\ queue_' = Append(queue_, v)
    /\ NotifyOne
    /\ UNCHANGED nonblock_

\* Pop returns true with the front element.
PopFront(t, v) ==
    /\ t \notin notEmpty
    /\ queue_ # <<>>
    /\ v = Head(queue_)
    /\ queue_' = Tail(queue_)
    /\ UNCHANGED <<nonblock_, notEmpty>>

\* Pop returns false: the queue is empty and Cancel has been called.
PopFalse(t) ==
    /\ t \notin notEmpty
    /\ queue_ = <<>>
    /\ nonblock_
    /\ UNCHANGED bqVars

\* The wait predicate is false: the thread sleeps.
PopWait(t) ==
    /\ t \notin notEmpty
    /\ queue_ = <<>>
    /\ ~nonblock_
    /\ notEmpty' = notEmpty \cup {t}
    /\ UNCHANGED <<queue_, nonblock_>>

\* std::condition_variable::wait may return without a notification.
SpuriousWake(t) ==
    /\ t \in notEmpty
    /\ notEmpty' = notEmpty \ {t}
    /\ UNCHANGED <<queue_, nonblock_>>

\* A Cancel that wakes one sleeper instead of all of them.
CancelNotifyOne ==
    /\ nonblock_' = TRUE
    /\ NotifyOne
    /\ UNCHANGED queue_

Cancel ==
    /\ nonblock_' = TRUE
    /\ notEmpty' = {}
    /\ UNCHANGED queue_

==============================================================================
