------------------------ MODULE ProducerConsumerQueue ------------------------
(***************************************************************************)
(* ProducerConsumerQueue of mysql-conn-pool/dbimpl (and its copy in        *)
(* free_queue), the queue that the worker threads of a DatabaseWorkerPool  *)
(* share.  Every function runs under _queueLock, so each is one step; only *)
(* the wait of WaitAndPop divides it.  Cancel deletes what is queued, and  *)
(* the queue stays shut down for ever.                                     *)
(***************************************************************************)
EXTENDS Integers, Sequences

VARIABLES
    _queue,       \* the operations, front first
    _shutdown,
    _condition    \* the threads asleep in _condition.wait

queueVars == <<_queue, _shutdown, _condition>>

\* A queue just constructed.
QueueInit == _queue = <<>> /\ _shutdown = FALSE /\ _condition = {}

\* notify_one wakes one of the threads asleep, if there is one.
NotifyOne ==
    IF _condition = {} THEN UNCHANGED _condition
    ELSE \E t \in _condition : _condition' = _condition \ {t}

\* An operation queued without telling anybody.
PushSilently(v) ==
    /\ _queue' = Append(_queue, v)
    /\ UNCHANGED <<_shutdown, _condition>>

Push(v) ==
    /\ _queue' = Append(_queue, v)
    /\ NotifyOne
    /\ UNCHANGED _shutdown

\* WaitAndPop by thread t returns the front ...
PopValue(t, v) ==
    /\ t \notin _condition
    /\ _queue # <<>> /\ ~_shutdown
    /\ v = Head(_queue)
    /\ _queue' = Tail(_queue)
    /\ UNCHANGED <<_shutdown, _condition>>

\* ... or leaves value alone, the queue being shut down ...
PopNothing(t) ==
    /\ t \notin _condition
    /\ _shutdown
    /\ UNCHANGED queueVars

\* ... or goes to sleep.
Wait(t) ==
    /\ t \notin _condition
    /\ _queue = <<>> /\ ~_shutdown
    /\ _condition' = _condition \cup {t}
    /\ UNCHANGED <<_queue, _shutdown>>

\* A wait may end for no reason.
SpuriousWake(t) ==
    /\ t \in _condition
    /\ _condition' = _condition \ {t}
    /\ UNCHANGED <<_queue, _shutdown>>

\* A shutdown that wakes one thread.
CancelNotifyOne ==
    /\ _queue' = <<>>
    /\ _shutdown' = TRUE
    /\ NotifyOne

\* Delete everything queued, shut down and wake every thread.
Cancel ==
    /\ _queue' = <<>>
    /\ _shutdown' = TRUE
    /\ _condition' = {}

==============================================================================
