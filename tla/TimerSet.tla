------------------------------ MODULE TimerSet ------------------------------
(***************************************************************************)
(* The timers of timer/timer.cc and timer/timer_with_timerfd.cc: an        *)
(* ordered set of nodes (expire, id), and the loop around it, which waits  *)
(* with a timeout (timer.cc) or for a timerfd (byFd).  A callback may add  *)
(* and delete timers; one that deletes its own is left out, it invalidates *)
(* the iterator HandleTimer holds.                                         *)
(***************************************************************************)
EXTENDS Integers, Sequences, FiniteSets

CONSTANTS Msecs, MaxTick, MaxId   \* bounds: the clock stops at MaxTick, ids at MaxId

VARIABLES
    byFd,       \* which of the two programs
    timeouts,   \* the set, as the sequence of its nodes in order
    gid, tick,
    loop,       \* "arm": before the wait, "wait", "handle"; "callback": in one
    wake,       \* while waiting: when the wait ends of itself, -1 for never
    nowArg,     \* the argument of HandleTimer
    iter,       \* the node of the callback that runs
    ran,        \* history: the last node whose callback ran
    removed     \* history: ids whose timer ran or was deleted
vars == <<byFd, timeouts, gid, tick, loop, wake, nowArg, iter, ran, removed>>

None == [expire |-> -1, id |-> -1]
Nodes == {timeouts[i] : i \in DOMAIN timeouts}

Init ==
    /\ byFd \in BOOLEAN
    /\ timeouts = <<>> /\ gid = 0 /\ tick = 1 /\ loop = "arm" /\ wake = -1
    /\ nowArg = -1 /\ iter = None /\ ran = None /\ removed = {}

\* operator <
Before(a, b) == a.expire < b.expire \/ (a.expire = b.expire /\ a.id < b.id)

\* std::set::emplace: nothing happens when an equivalent node is there.
Emplaced(node) ==
    LET smaller == SelectSeq(timeouts, LAMBDA m : Before(m, node))
        larger  == SelectSeq(timeouts, LAMBDA m : Before(node, m))
    IN  IF Len(smaller) + Len(larger) < Len(timeouts)
        THEN timeouts ELSE smaller \o <<node>> \o larger

\* emplace_hint at the end; the hint only saves the search.
EmplacedLast(node) ==
    IF Before(timeouts[Len(timeouts)], node) THEN Append(timeouts, node) ELSE Emplaced(node)

UserMayCall == loop \in {"arm", "callback"}

AddTimer(msec) ==
    /\ UserMayCall /\ gid < MaxId
    /\ LET node == [expire |-> tick + msec, id |-> gid]
       IN  timeouts' = IF timeouts = <<>> \/ node.expire <= timeouts[Len(timeouts)].expire
                       THEN Emplaced(node) ELSE EmplacedLast(node)
    /\ gid' = gid + 1
    /\ UNCHANGED <<byFd, tick, loop, wake, nowArg, iter, ran, removed>>

\* The caller keeps the node AddTimer returned; one that is gone is not found.
DelTimer(node) ==
    /\ UserMayCall /\ node # iter
    /\ timeouts' = SelectSeq(timeouts, LAMBDA m : Before(m, node) \/ Before(node, m))
    /\ removed' = IF node \in Nodes THEN removed \cup {node.id} ELSE removed
    /\ UNCHANGED <<byFd, gid, tick, loop, wake, nowArg, iter, ran>>

TimeToSleep ==
    IF timeouts = <<>> THEN -1
    ELSE IF timeouts[1].expire > tick THEN timeouts[1].expire - tick ELSE 0

\* The absolute time the timerfd is set to, 0 to disarm it; a time that has
\* passed makes it readable at once.
UpdateTimerfd == IF timeouts = <<>> THEN 0 ELSE timeouts[1].expire

\* epoll_wait begins; wake is when it returns at the latest.
Wait ==
    /\ loop = "arm" /\ loop' = "wait"
    /\ wake' = IF byFd THEN (IF UpdateTimerfd = 0 THEN -1 ELSE UpdateTimerfd)
               ELSE (IF TimeToSleep = -1 THEN -1 ELSE tick + TimeToSleep)
    /\ UNCHANGED <<byFd, timeouts, gid, tick, nowArg, iter, ran, removed>>

\* It returns because of the time, or earlier because of another event.
Wakes ==
    /\ loop = "wait" /\ loop' = "handle"
    /\ nowArg' = tick /\ wake' = -1
    /\ UNCHANGED <<byFd, timeouts, gid, tick, iter, ran, removed>>

\* The test of HandleTimer's loop.
HandleTimer ==
    /\ loop = "handle"
    /\ IF timeouts # <<>> /\ timeouts[1].expire <= nowArg
       THEN /\ loop' = "callback" /\ iter' = timeouts[1] /\ ran' = timeouts[1]
            /\ UNCHANGED nowArg
       ELSE loop' = "arm" /\ nowArg' = -1 /\ UNCHANGED <<iter, ran>>
    /\ UNCHANGED <<byFd, timeouts, gid, tick, wake, removed>>

\* The callback returns: its node is erased, wherever it is now.
EraseIter ==
    /\ loop = "callback" /\ loop' = "handle"
    /\ timeouts' = SelectSeq(timeouts, LAMBDA m : m # iter)
    /\ removed' = removed \cup {iter.id} /\ iter' = None
    /\ UNCHANGED <<byFd, gid, tick, wake, nowArg, ran>>

\* The clock does not pass the end of a wait before the wait returns.
Tick ==
    /\ tick < MaxTick /\ (loop = "wait" /\ wake # -1 => tick < wake)
    /\ tick' = tick + 1
    /\ UNCHANGED <<byFd, timeouts, gid, loop, wake, nowArg, iter, ran, removed>>

Next ==
    \/ \E msec \in Msecs : AddTimer(msec)
    \/ \E node \in Nodes : DelTimer(node)
    \/ Wait \/ Wakes \/ HandleTimer \/ EraseIter \/ Tick

------------------------------------------------------------------------------
(* Properties                                                              *)

\* The set holds exactly the timers added and neither run nor deleted, two of
\* the same millisecond included; they run in the order of (expire, id) even
\* when callbacks add timers that are due at once, never before their time;
\* and the loop does not sleep past the time of any of them.
TimerSetSound ==
    /\ {m.id : m \in Nodes} = (0..gid - 1) \ removed
    /\ \A m \in Nodes \ {iter} : Before(ran, m)
    /\ iter # None => timeouts[1] = iter /\ iter.expire <= tick
    /\ loop = "wait" => \A m \in Nodes : wake # -1 /\ (wake <= m.expire \/ wake <= tick)

==============================================================================
