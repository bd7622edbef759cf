------------------------------- MODULE MsTimers -------------------------------
(***************************************************************************)
(* dbimpl/Timer.h: the difference of two readings of the millisecond clock *)
(* and the timers built on it.  The clock is a counter of Clock values     *)
(* (2^32 in the code); the caller reads it, hands the difference to the    *)
(* timers and lets those that have passed act.                             *)
(***************************************************************************)
EXTENDS Integers

CONSTANTS
    Clock,           \* the number of values of getMSTime
    Interval, Period, StartTime, Expiry,   \* of the timers
    Diffs, MaxTime   \* the times between two updates, and the bound on the whole time

VARIABLES
    time,            \* the real time since the clock was 0
    last,            \* the reading at the last update
    _current,        \* of IntervalTimer
    _expiryTime,     \* of TimeTracker
    i_expireTime,    \* of PeriodicTimer
    passed,          \* the timers that have passed and are not reset yet
    started,         \* history: the time at which the timers were started
    told,            \* history: the differences handed over, added up
    fired,           \* history: how often PeriodicTimer::Update returned true
    late,            \* history: PeriodicTimer was given a difference of Period or more
    wraps            \* history: differences taken over the end of the clock
vars == <<time, last, _current, _expiryTime, i_expireTime, passed, started, told, fired, late, wraps>>

Init ==
    /\ time = 0 /\ last = 0 /\ _current = 0 /\ _expiryTime = Expiry /\ i_expireTime = StartTime
    /\ passed = {} /\ started = 0 /\ told = 0 /\ fired = 0 /\ late = FALSE /\ wraps = 0

getMSTime(t) == t % Clock

\* 0xFFFFFFFF is Clock - 1: over the end of the clock one millisecond is missing.
getMSTimeDiff(old, new) == IF old > new THEN (Clock - 1 - old) + new ELSE new - old

\* IntervalTimer::Update, Passed, Reset.
IntervalUpdate(current, diff) == IF current + diff < 0 THEN 0 ELSE current + diff
IntervalReset(current) == IF current >= Interval THEN current % Interval ELSE current

\* PeriodicTimer::Update: what i_expireTime becomes, and the result.
PeriodicPassed(expire, diff) == expire - diff <= 0
PeriodicUpdate(expire, diff) ==
    IF PeriodicPassed(expire, diff) THEN expire - diff + (IF Period > diff THEN Period ELSE diff)
    ELSE expire - diff

\* One round of the caller: the difference since the last one goes to all timers.
Update(step) ==
    /\ passed = {} /\ time + step <= MaxTime
    /\ time' = time + step /\ last' = getMSTime(time')
    /\ LET diff == getMSTimeDiff(last, last')
       IN  /\ told' = told + diff
           /\ wraps' = IF last > last' THEN wraps + 1 ELSE wraps
           /\ _current' = IntervalUpdate(_current, diff)
           /\ _expiryTime' = _expiryTime - diff
           /\ i_expireTime' = PeriodicUpdate(i_expireTime, diff)
           /\ fired' = IF PeriodicPassed(i_expireTime, diff) THEN fired + 1 ELSE fired
           /\ late' = (late \/ diff >= Period)
    /\ UNCHANGED started
    /\ passed' = {t \in {"interval", "tracker"} : IF t = "interval" THEN _current' >= Interval
                                                                  ELSE _expiryTime' <= 0}

\* The timers that passed are reset.
ResetInterval ==
    /\ "interval" \in passed
    /\ _current' = IntervalReset(_current)
    /\ passed' = passed \ {"interval"}
    /\ UNCHANGED <<time, last, _expiryTime, i_expireTime, started, told, fired, late, wraps>>

ResetTracker ==
    /\ "tracker" \in passed
    /\ _expiryTime' = Expiry
    /\ passed' = passed \ {"tracker"}
    /\ UNCHANGED <<time, last, _current, i_expireTime, started, told, fired, late, wraps>>

\* SetCurrent and SetPeriodic: the caller starts the timers again.
Restart ==
    /\ passed = {} /\ told > 0 /\ time + Interval <= MaxTime
    /\ _current' = 0 /\ i_expireTime' = StartTime /\ _expiryTime' = Expiry
    /\ told' = 0 /\ fired' = 0 /\ late' = FALSE /\ wraps' = 0
    /\ started' = time
    /\ UNCHANGED <<time, last, passed>>

Next == (\E step \in Diffs : Update(step)) \/ ResetInterval \/ ResetTracker \/ Restart

Spec == Init /\ [][Next]_vars

------------------------------------------------------------------------------
(* Properties.                                                             *)

\* The timers do not drift: between rounds the interval timer is where the whole
\* time puts it, and the periodic timer, until it was given a difference of a whole
\* period, has fired once for each period that is over.  Each turn of the clock
\* costs them one millisecond, and a timer that is waiting is not overdue.
TimersKeepTime ==
    /\ passed = {} => /\ _current = told % Interval /\ _current < Interval
                      /\ _expiryTime > 0 /\ _expiryTime <= Expiry
    /\ i_expireTime > 0
    /\ ~late => /\ i_expireTime = StartTime + fired * Period - told
                /\ fired > 0 => i_expireTime <= Period
    /\ started + told + wraps = time

==============================================================================
