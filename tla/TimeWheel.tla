------------------------------ MODULE TimeWheel ------------------------------
(***************************************************************************)
(* The hierarchical timing wheels of timer/timewheel.c (near[256] and      *)
(* t[4][64] for a 32-bit clock) and timer/clock-timer.c (second[60],       *)
(* minute[60], hour[12]).  The two differ in their sizes, in the width of  *)
(* the clock against the span of the wheel, and in that timewheel.c leaves *)
(* node->cancel uninitialised.                                             *)
(*                                                                         *)
(* Sizes is the number of slots of the wheels from the finest up: wheel 1  *)
(* is near (second), wheel Len(Sizes) the coarsest.  One thread calls      *)
(* timer_update (from expire_timer or check_timer, once for each tick of   *)
(* the clock); any thread, a callback included, adds and deletes timers.   *)
(* A slot's list is the set of the timers in it.  An action is a section   *)
(* of code between spinlock_lock and spinlock_unlock, or one turn of the   *)
(* loop of dispatch_list, which runs without the lock.                     *)
(***************************************************************************)
EXTENDS Integers, Sequences, FiniteSets

\* Sizes to check timewheel.c with: near[2] and t[4][2], for a clock of 5 bits.
WheelSizes == <<2, 2, 2, 2, 2>>

\* Sizes to check clock-timer.c with: second[2], minute[3] and hour[2], a half day
\* of 12 ticks.
ClockSizes == <<2, 3, 2>>

CONSTANTS
    Sizes,        \* the sizes of the wheels, finest first
    TimeMod,      \* the modulus of T->time
    Timers,       \* timer nodes; each is added once
    Delays,       \* the values of time passed to add_timer
    FreshCancel   \* what node->cancel may be in a node just added

ASSUME TimeWheelAssumption ==
    /\ Sizes \in Seq(Nat \ {0}) /\ Len(Sizes) >= 2
    /\ TimeMod \in Nat \ {0}
    /\ Delays \subseteq Int
    /\ \A d \in Delays : d < TimeMod    \* an int, against a clock of 32 bits
    /\ FreshCancel \in SUBSET BOOLEAN /\ FreshCancel # {}

VARIABLES
    time,       \* T->time
    state,      \* "none", "wheel", "detached", "ran", "skipped", "cleared"
    slot,       \* the wheel and the index of the list the timer is in
    expire,     \* node->expire
    cancel,     \* node->cancel
    deleted,    \* history: del_timer has been called
    left,       \* history: ticks until the timer is due, -1 once it is overdue
    pc,         \* where the thread that updates the wheel is
    shifted     \* its timer_update has passed timer_shift

nodeVars == <<state, slot, expire, cancel, deleted, left>>
vars == <<time, nodeVars, pc, shifted>>

Wheels == 1..Len(Sizes)

\* How many ticks wheels 1..i span.
Span[i \in 0..Len(Sizes)] == IF i = 0 THEN 1 ELSE Span[i - 1] * Sizes[i]

\* The index a point in time has on wheel i.
IndexOn(i, t) == (t \div Span[i - 1]) % Sizes[i]

Init ==
    /\ time = 0
    /\ state = [n \in Timers |-> "none"]
    /\ slot = [n \in Timers |-> <<1, 0>>]
    /\ expire = [n \in Timers |-> 0]
    /\ cancel = [n \in Timers |-> FALSE]
    /\ deleted = [n \in Timers |-> FALSE]
    /\ left = [n \in Timers |-> 0]
    /\ pc = "out"
    /\ shifted = FALSE

------------------------------------------------------------------------------
(* add_node: the finest wheel that spans the time left, or the coarsest.   *)

Distance(exp, now) == (exp - now) % TimeMod

\* A node put on a wheel that is too coarse by one tick.
AddNodeOffByOne(exp, now) ==
    LET d == Distance(exp, now)
        i == CHOOSE k \in Wheels :
               /\ d <= Span[k] \/ k = Len(Sizes)
               /\ \A j \in 1..(k - 1) : d > Span[j]
    IN  <<i, IndexOn(i, exp)>>

AddNode(exp, now) ==
    LET d == Distance(exp, now)
        i == CHOOSE k \in Wheels :
               /\ d < Span[k] \/ k = Len(Sizes)
               /\ \A j \in 1..(k - 1) : d >= Span[j]
    IN  <<i, IndexOn(i, exp)>>

LockFree == pc \in {"out", "dispatch"}

AddTimer(n, d) ==
    /\ LockFree
    /\ state[n] = "none"
    /\ \/ /\ d <= 0                       \* the callback runs at once
          /\ state' = [state EXCEPT ![n] = "ran"]
          /\ UNCHANGED <<slot, expire, cancel, left>>
       \/ /\ d > 0
          /\ state' = [state EXCEPT ![n] = "wheel"]
          /\ expire' = [expire EXCEPT ![n] = (time + d) % TimeMod]
          /\ slot' = [slot EXCEPT ![n] = AddNode((time + d) % TimeMod, time)]
          /\ \E c \in FreshCancel : cancel' = [cancel EXCEPT ![n] = c]
          /\ left' = [left EXCEPT ![n] = d]
    /\ UNCHANGED <<time, deleted, pc, shifted>>

\* The node is freed once it has been dispatched; a caller may hold on to it
\* until then.
DelTimer(n) ==
    /\ state[n] \in {"wheel", "detached"}
    /\ pc # "stopped"
    /\ cancel' = [cancel EXCEPT ![n] = TRUE]
    /\ deleted' = [deleted EXCEPT ![n] = TRUE]
    /\ UNCHANGED <<time, state, slot, expire, left, pc, shifted>>

------------------------------------------------------------------------------
(* timer_update: execute, shift, execute, with the lock held except while  *)
(* callbacks run.                                                          *)

UpdateBegin ==
    /\ pc = "out"
    /\ pc' = "execute"
    /\ shifted' = FALSE
    /\ UNCHANGED <<time, nodeVars>>

Due == {n \in Timers : state[n] = "wheel" /\ slot[n] = <<1, IndexOn(1, time)>>}

\* timer_execute: detach the list of the current slot and release the lock,
\* or go on when it is empty.
Execute ==
    /\ pc = "execute"
    /\ IF Due # {}
       THEN /\ state' = [n \in Timers |-> IF n \in Due THEN "detached" ELSE state[n]]
            /\ pc' = "dispatch"
       ELSE /\ pc' = IF shifted THEN "out" ELSE "shift"
            /\ UNCHANGED state
    /\ UNCHANGED <<time, slot, expire, cancel, deleted, left, shifted>>

Detached == {n \in Timers : state[n] = "detached"}

\* The node's memory is gone.
Free(n) ==
    /\ slot' = [slot EXCEPT ![n] = <<1, 0>>]
    /\ expire' = [expire EXCEPT ![n] = 0]
    /\ cancel' = [cancel EXCEPT ![n] = FALSE]
    /\ left' = [left EXCEPT ![n] = 0]

\* A dispatch that reads the flag the wrong way round.
DispatchInverted(n) ==
    /\ pc = "dispatch"
    /\ state[n] = "detached"
    /\ state' = [state EXCEPT ![n] = IF cancel[n] THEN "ran" ELSE "skipped"]
    /\ Free(n)
    /\ UNCHANGED <<time, deleted, pc, shifted>>

\* dispatch_list, one node: run the callback unless cancelled, free the node.
Dispatch(n) ==
    /\ pc = "dispatch"
    /\ state[n] = "detached"
    /\ state' = [state EXCEPT ![n] = IF cancel[n] THEN "skipped" ELSE "ran"]
    /\ Free(n)
    /\ UNCHANGED <<time, deleted, pc, shifted>>

DispatchEnd ==
    /\ pc = "dispatch"
    /\ Detached = {}
    /\ pc' = "execute"
    /\ UNCHANGED <<time, nodeVars, shifted>>

\* The wheels above the first on which now starts a slot other than slot 0.
Starts(now) == {i \in Wheels \ {1} : now % Span[i - 1] = 0 /\ IndexOn(i, now) # 0}

Finest(S) == CHOOSE k \in S : \A j \in S : k <= j

\* A shift that looks one slot too far.
MovedNextSlot(now) ==
    IF now % Span[Len(Sizes)] = 0 THEN <<Len(Sizes), 0>>
    ELSE IF Starts(now) = {} THEN <<0, 0>>
    ELSE LET i == Finest(Starts(now)) IN <<i, (IndexOn(i, now) + 1) % Sizes[i]>>

\* A shift that forgets that the coarsest wheel starts over.
MovedNoWrap(now) ==
    IF Starts(now) = {} THEN <<0, 0>>
    ELSE LET i == Finest(Starts(now)) IN <<i, IndexOn(i, now)>>

\* The list that timer_shift moves down when the clock reaches now: that of
\* the finest wheel on which a slot other than slot 0 starts, or slot 0 of the
\* coarsest wheel when now is a multiple of the whole span.  None (wheel 0) in
\* the middle of a slot.
Moved(now) ==
    IF now % Span[Len(Sizes)] = 0 THEN <<Len(Sizes), 0>>
    ELSE IF Starts(now) = {} THEN <<0, 0>>
    ELSE LET i == Finest(Starts(now)) IN <<i, IndexOn(i, now)>>

\* One tick; the timers of the list moved are added again.
TimerShift ==
    /\ pc = "shift"
    /\ LET now == (time + 1) % TimeMod
       IN  /\ time' = now
           /\ slot' = [n \in Timers |->
                         IF state[n] = "wheel" /\ slot[n] = Moved(now)
                         THEN AddNode(expire[n], now) ELSE slot[n]]
    /\ left' = [n \in Timers |->
                  IF state[n] = "wheel" /\ left[n] >= 0 THEN left[n] - 1 ELSE left[n]]
    /\ shifted' = TRUE
    /\ pc' = "execute"
    /\ UNCHANGED <<state, expire, cancel, deleted>>

\* clear_timer, when the program has left its loop.
ClearTimer ==
    /\ pc = "out"
    /\ pc' = "stopped"
    /\ state' = [n \in Timers |-> IF state[n] = "wheel" THEN "cleared" ELSE state[n]]
    /\ UNCHANGED <<time, slot, expire, cancel, deleted, left, shifted>>

Stopped == pc = "stopped" /\ UNCHANGED vars

------------------------------------------------------------------------------
Update ==
    \/ UpdateBegin \/ Execute \/ TimerShift \/ DispatchEnd
    \/ \E n \in Timers : Dispatch(n)

Next ==
    \/ \E n \in Timers, d \in Delays : AddTimer(n, d)
    \/ \E n \in Timers : DelTimer(n)
    \/ Update
    \/ ClearTimer
    \/ Stopped

Spec == Init /\ [][Next]_vars

\* The clock advances and the thread calls timer_update for every tick.
FairSpec == Spec /\ WF_vars(Update)

------------------------------------------------------------------------------
(* Properties                                                              *)

\* A timer leaves the wheel exactly as many ticks after it was added as it
\* asked for: never early, never late, on whichever wheel it started, however
\* often it was moved down, also when the clock wraps.
FiresOnItsTick == \A n \in Timers : state[n] = "detached" => left[n] = 0

\* Slot 0 of the wheels between the first and the coarsest.
Orphan(s) == s[1] \notin {1, Len(Sizes)} /\ s[2] = 0

\* A timer still in the wheel after its tick is in slot 0 of one of the
\* middle wheels, which no shift ever moves.
OverdueOnlyInSlotZero ==
    \A n \in Timers : state[n] = "wheel" /\ left[n] < 0 => Orphan(slot[n])

\* Every timer that is in any other list leaves the wheel in the end.
OthersLeaveTheWheel ==
    \A n \in Timers :
        state[n] = "wheel" /\ ~Orphan(slot[n]) ~> state[n] # "wheel"

\* A timer whose callback was skipped had been deleted (dispatch_list).
SkippedOnlyIfDeleted ==
    \A n \in Timers : state[n] = "skipped" => deleted[n]

\* tw-timer.c:56 and :69, "add_timer(6000, do_quit, 100);" and "while
\* (!ctx.quit)": the program relies on a timer that it has added being fired
\* by its tick.
NoTimerOverdue == \A n \in Timers : state[n] = "wheel" => left[n] >= 0

==============================================================================
