------------------------------ MODULE TimerHeap ------------------------------
(***************************************************************************)
(* The timer of timer/mh-timer.h over the minimum heap of minheap.c.  An   *)
(* entry is a number, its memory may be used again once it was freed; heap *)
(* is the array p as far as it is used, counted from 0 in the code and     *)
(* from 1 here, idx the entries' min_heap_idx (-1: not in the heap) and    *)
(* time their time, 0 for an entry that was freed.                         *)
(* The clock and the times are uint32_t and wrap; they are compared as     *)
(* they are.  Handlers may add and delete timers; one that deletes its own *)
(* timer is left out: expire_timer would pop another one in its place.     *)
(***************************************************************************)
EXTENDS Integers, Sequences, FiniteSets

CONSTANTS
    Timers, Delays,
    ClockMod,       \* 2^32 in the code
    ClockStarts,    \* the times at which the program begins
    ClockMoves      \* bound: the times at which the clock goes on

VARIABLES
    heap, idx, time,
    now,      \* current_time()
    cur,      \* cur of expire_timer, -1 outside it
    running,  \* the entry whose handler runs, 0 for none
    pending,  \* history: entries that were added and neither run nor deleted
    wrapped,  \* history: the clock or a timer's time has passed the end of its range
    dangling  \* history: an entry was freed that is in the heap; the model stops
vars == <<heap, idx, time, now, cur, running, pending, wrapped, dangling>>

Init ==
    /\ heap = <<>> /\ idx = [e \in Timers |-> -1] /\ time = [e \in Timers |-> 0]
    /\ now \in ClockStarts /\ cur = -1 /\ running = 0 /\ pending = {}
    /\ wrapped = FALSE /\ dangling = FALSE

------------------------------------------------------------------------------
(* minheap.c.  A heap is the pair [p, idx]; times are those of tm.         *)

\* (s->p[i] = e)->min_heap_idx = i
Set(h, i, e) == [p |-> [h.p EXCEPT ![i + 1] = e], idx |-> [h.idx EXCEPT ![e] = i]]

Parent(i) == (i - 1) \div 2

RECURSIVE ShiftUp(_, _, _, _)
ShiftUp(h, hole, e, tm) ==
    IF hole > 0 /\ tm[h.p[Parent(hole) + 1]] > tm[e]
    THEN ShiftUp(Set(h, hole, h.p[Parent(hole) + 1]), Parent(hole), e, tm)
    ELSE Set(h, hole, e)

\* min_heap_shift_up_unconditional_: the first move is not tested.
ShiftUpUnconditional(h, hole, e, tm) ==
    ShiftUp(Set(h, hole, h.p[Parent(hole) + 1]), Parent(hole), e, tm)

\* n is s->n, which the caller may have decremented already.
RECURSIVE ShiftDown(_, _, _, _, _)
ShiftDown(h, hole, e, tm, n) ==
    LET right == 2 * (hole + 1)
        child == IF right = n \/ tm[h.p[right + 1]] > tm[h.p[right]] THEN right - 1 ELSE right
    IN  IF right <= n /\ tm[e] > tm[h.p[child + 1]]
        THEN ShiftDown(Set(h, hole, h.p[child + 1]), child, e, tm, n)
        ELSE Set(h, hole, e)

\* min_heap_push_, when there is memory.
Push(h, e, tm) == ShiftUp([h EXCEPT !.p = Append(@, e)], Len(h.p), e, tm)

\* What is left of the heap after n was decremented, without e.
Without(h, e) == [p |-> SubSeq(h.p, 1, Len(h.p) - 1), idx |-> [h.idx EXCEPT ![e] = -1]]

Pop(h, tm) == Without(ShiftDown(h, 0, h.p[Len(h.p)], tm, Len(h.p) - 1), h.p[1])

\* Up or down from the place i, where e is to be.
Place(h, i, e, tm, n) ==
    IF i > 0 /\ tm[h.p[Parent(i) + 1]] > tm[e]
    THEN ShiftUpUnconditional(h, i, e, tm) ELSE ShiftDown(h, i, e, tm, n)


Erase(h, e, tm) ==
    IF h.idx[e] = -1 THEN h
    ELSE Without(Place(h, h.idx[e], h.p[Len(h.p)], tm, Len(h.p) - 1), e)

\* min_heap_adjust_, after the time of e was changed.
Adjust(h, e, tm) ==
    IF h.idx[e] = -1 THEN Push(h, e, tm) ELSE Place(h, h.idx[e], e, tm, Len(h.p))

------------------------------------------------------------------------------
(* mh-timer.h.                                                             *)

Become(h) == heap' = h.p /\ idx' = h.idx
Now == [p |-> heap, idx |-> idx]

\* The caller is a handler or outside expire_timer.
Caller == ~dangling /\ (cur = -1 \/ running # 0)

\* te->time of e becomes current_time() + msec.
SetTime(e, msec) ==
    /\ time' = [time EXCEPT ![e] = (now + msec) % ClockMod]
    /\ wrapped' = (wrapped \/ now + msec >= ClockMod)

add_timer(msec) ==
    /\ Caller
    /\ \E e \in Timers \ (pending \cup {running}) :
          /\ \A f \in Timers \ (pending \cup {running}) : e <= f
          /\ SetTime(e, msec)
          /\ Become(Push(Now, e, time'))
          /\ pending' = pending \cup {e}
    /\ UNCHANGED <<now, cur, running, dangling>>

\* The caller deletes a timer that exists.
del_timer(e) ==
    /\ Caller /\ e \in pending
    /\ Become(Erase(Now, e, time))
    /\ pending' = pending \ {e}
    /\ time' = [time EXCEPT ![e] = 0]
    /\ UNCHANGED <<now, cur, running, wrapped, dangling>>

\* min_heap_adjust_ of a timer that gets another time; not used by mh-timer.h.
Change(e, msec) ==
    /\ ~dangling /\ cur = -1 /\ e \in pending
    /\ SetTime(e, msec)
    /\ Become(Adjust(Now, e, time'))
    /\ UNCHANGED <<now, cur, running, pending, dangling>>

\* (int) of a uint32_t.
AsInt(t) == IF t >= ClockMod \div 2 THEN t - ClockMod ELSE t

\* The waits that may be returned.  Where the difference of the two ints overflows,
\* it wraps, or the compiler has taken the test diff > 0 for a comparison of them.
find_nearest_expire_timer ==
    IF heap = <<>> THEN {-1}
    ELSE LET diff == AsInt((time[heap[1]] - now) % ClockMod)
         IN  { IF positive THEN diff ELSE 0 :
               positive \in {diff > 0, AsInt(time[heap[1]]) > AsInt(now)} }

expire_timer ==
    /\ ~dangling /\ cur = -1 /\ cur' = now
    /\ UNCHANGED <<heap, idx, time, now, running, pending, wrapped, dangling>>

\* The test of the loop: the handler of the top is called, or the loop is left.
ExpireTop ==
    /\ ~dangling /\ cur # -1 /\ running = 0
    /\ IF heap # <<>> /\ time[heap[1]] <= cur
       THEN running' = heap[1] /\ pending' = pending \ {heap[1]} /\ UNCHANGED cur
       ELSE cur' = -1 /\ UNCHANGED <<running, pending>>
    /\ UNCHANGED <<heap, idx, time, now, wrapped, dangling>>

\* The handler has returned: the top is popped, and te freed.
ExpirePop ==
    /\ ~dangling /\ running # 0
    /\ Become(Pop(Now, time))
    /\ dangling' = (heap[1] # running)
    /\ running' = 0
    /\ time' = [time EXCEPT ![running] = 0]
    /\ UNCHANGED <<now, cur, pending, wrapped>>

Tick ==
    /\ ~dangling /\ now \in ClockMoves
    /\ now' = (now + 1) % ClockMod
    /\ wrapped' = (wrapped \/ now + 1 >= ClockMod)
    /\ UNCHANGED <<heap, idx, time, cur, running, pending, dangling>>

Next ==
    \/ \E msec \in Delays : add_timer(msec)
    \/ \E e \in Timers : del_timer(e) \/ \E msec \in Delays : Change(e, msec)
    \/ expire_timer \/ ExpireTop \/ ExpirePop \/ Tick

------------------------------------------------------------------------------
(* Properties                                                              *)

\* The heap holds exactly the timers that are pending and the one whose handler
\* runs, every entry knows its place, and no entry has a smaller time than its
\* parent.  Until the clock wraps, the entry that is popped is the one that ran and
\* is freed (afterwards a handler can add a timer that takes the top: mh-timer.h:80),
\* and the wait handed to epoll_wait ends when the next timer is due.
HeapSound ==
    LET in == {heap[i] : i \in DOMAIN heap}
    IN  /\ ~dangling =>
             /\ in = pending \cup ({running} \ {0}) /\ Cardinality(in) = Len(heap)
             /\ \A e \in Timers \ in : idx[e] = -1
             /\ \A i \in DOMAIN heap : idx[heap[i]] = i - 1
             /\ \A i \in 2..Len(heap) : time[heap[Parent(i - 1) + 1]] <= time[heap[i]]
             /\ running # 0 => time[running] <= cur
        /\ ~wrapped =>
             /\ ~dangling
             /\ running # 0 => heap[1] = running
             /\ \A e \in pending, wait \in find_nearest_expire_timer :
                   wait >= 0 /\ (now + wait <= time[e] \/ time[e] <= now)

==============================================================================
