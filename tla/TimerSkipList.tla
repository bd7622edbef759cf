---------------------------- MODULE TimerSkipList ----------------------------
(***************************************************************************)
(* The timer of timer/skl-timer.c over the skip list of skiplist.c.        *)
(*                                                                         *)
(* Levels are counted from 1, from 0 in the code.  zslDelete looks for the *)
(* score of the node it is given and removes the first node that has it,   *)
(* zslDeleteHead removes the first node: with equal scores that may be     *)
(* another timer than the one that was meant.  The clock and the scores    *)
(* are those of a uint32_t.                                                *)
(* Left out: a caller that deletes its own timer inside its handler, or a  *)
(* timer whose node zslDelete has freed in place of another.               *)
(***************************************************************************)
EXTENDS Integers, Sequences, FiniteSets

CONSTANTS
    SkipNodes, SkipMaxLevel, SkipDelays,
    ClockMod,       \* 2^32 in the code
    ClockStarts,    \* the times at which the program begins
    ClockMoves      \* bound: the times at which the clock goes on

VARIABLES
    forward,   \* node -> its level[] array of forward pointers
    score, level, length, now, cur,
    handling,  \* the node whose handler runs, Header for none
    pending,   \* history: the nodes of timers added and neither run nor deleted
    freed,     \* history: those of them that zslDelete has freed
    shared,    \* history: a timer was added with the score of another one
    wrapped,   \* history: the clock or a score has passed the end of its range
    mistaken   \* history: a node was removed in place of another
vars == <<forward, score, level, length, now, cur, handling, pending, freed, shared, wrapped,
          mistaken>>

Header == 0
Null == -1
Levels == 1..SkipMaxLevel
Listed == {n \in SkipNodes : forward[n] # <<>>}

\* zslCreate
Init ==
    /\ forward = [n \in SkipNodes \cup {Header} |->
                    IF n = Header THEN [i \in Levels |-> Null] ELSE <<>>]
    /\ score = [n \in SkipNodes |-> 0] /\ level = 1 /\ length = 0
    /\ now \in ClockStarts /\ cur = -1 /\ handling = Header
    /\ pending = {} /\ freed = {}
    /\ shared = FALSE /\ wrapped = FALSE /\ mistaken = FALSE

------------------------------------------------------------------------------
(* skiplist.c                                                              *)

\* while (x->level[i].forward && x->level[i].forward->score < s) x = ...
RECURSIVE Walk(_, _, _)
Walk(x, i, s) ==
    LET f == forward[x][i]
    IN  IF f # Null /\ score[f] < s THEN Walk(f, i, s) ELSE x

\* update[i]: the last node before s on level i, reached from level i + 1.
RECURSIVE Update(_, _)
Update(i, s) == Walk(IF i >= level THEN Header ELSE Update(i + 1, s), i, s)

\* The nodes on level i, in order.
RECURSIVE From(_, _)
From(n, i) == IF n = Null THEN <<>> ELSE <<n>> \o From(forward[n][i], i)
OnLevel(i) == From(forward[Header][i], i)

zslMin == forward[Header][1]

\* x leaves each level on which the pointer of pred[i] leads to it.
Unlink(x, pred) ==
    forward' = [n \in DOMAIN forward |->
                  IF n = x THEN <<>>
                  ELSE [i \in DOMAIN forward[n] |->
                          IF i <= level /\ n = pred[i] /\ forward[n][i] = x
                          THEN forward[x][i] ELSE forward[n][i]]]

\* Levels the header leads nowhere on are given up.
Lowered(f) == CHOOSE l \in 1..level :
                 /\ l = 1 \/ f[l] # Null
                 /\ \A k \in l + 1..level : f[k] = Null

Removed(x, pred) ==
    /\ Unlink(x, pred)
    /\ level' = Lowered(forward'[Header])
    /\ length' = length - 1
    /\ score' = [score EXCEPT ![x] = IF x \in pending' THEN @ ELSE 0]

\* The node n is new, so not one that the caller still has.
zslInsert(n, s, lv) ==
    /\ n \notin Listed \cup pending
    /\ \A m \in SkipNodes \ (Listed \cup pending) : n <= m
    /\ forward' = [m \in DOMAIN forward |->
                     IF m = n THEN [i \in 1..lv |-> forward[Update(i, s)][i]]
                     ELSE [i \in DOMAIN forward[m] |->
                             IF i <= lv /\ m = Update(i, s) THEN n ELSE forward[m][i]]]
    /\ score' = [score EXCEPT ![n] = s]
    /\ level' = IF lv > level THEN lv ELSE level
    /\ length' = length + 1

zslDeleteHead ==
    IF zslMin = Null THEN UNCHANGED <<forward, score, level, length>>
    ELSE Removed(zslMin, [i \in Levels |-> Header])

\* zslDelete with zslDeleteNode.
zslDelete(zn) ==
    LET pred == [i \in 1..level |-> Update(i, score[zn])]
        x    == forward[pred[1]][1]
    IN  IF x # Null /\ score[x] = score[zn]
        THEN /\ Removed(x, pred)
             /\ freed' = (freed \cup {x}) \cap pending'
             /\ mistaken' = (mistaken \/ x # zn)
        ELSE UNCHANGED <<forward, score, level, length, freed, mistaken>>

------------------------------------------------------------------------------
(* skl-timer.c                                                             *)

Caller == cur = -1 \/ handling # Header

\* zslRandomLevel chooses the number of levels.
add_timer(msec, lv) ==
    LET s == (now + msec) % ClockMod
    IN  /\ Caller
        /\ \E n \in SkipNodes : zslInsert(n, s, lv) /\ pending' = pending \cup {n}
        /\ shared' = (shared \/ \E m \in Listed \cup pending : score[m] = s)
        /\ wrapped' = (wrapped \/ now + msec >= ClockMod)
        /\ UNCHANGED <<now, cur, handling, freed, mistaken>>

del_timer(zn) ==
    /\ Caller /\ zn \in pending \ freed
    /\ pending' = pending \ {zn}
    /\ zslDelete(zn)
    /\ UNCHANGED <<now, cur, handling, shared, wrapped>>

expire_timer ==
    /\ cur = -1 /\ cur' = now
    /\ UNCHANGED <<forward, score, level, length, now, handling, pending, freed, shared,
                   wrapped, mistaken>>

\* The test of the loop: the handler of the first node is called, or the loop left.
ExpireHead ==
    /\ cur # -1 /\ handling = Header
    /\ IF zslMin # Null /\ score[zslMin] <= cur
       THEN handling' = zslMin /\ pending' = pending \ {zslMin} /\ UNCHANGED cur
       ELSE cur' = -1 /\ UNCHANGED <<handling, pending>>
    /\ UNCHANGED <<forward, score, level, length, now, freed, shared, wrapped, mistaken>>

ExpireDelete ==
    /\ handling # Header
    /\ UNCHANGED <<now, cur, pending, freed, shared, wrapped>>
    /\ zslDeleteHead /\ handling' = Header
    /\ mistaken' = (mistaken \/ zslMin # handling)

Tick ==
    /\ now \in ClockMoves
    /\ now' = (now + 1) % ClockMod
    /\ wrapped' = (wrapped \/ now + 1 >= ClockMod)
    /\ UNCHANGED <<forward, score, level, length, cur, handling, pending, freed, shared, mistaken>>

Next ==
    \/ \E msec \in SkipDelays, lv \in Levels : add_timer(msec, lv)
    \/ \E zn \in SkipNodes : del_timer(zn)
    \/ expire_timer \/ ExpireHead \/ ExpireDelete \/ Tick

------------------------------------------------------------------------------
(* Properties                                                              *)

\* Every level is the sorted list of the nodes that reach it, and the level is the
\* highest that is used.  The list holds the nodes of exactly the timers that are
\* pending and of the one that is handled, up to the first removal of a node in
\* place of another: skiplist.c:98 removes the first node and skiplist.c:133 the
\* first of a score, which is the wrong one only after two timers have had the same
\* score or the clock has wrapped.
SkipListSound ==
    LET all == OnLevel(1)
    IN  /\ {all[i] : i \in DOMAIN all} = Listed
        /\ length = Len(all)
        /\ \A i \in Levels :
              OnLevel(i) = SelectSeq(all, LAMBDA n : Len(forward[n]) >= i)
        /\ \A i \in 2..Len(all) : score[all[i - 1]] <= score[all[i]]
        /\ \A i \in Levels : i > level => forward[Header][i] = Null
        /\ level = 1 \/ forward[Header][level] # Null
        /\ ~mistaken => Listed = pending \cup ({handling} \ {Header})
        /\ ~wrapped /\ handling # Header /\ ~mistaken => score[handling] <= cur
        /\ mistaken => shared \/ wrapped

==============================================================================
