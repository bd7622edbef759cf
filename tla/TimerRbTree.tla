----------------------------- MODULE TimerRbTree -----------------------------
(***************************************************************************)
(* The red-black tree of timer/rbtree.c and the timer of rbt-timer.h on    *)
(* it.  A tree is a record; the left child of n is child[n][L], the right  *)
(* one child[n][R], and the code for the two sides, which the source       *)
(* writes out twice, is written once for a side d.  circular tells which   *)
(* insert function ngx_rbtree_init was given: the one for timers, whose    *)
(* keys wrap, or the plain one.  A handler that deletes its own timer is   *)
(* left out: expire_timer would delete the node a second time.             *)
(***************************************************************************)
EXTENDS Integers, Sequences, FiniteSets

CONSTANTS
    RbNodes, RbDelays,
    KeyMod,              \* 2^32 in the code
    RbStart, RbTicks,    \* the clock at the beginning; bound: how often it ticks
    MaxTimers            \* bound: timers in the tree at once

VARIABLES
    circular,
    tree,      \* root, child, parent, red (the color), key
    now, cur,
    handling,  \* the node whose handler runs, Sentinel for none
    ticks,
    inTree     \* history: the nodes inserted and not deleted
vars == <<circular, tree, now, cur, handling, ticks, inTree>>

L == 1
R == 2
Other(d) == 3 - d
Sentinel == 0
Null == -1

\* ngx_rbtree_init
Init ==
    /\ circular \in BOOLEAN
    /\ tree = [root   |-> Sentinel,
               child  |-> [n \in RbNodes |-> <<Null, Null>>],
               parent |-> [n \in RbNodes \cup {Sentinel} |-> Null],
               red    |-> [n \in RbNodes \cup {Sentinel} |-> FALSE],
               key    |-> [n \in RbNodes |-> 0]]
    /\ now = RbStart /\ cur = -1 /\ handling = Sentinel /\ ticks = 0 /\ inTree = {}

------------------------------------------------------------------------------
(* rbtree.c                                                                *)

\* The side on which n hangs; what is not the left child is taken for the right.
Side(t, n) == IF n = t.child[t.parent[n]][L] THEN L ELSE R

\* to takes the place of n below n's parent, or as the root.
Replaced(t, n, to) ==
    IF n = t.root THEN [t EXCEPT !.root = to]
    ELSE [t EXCEPT !.child[t.parent[n]][Side(t, n)] = to]

\* ngx_rbtree_left_rotate for d = L, ngx_rbtree_right_rotate for d = R.
Rotate(t, n, d) ==
    LET temp  == t.child[n][Other(d)]
        inner == t.child[temp][d]
        t1 == [t EXCEPT !.child[n][Other(d)] = inner]
        t2 == IF inner # Sentinel THEN [t1 EXCEPT !.parent[inner] = n] ELSE t1
        t3 == Replaced([t2 EXCEPT !.parent[temp] = t.parent[n]], n, temp)
    IN  [t3 EXCEPT !.child[temp][d] = n, !.parent[n] = temp]

\* ngx_rbtree_insert_timer_value compares the difference as a signed number.
Before(a, b) == IF circular THEN (a - b) % KeyMod >= KeyMod \div 2 ELSE a < b

\* The place for key k below n: the node to hang it on and the side.
RECURSIVE InsertPlace(_, _, _)
InsertPlace(t, n, k) ==
    LET d == IF Before(k, t.key[n]) THEN L ELSE R
    IN  IF t.child[n][d] = Sentinel THEN <<n, d>> ELSE InsertPlace(t, t.child[n][d], k)

RECURSIVE InsertFix(_, _)
InsertFix(t, n) ==
    LET p == t.parent[n]
        g == t.parent[p]
        d == Side(t, p)
        uncle == t.child[g][Other(d)]
        bent  == n = t.child[p][Other(d)]
        t1 == IF bent THEN Rotate(t, p, d) ELSE t
        n1 == IF bent THEN p ELSE n
        p1 == t1.parent[n1]
        g1 == t1.parent[p1]
    IN  IF n = t.root \/ ~t.red[p] THEN [t EXCEPT !.red[t.root] = FALSE]
        ELSE IF t.red[uncle]
        THEN InsertFix([t EXCEPT !.red[p] = FALSE, !.red[uncle] = FALSE, !.red[g] = TRUE], g)
        ELSE InsertFix(Rotate([t1 EXCEPT !.red[p1] = FALSE, !.red[g1] = TRUE], g1, Other(d)), n1)

\* ngx_rbtree_insert
Insert(t, n) ==
    LET at   == InsertPlace(t, t.root, t.key[n])
        leaf == [t EXCEPT !.child[n] = <<Sentinel, Sentinel>>]
    IN  IF t.root = Sentinel
        THEN [leaf EXCEPT !.root = n, !.parent[n] = Null, !.red[n] = FALSE]
        ELSE InsertFix([leaf EXCEPT !.child[at[1]][at[2]] = n, !.parent[n] = at[1],
                                    !.red[n] = TRUE], n)

RECURSIVE RbMin(_, _)
RbMin(t, n) == IF t.child[n][L] = Sentinel THEN n ELSE RbMin(t, t.child[n][L])

\* The loop of the fixup for n, which is one black node short.
RECURSIVE DeleteFix(_, _)
DeleteFix(t, n) ==
    LET d  == Side(t, n)
        p  == t.parent[n]
        w0 == t.child[p][Other(d)]
        t1 == IF t.red[w0]
              THEN Rotate([t EXCEPT !.red[w0] = FALSE, !.red[p] = TRUE], p, d) ELSE t
        w1 == t1.child[p][Other(d)]
        t2 == IF ~t1.red[t1.child[w1][Other(d)]]
              THEN Rotate([t1 EXCEPT !.red[t1.child[w1][d]] = FALSE, !.red[w1] = TRUE], w1, Other(d))
              ELSE t1
        w2 == t2.child[p][Other(d)]
    IN  IF n = t.root \/ t.red[n] THEN [t EXCEPT !.red[n] = FALSE]
        ELSE IF ~t1.red[t1.child[w1][L]] /\ ~t1.red[t1.child[w1][R]]
        THEN DeleteFix([t1 EXCEPT !.red[w1] = TRUE], p)
        ELSE LET t3 == Rotate([t2 EXCEPT !.red[w2] = t2.red[p], !.red[p] = FALSE,
                                         !.red[t2.child[w2][Other(d)]] = FALSE], p, d)
             IN  [t3 EXCEPT !.red[t3.root] = FALSE]

\* subst, which has left its place, takes that of n with links and colour.
Substituted(t, n, subst) ==
    LET t1 == [t EXCEPT !.child[subst] = t.child[n], !.parent[subst] = t.parent[n],
                        !.red[subst] = t.red[n]]
        t2 == Replaced(t1, n, subst)
        up(u, c) == IF c = Sentinel THEN u ELSE [u EXCEPT !.parent[c] = subst]
    IN  up(up(t2, t2.child[subst][L]), t2.child[subst][R])

\* The DEBUG stuff: links and key of the node are reset.
Cleared(t, n) == [t EXCEPT !.child[n] = <<Null, Null>>, !.parent[n] = Null, !.key[n] = 0]

\* ngx_rbtree_delete
Delete(t, n) ==
    LET two   == t.child[n][L] # Sentinel /\ t.child[n][R] # Sentinel
        subst == IF two THEN RbMin(t, t.child[n][R]) ELSE n
        temp  == IF t.child[subst][L] # Sentinel THEN t.child[subst][L] ELSE t.child[subst][R]
        out   == [t EXCEPT !.child[t.parent[subst]][Side(t, subst)] = temp]
        above == IF two /\ t.parent[subst] = n THEN subst ELSE t.parent[subst]
        tied  == [out EXCEPT !.parent[temp] = above]
        done  == IF two THEN Substituted(tied, n, subst) ELSE tied
    IN  IF subst = t.root
        THEN Cleared([t EXCEPT !.root = temp, !.red[temp] = FALSE], n)
        ELSE IF t.red[subst] THEN Cleared(done, n) ELSE DeleteFix(Cleared(done, n), temp)

RECURSIVE Climb(_, _)
Climb(t, n) == IF n = t.root THEN Null
               ELSE IF n = t.child[t.parent[n]][L] THEN t.parent[n] ELSE Climb(t, t.parent[n])

\* ngx_rbtree_next
RbNext(t, n) == IF t.child[n][R] # Sentinel THEN RbMin(t, t.child[n][R]) ELSE Climb(t, n)

------------------------------------------------------------------------------
(* rbt-timer.h                                                             *)

Caller == cur = -1 \/ handling # Sentinel
Free == RbNodes \ (inTree \cup {handling})

add_timer(msec) ==
    /\ circular /\ Caller /\ Cardinality(inTree) < MaxTimers
    /\ \E n \in Free :
          /\ \A m \in Free : n <= m
          /\ tree' = Insert([tree EXCEPT !.key[n] = (now + msec) % KeyMod], n)
          /\ inTree' = inTree \cup {n}
    /\ UNCHANGED <<circular, now, cur, handling, ticks>>

\* A user of the tree with plain keys; each node has a key of its own.
InsertValue(n) ==
    /\ ~circular /\ n \notin inTree
    /\ tree' = Insert([tree EXCEPT !.key[n] = n], n)
    /\ inTree' = inTree \cup {n}
    /\ UNCHANGED <<circular, now, cur, handling, ticks>>

\* del_timer; the caller deletes a timer that exists.
del_timer(n) ==
    /\ Caller /\ n \in inTree /\ n # handling
    /\ tree' = Delete(tree, n)
    /\ inTree' = inTree \ {n}
    /\ UNCHANGED <<circular, now, cur, handling, ticks>>

Signed(a) == IF a >= KeyMod \div 2 THEN a - KeyMod ELSE a

\* The difference of the two numbers as int.
find_nearest_expire_timer ==
    IF tree.root = Sentinel THEN -1
    ELSE LET diff == Signed((tree.key[RbMin(tree, tree.root)] - now) % KeyMod)
         IN  IF diff > 0 THEN diff ELSE 0

expire_timer ==
    /\ circular /\ cur = -1 /\ cur' = now
    /\ UNCHANGED <<circular, tree, now, handling, ticks, inTree>>

\* The test of the loop compares without regard to the wrap.
ExpireMin ==
    /\ cur # -1 /\ handling = Sentinel
    /\ IF tree.root # Sentinel /\ tree.key[RbMin(tree, tree.root)] <= cur
       THEN handling' = RbMin(tree, tree.root) /\ UNCHANGED cur
       ELSE cur' = -1 /\ UNCHANGED handling
    /\ UNCHANGED <<circular, tree, now, ticks, inTree>>

\* The handler has returned: its node is deleted, wherever it is now, and freed.
ExpireDelete ==
    /\ handling # Sentinel
    /\ tree' = Delete(tree, handling)
    /\ inTree' = inTree \ {handling} /\ handling' = Sentinel
    /\ UNCHANGED <<circular, now, cur, ticks>>

Tick ==
    /\ circular /\ ticks < RbTicks
    /\ now' = (now + 1) % KeyMod /\ ticks' = ticks + 1
    /\ UNCHANGED <<circular, tree, cur, handling, inTree>>

Next ==
    \/ \E msec \in RbDelays : add_timer(msec)
    \/ \E n \in RbNodes : InsertValue(n) \/ del_timer(n)
    \/ expire_timer \/ ExpireMin \/ ExpireDelete \/ Tick

------------------------------------------------------------------------------
(* Properties                                                              *)

RECURSIVE InOrder(_, _)
InOrder(t, n) == IF n = Null THEN <<>> ELSE <<n>> \o InOrder(t, RbNext(t, n))

RECURSIVE BlackHeights(_)
BlackHeights(n) ==
    IF n = Sentinel THEN {0}
    ELSE {h + IF tree.red[n] THEN 0 ELSE 1 :
            h \in BlackHeights(tree.child[n][L]) \cup BlackHeights(tree.child[n][R])}

\* Whatever is inserted and deleted, the tree is a red-black tree (the root and
\* the sentinel black, no red child below a red node, equally many black nodes
\* on every path), links lead both ways, and walking it with ngx_rbtree_next
\* visits exactly the nodes that are in it, in the order of their keys, which
\* for timers is the circular one.  The wait computed from it is never longer
\* than the time left to any timer.
RbTreeSound ==
    LET s == IF tree.root = Sentinel THEN <<>> ELSE InOrder(tree, RbMin(tree, tree.root))
    IN  /\ {s[i] : i \in DOMAIN s} = inTree /\ Cardinality(DOMAIN s) = Cardinality(inTree)
        /\ \A i, j \in DOMAIN s : i < j => ~Before(tree.key[s[j]], tree.key[s[i]])
        /\ ~tree.red[Sentinel] /\ ~tree.red[tree.root]
        /\ \A n \in inTree : \A d \in {L, R} :
              LET c == tree.child[n][d]
              IN  /\ c \in inTree \cup {Sentinel}
                  /\ c # Sentinel => tree.parent[c] = n
                  /\ tree.red[n] => ~tree.red[c]
        /\ Cardinality(BlackHeights(tree.root)) = 1
        /\ handling # Sentinel => handling \in inTree
        /\ \A n \in inTree :
              circular => \/ find_nearest_expire_timer = 0
                          \/ find_nearest_expire_timer <= Signed((tree.key[n] - now) % KeyMod)

==============================================================================
