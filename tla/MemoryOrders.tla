---------------------------- MODULE MemoryOrders ----------------------------
(***************************************************************************)
(* The programs of atomic_lock that show what the memory orders of C++     *)
(* guarantee: threads that store to atomics and threads that wait for one  *)
(* and then look at another.                                               *)
(*                                                                         *)
(* An atomic is the sequence of the values stored to it, its modification  *)
(* order.  A thread may read any of them that is not older than what it    *)
(* knows of; an acquire load of a release store also learns what the       *)
(* storing thread knew; sequentially consistent accesses agree on one more *)
(* common knowledge.  (Nothing is read before it is written: in none of    *)
(* the programs does a thread store after it has loaded.)                  *)
(***************************************************************************)
EXTENDS Integers, Sequences

CONSTANT Iterations  \* of the loops of relaxed_test.cc, 100000 in the code

Atomics == {"x", "y"}
Threads == {"a", "b", "c", "d"}

VARIABLES
    program,  \* the file whose program runs
    pc,       \* thread -> its next instruction
    memory,   \* atomic -> modification order: sequence of [value, known]
    view,     \* thread -> [atomic -> position of the newest value it knows of]
    sc,       \* the view that sequentially consistent accesses share
    z         \* the counter

vars == <<program, pc, memory, view, sc, z>>

Nothing == [l \in Atomics |-> 1]
Join(v, w) == [l \in Atomics |-> IF v[l] < w[l] THEN w[l] ELSE v[l]]

------------------------------------------------------------------------------
(* The programs.  "await" is a loop until the atomic holds true, "test" an *)
(* increment of z if it does.                                              *)

Do(op, loc, value, order) == [op |-> op, loc |-> loc, value |-> value, order |-> order]

write(loc, order) == <<Do("store", loc, 1, order)>>
write_x_then_y(order) == write("x", "relaxed") \o write("y", order)
read_then(loc, other, await, test) == <<Do("await", loc, 1, await), Do("test", other, 1, test)>>
thread_func(sign) == [i \in 1..Iterations |-> Do("store", "x", sign * (i - 1), "relaxed")]

acquire_release == [a |-> write_x_then_y("release"), b |-> read_then("y", "x", "acquire", "relaxed"),
                    c |-> <<>>, d |-> <<>>]
relaxed == [a |-> write_x_then_y("relaxed"), b |-> read_then("y", "x", "relaxed", "relaxed"),
            c |-> <<>>, d |-> <<>>]
seq_cst == [a |-> write("x", "seq_cst"), b |-> write("y", "seq_cst"),
            c |-> read_then("x", "y", "seq_cst", "seq_cst"),
            d |-> read_then("y", "x", "seq_cst", "seq_cst")]
relaxed2 == [a |-> write("x", "relaxed"), b |-> write("y", "relaxed"),
             c |-> read_then("x", "y", "relaxed", "relaxed"),
             d |-> read_then("y", "x", "relaxed", "relaxed")]
relaxed_test == [a |-> thread_func(1), b |-> thread_func(-1), c |-> <<>>, d |-> <<>>]

Programs == [acquire_release |-> acquire_release, relaxed |-> relaxed, seq_cst |-> seq_cst,
             relaxed2 |-> relaxed2, relaxed_test |-> relaxed_test]

Code(t) == Programs[program][t]

Init ==
    /\ program \in DOMAIN Programs
    /\ pc = [t \in Threads |-> 1]
    /\ memory = [l \in Atomics |-> <<[value |-> 0, known |-> Nothing]>>]
    /\ view = [t \in Threads |-> Nothing] /\ sc = Nothing /\ z = 0

------------------------------------------------------------------------------
(* The accesses.                                                           *)

Releases(order) == order \in {"release", "seq_cst"}
Acquires(order) == order \in {"acquire", "seq_cst"}

\* What a thread knows before an access of this order.
Before(t, order) == IF order = "seq_cst" THEN Join(view[t], sc) ELSE view[t]

Store(t) ==
    LET ins == Code(t)[pc[t]]
        n == Len(memory[ins.loc]) + 1
        known == [Before(t, ins.order) EXCEPT ![ins.loc] = n]
        told == IF Releases(ins.order) THEN known ELSE [Nothing EXCEPT ![ins.loc] = n]
    IN  /\ pc[t] <= Len(Code(t)) /\ ins.op = "store"
        /\ memory' = [memory EXCEPT ![ins.loc] = Append(@, [value |-> ins.value, known |-> told])]
        /\ view' = [view EXCEPT ![t] = known]
        /\ sc' = IF ins.order = "seq_cst" THEN Join(sc, known) ELSE sc
        /\ pc' = [pc EXCEPT ![t] = @ + 1]
        /\ UNCHANGED <<program, z>>

\* A load of the i-th value.  The loop of an await that reads false goes on.
Load(t, i) ==
    LET ins == Code(t)[pc[t]]
        before == Before(t, ins.order)
        read == memory[ins.loc][i]
        after == Join([before EXCEPT ![ins.loc] = i],
                      IF Acquires(ins.order) THEN read.known ELSE Nothing)
    IN  /\ i >= before[ins.loc]
        /\ view' = [view EXCEPT ![t] = after]
        /\ sc' = IF ins.order = "seq_cst" THEN Join(sc, after) ELSE sc
        /\ pc' = [pc EXCEPT ![t] = IF ins.op = "await" /\ read.value = 0 THEN @ ELSE @ + 1]
        /\ z' = IF ins.op = "test" /\ read.value # 0 THEN z + 1 ELSE z
        /\ UNCHANGED <<program, memory>>

Next ==
    \E t \in Threads :
       \/ Store(t)
       \/ /\ pc[t] <= Len(Code(t)) /\ Code(t)[pc[t]].op # "store"
          /\ \E i \in DOMAIN memory[Code(t)[pc[t]].loc] : Load(t, i)

Spec == Init /\ [][Next]_vars

------------------------------------------------------------------------------
(* Property                                                                *)

Joined == \A t \in Threads : pc[t] = Len(Code(t)) + 1

\* What main prints after the joins: with release and acquire the thread that
\* saw y sees x; with sequential consistency at least one of the two readers
\* sees both stores, as the comment at seq_cst.cc:41 says; stores of two threads
\* to one atomic end with the last one of either.
MemoryOrdersSound ==
    Joined => /\ program = "acquire_release" => z = 1
              /\ program = "seq_cst" => z # 0
              /\ program = "relaxed_test" =>
                    memory["x"][Len(memory["x"])].value \in {Iterations - 1, 1 - Iterations}
==============================================================================
