------------------------------ MODULE SharedPtr ------------------------------
(***************************************************************************)
(* atomic_lock/shared_ptr.h: several threads, each with shared_ptrs of its *)
(* own (slots) that share objects with those of the others.  A thread      *)
(* never touches a slot of another one while that one may change it: as    *)
(* with std::shared_ptr, only the count is shared.  Every operation on the *)
(* count is a step.                                                        *)
(***************************************************************************)
EXTENDS Integers, FiniteSets

CONSTANTS Holders, Slots, MaxObjects   \* threads, slots of each, bound

VARIABLES
    ptr,        \* thread, slot -> object (ptr_ with its ref_count_), 0: none
    count,      \* object -> *ref_count_
    todo,       \* thread -> what is left of its operation, a record, or Idle
    deleted,    \* history: object -> how often it was deleted
    born        \* history: objects made so far
vars == <<ptr, count, todo, deleted, born>>

Objects == 1..MaxObjects
Idle == [op |-> "none", at |-> "none", slot |-> 0, next |-> 0, from |-> 0]

\* One object, which the first slot of every thread shares.
Init ==
    /\ ptr = [t \in Holders |-> [s \in Slots |-> IF s = 1 THEN 1 ELSE 0]]
    /\ count = [o \in Objects |-> IF o = 1 THEN Cardinality(Holders) ELSE 0]
    /\ todo = [t \in Holders |-> Idle]
    /\ deleted = [o \in Objects |-> 0] /\ born = 1

\* release and what is done after it: the slot takes next; a copy adds to the count
\* of next, a move empties the slot it came from.
Begin(t, op, slot, next, from) ==
    todo' = [todo EXCEPT ![t] = [op |-> op, at |-> "release", slot |-> slot, next |-> next,
                                 from |-> from]]

\* operator=, copying or moving; also the copy and the move constructor, for a slot
\* that is empty.
Assign(t, op, slot, from) ==
    /\ todo[t] = Idle /\ slot # from
    /\ Begin(t, op, slot, ptr[t][from], from)
    /\ UNCHANGED <<ptr, count, deleted, born>>

\* reset(), the destructor; reset(p) with a new object.
Reset(t, slot, new) ==
    /\ todo[t] = Idle
    /\ new => born < MaxObjects
    /\ born' = IF new THEN born + 1 ELSE born
    /\ Begin(t, "reset", slot, IF new THEN born + 1 ELSE 0, 0)
    /\ UNCHANGED <<ptr, count, deleted>>

\* release: fetch_sub, and whoever took the count to 0 deletes.
Release(t) ==
    /\ todo[t].at = "release"
    /\ LET o == ptr[t][todo[t].slot]
       IN  /\ count' = IF o = 0 THEN count ELSE [count EXCEPT ![o] = @ - 1]
           /\ todo' = [todo EXCEPT ![t].at = IF o # 0 /\ count[o] = 1 THEN "delete" ELSE "set"]
    /\ UNCHANGED <<ptr, deleted, born>>

Delete(t) ==
    /\ todo[t].at = "delete"
    /\ todo' = [todo EXCEPT ![t].at = "set"]
    /\ deleted' = [deleted EXCEPT ![ptr[t][todo[t].slot]] = @ + 1]
    /\ UNCHANGED <<ptr, count, born>>

\* The rest of the operation: ptr_ and ref_count_ are set.
Set(t) ==
    /\ todo[t].at = "set"
    /\ LET now == todo[t]
       IN  /\ ptr' = [ptr EXCEPT ![t] = [s \in Slots |-> CASE s = now.slot -> now.next
                                                         [] s = now.from /\ now.op = "move" -> 0
                                                         [] OTHER -> @[s]]]
           /\ count' = IF now.next = 0 \/ now.op = "move" THEN count
                       ELSE [count EXCEPT ![now.next] = @ + 1]
    /\ todo' = [todo EXCEPT ![t] = Idle]
    /\ UNCHANGED <<deleted, born>>

Next ==
    \E t \in Holders :
        \/ \E op \in {"copy", "move"}, slot, from \in Slots : Assign(t, op, slot, from)
        \/ \E slot \in Slots, new \in BOOLEAN : Reset(t, slot, new)
        \/ Release(t) \/ Delete(t) \/ Set(t)

Spec == Init /\ [][Next]_vars

------------------------------------------------------------------------------
(* Properties.                                                             *)

\* Slots that hold a reference: those whose release is not done.
Refers(t, s, o) == ptr[t][s] = o /\ ~(todo[t].slot = s /\ todo[t].at \in {"delete", "set"})

\* The count is the number of references; an object is deleted once, after its last
\* reference, and nobody has a pointer to a deleted object.
SharedPtrSound ==
    \A o \in Objects :
        /\ count[o] = Cardinality({p \in Holders \X Slots : Refers(p[1], p[2], o)})
        /\ deleted[o] <= 1
        /\ deleted[o] = 1 => count[o] = 0 /\ \A t \in Holders : todo[t].op # "none" => todo[t].next # o
        /\ o <= born /\ count[o] = 0 =>
             \/ deleted[o] = 1
             \/ \E t \in Holders : todo[t].op # "none" /\ o \in {todo[t].next, ptr[t][todo[t].slot]}

==============================================================================
