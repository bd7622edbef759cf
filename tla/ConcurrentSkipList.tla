-------------------------- MODULE ConcurrentSkipList --------------------------
(***************************************************************************)
(* atomic_lock/skiplist.h: a skip list with one writer (writes are         *)
(* synchronized outside) and readers that take no lock.  Every load and    *)
(* every store of a link is a step of its own.  A reader may see any value *)
(* max_height_ has had, since it is read and written relaxed; the links    *)
(* are written with release and read with acquire, and are modelled as     *)
(* sequentially consistent.                                                *)
(*                                                                         *)
(* A node is its key.  Head stands before all keys and Nil, nullptr,       *)
(* behind them.                                                            *)
(***************************************************************************)
EXTENDS Integers, FiniteSets

CONSTANTS MaxKey, kMaxHeight_

Keys == 1..MaxKey
Head == 0
Nil == MaxKey + 1
Levels == 0..kMaxHeight_ - 1
Uninitialised == -1

VARIABLES
    next,           \* node, level -> node
    max_height_, heights,  \* its value and all its values
    prev_, prev_height_,
    writer,         \* the Insert under way: key (Nil: none), height, level i, linked or not
    reader,         \* the search under way: op of the iterator or "none", and its locals
    node_,          \* the position of the reader's iterator
    answer          \* history: the last operation of the reader with its result
vars == <<next, max_height_, heights, prev_, prev_height_, writer, reader, node_, answer>>
listVars == <<next, max_height_, heights, prev_, prev_height_, writer>>

Idle == [op |-> "none"]

Init ==
    /\ next = [n \in {Head} \cup Keys |-> [l \in Levels |-> IF n = Head THEN Nil ELSE Uninitialised]]
    /\ max_height_ = 1 /\ heights = {1}
    /\ prev_ = [l \in Levels |-> Head] /\ prev_height_ = 1
    /\ writer = [key |-> Nil] /\ reader = Idle /\ node_ = Nil /\ answer = [op |-> "none"]

\* nullptr counts as infinite.
KeyIsAfterNode(key, n) == n < key

\* The nodes of a level, and those of the list.
OnLevel(l) == {k \in Keys : \E n \in {Head} \cup Keys : next[n][l] = k}
Contents == OnLevel(0)

------------------------------------------------------------------------------
(* Insert.                                                                 *)

\* FindLessThan with prev, called by the writer: nothing changes under it.
Predecessor(key, l) == CHOOSE n \in {Head} \cup OnLevel(l) :
                          n < key /\ \A k \in OnLevel(l) : k < key => k <= n

\* The fast path without the test that the key is before the next one.
FastPathUntested(key) == prev_[0] = Head \/ KeyIsAfterNode(key, prev_[0])

\* The fast path for a key that goes right behind the last one.
FastPath(key) ==
    /\ ~KeyIsAfterNode(key, next[prev_[0]][0])
    /\ prev_[0] = Head \/ KeyIsAfterNode(key, prev_[0])

InsertBegin(key, height) ==
    /\ writer.key = Nil /\ key \notin Contents
    /\ LET found == IF FastPath(key)
                    THEN [l \in Levels |-> IF l \in 1..prev_height_ - 1 THEN prev_[0] ELSE prev_[l]]
                    ELSE [l \in Levels |-> IF l < max_height_ THEN Predecessor(key, l) ELSE prev_[l]]
       IN  prev_' = [l \in Levels |-> IF l \in max_height_..height - 1 THEN Head ELSE found[l]]
    /\ max_height_' = IF height > max_height_ THEN height ELSE max_height_
    /\ heights' = heights \cup {max_height_'}
    /\ writer' = [key |-> key, height |-> height, i |-> 0, linked |-> FALSE]
    /\ UNCHANGED <<next, prev_height_, reader, node_, answer>>

\* x->NoBarrier_SetNext(i, ...)
InsertLink ==
    /\ writer.key # Nil /\ ~writer.linked
    /\ next' = [next EXCEPT ![writer.key][writer.i] = next[prev_[writer.i]][writer.i]]
    /\ writer' = [writer EXCEPT !.linked = TRUE]
    /\ UNCHANGED <<max_height_, heights, prev_, prev_height_, reader, node_, answer>>

\* prev_[i]->SetNext(i, x), and after the last level the end of Insert.
InsertPublish ==
    /\ writer.key # Nil /\ writer.linked
    /\ next' = [next EXCEPT ![prev_[writer.i]][writer.i] = writer.key]
    /\ IF writer.i + 1 < writer.height
       THEN /\ writer' = [writer EXCEPT !.i = @ + 1, !.linked = FALSE]
            /\ UNCHANGED <<prev_, prev_height_>>
       ELSE /\ writer' = [key |-> Nil]
            /\ prev_' = [prev_ EXCEPT ![0] = writer.key] /\ prev_height_' = writer.height
    /\ UNCHANGED <<max_height_, heights, reader, node_, answer>>

------------------------------------------------------------------------------
(* Readers: an iterator, or Contains.                                      *)

\* The searches start at the head on the highest level they know of.
Search(op, find, key, since, target) ==
    \E h \in heights :
        reader' = [op |-> op, find |-> find, key |-> key, x |-> Head, level |-> h - 1, last |-> Nil,
                   since |-> since, target |-> target]

Begin(op, target) ==
    /\ reader = Idle
    /\ CASE op \in {"Contains", "Seek", "SeekForPrev"} -> Search(op, "GreaterOrEqual", target, Contents, target)
         [] op = "Prev" -> node_ = target /\ Search(op, "LessThan", target, Contents, target)
         [] op = "SeekToLast" -> Search(op, "Last", target, Contents, target)
    /\ answer' = [op |-> "none"]
    /\ UNCHANGED <<listVars, node_>>

Done(op, target, since, result) ==
    /\ reader' = Idle
    /\ node_' = IF op = "Contains" THEN node_ ELSE result
    /\ answer' = [op |-> op, target |-> target, since |-> since, result |-> result]

\* Next and SeekToFirst are one load.
Step(op, from) ==
    /\ reader = Idle
    /\ op = "Next" => node_ # Nil /\ from = node_
    /\ op = "SeekToFirst" => from = Head
    /\ Done(op, from, Contents, next[from][0])
    /\ UNCHANGED listVars

\* What follows a search that found result.
Found(result) ==
    LET position == IF result = Head THEN Nil ELSE result
    IN  IF reader.op = "SeekForPrev"
        THEN CASE reader.find = "GreaterOrEqual" /\ result = Nil ->
                    Search("SeekForPrev", "Last", Nil, reader.since, reader.target) /\ UNCHANGED <<node_, answer>>
               [] result # Nil /\ position # Nil /\ reader.target < position ->
                    Search("SeekForPrev", "LessThan", position, reader.since, reader.target)
                    /\ UNCHANGED <<node_, answer>>
               [] OTHER -> Done(reader.op, reader.target, reader.since, position)
        ELSE Done(reader.op, reader.target, reader.since, position)

Advance(to) == reader' = [reader EXCEPT !.x = to] /\ UNCHANGED <<node_, answer>>
Descend(last) == /\ reader' = [reader EXCEPT !.level = @ - 1, !.last = last]
                 /\ UNCHANGED <<node_, answer>>

\* One turn of FindGreaterOrEqual.
FindGreaterOrEqual ==
    /\ reader.op # "none" /\ reader.find = "GreaterOrEqual"
    /\ LET n == next[reader.x][reader.level]
           bigger == n = reader.last \/ n > reader.key
       IN  CASE n # reader.last /\ n = reader.key -> Found(n)
             [] bigger /\ reader.level = 0 -> Found(n)
             [] bigger /\ reader.level > 0 -> Descend(n)
             [] OTHER -> Advance(n)
    /\ UNCHANGED listVars

\* One turn of FindLessThan.
FindLessThan ==
    /\ reader.op # "none" /\ reader.find = "LessThan"
    /\ LET n == next[reader.x][reader.level]
       IN  IF n # reader.last /\ KeyIsAfterNode(reader.key, n) THEN Advance(n)
           ELSE IF reader.level = 0 THEN Found(reader.x) ELSE Descend(n)
    /\ UNCHANGED listVars

\* One turn of FindLast.
FindLast ==
    /\ reader.op # "none" /\ reader.find = "Last"
    /\ LET n == next[reader.x][reader.level]
       IN  IF n # Nil THEN Advance(n)
           ELSE IF reader.level = 0 THEN Found(reader.x) ELSE Descend(Nil)
    /\ UNCHANGED listVars

Next ==
    \/ \E key \in Keys, height \in 1..kMaxHeight_ : InsertBegin(key, height)
    \/ InsertLink \/ InsertPublish
    \/ \E target \in Keys, op \in {"Contains", "Seek", "SeekForPrev", "Prev", "SeekToLast"} : Begin(op, target)
    \/ \E from \in {Head} \cup Keys, op \in {"Next", "SeekToFirst"} : Step(op, from)
    \/ FindGreaterOrEqual \/ FindLessThan \/ FindLast

Spec == Init /\ [][Next]_vars

------------------------------------------------------------------------------
(* Properties.                                                             *)

\* The result of an operation passes over nothing that was in the list when it
\* began, and is on the right side of its target.
AnswerRight ==
    LET a == answer IN
    CASE a.op \in {"Contains", "Seek"} ->
           a.result >= a.target /\ \A k \in a.since : k >= a.target => k >= a.result
      [] a.op = "SeekForPrev" ->
           /\ a.result = Nil \/ a.result <= a.target
           /\ \A k \in a.since : k <= a.target => a.result # Nil /\ k <= a.result
      [] a.op = "Prev" ->
           /\ a.result = Nil \/ a.result < a.target
           /\ \A k \in a.since : k < a.target => a.result # Nil /\ k <= a.result
      [] a.op = "SeekToLast" -> \A k \in a.since : a.result # Nil /\ k <= a.result
      [] a.op \in {"Next", "SeekToFirst"} ->
           a.result > a.target /\ \A k \in a.since : k > a.target => k >= a.result
      [] OTHER -> TRUE

\* Each level is sorted and contained in the one below; a reader never meets a link
\* that was not set and never goes past its key; every answer is right although
\* Insert runs at the same time; and between two Inserts the predecessors kept for
\* the fast path are those of the last key on every level.
ConcurrentListSound ==
    /\ \A l \in Levels : /\ \A n \in {Head} \cup OnLevel(l) : next[n][l] > n
                         /\ l > 0 => OnLevel(l) \subseteq OnLevel(l - 1)
    /\ reader.op # "none" =>
         /\ next[reader.x][reader.level] # Uninitialised
         /\ reader.find # "Last" => reader.x < reader.key
    /\ AnswerRight
    /\ writer.key = Nil =>
         /\ prev_[0] = Head => prev_height_ = 1 /\ max_height_ = 1
         /\ \A l \in 1..max_height_ - 1 : l >= prev_height_ => prev_[l] = Predecessor(prev_[0], l)
    /\ writer.key # Nil => \A l \in writer.i..writer.height - 1 :
                              ~writer.linked \/ l > writer.i => prev_[l] = Predecessor(writer.key, l)

==============================================================================
