------------------------------ MODULE MemoryPool ------------------------------
(***************************************************************************)
(* mempool/mm_pool_.c: a pool of small allocations in a list of blocks,    *)
(* with a list of large ones.  Lengths are in units of 8 bytes: a          *)
(* mp_pool_s takes 3, a mp_node_s 4, a mp_large_s 2, the alignment is 4.   *)
(* An address is an offset in its block; blocks are numbered in the order  *)
(* of the list.  The head's node is at offset PoolHeader of the first      *)
(* block.                                                                  *)
(***************************************************************************)
EXTENDS Integers, Sequences, FiniteSets

CONSTANTS
    PoolSize,                           \* the argument of mp_create_pool
    Sizes,                              \* the sizes the program asks for
    MaxAllocFromPool,                   \* MP_MAX_ALLOC_FROM_POOL
    FailedLimit,                        \* 4 in the code
    MaxBlocks, MaxLargeAllocs           \* bounds

PoolHeader == 3
NodeHeader == 4
LargeEntry == 2
Alignment == 4

VARIABLES
    nodes,      \* the list of blocks: last, end, failed
    current,    \* pool->current
    garbage,    \* head->next, which mp_create_pool does not set, is not null
    large,      \* the list of large allocations, first one first; 0: freed
    mallocs,    \* the large allocations that malloc has given and not got back
    given,      \* history: the parts of blocks in use, since the last reset
    wrapped,    \* history: an unsigned difference went below zero
    crashed, gone, serial
vars == <<nodes, current, garbage, large, mallocs, given, wrapped, crashed, gone, serial>>

mp_align(n) == ((n + Alignment - 1) \div Alignment) * Alignment
poolMax == IF PoolSize < MaxAllocFromPool THEN PoolSize ELSE MaxAllocFromPool

\* mp_create_pool
Init ==
    /\ nodes = <<[last |-> PoolHeader + NodeHeader, end |-> PoolHeader + NodeHeader + PoolSize,
                  failed |-> 0]>>
    /\ current = 1 /\ garbage \in BOOLEAN /\ large = <<>> /\ mallocs = {} /\ given = {}
    /\ wrapped = FALSE /\ crashed = FALSE /\ gone = FALSE /\ serial = 0

\* What happens after memory behind a block was given away is undefined.
Alive == ~crashed /\ ~gone /\ ~wrapped

\* Where an allocation in node p would begin.
Begins(p, aligned) == IF aligned THEN mp_align(nodes[p].last) ELSE nodes[p].last

\* A comparison that is one off.
FitsLoosely(p, size, aligned) ==
    LET left == nodes[p].end - Begins(p, aligned) IN left < 0 \/ left >= size - 1

\* (size_t)(p->end - m) >= size: a difference below zero is a huge number.
Fits(p, size, aligned) ==
    LET left == nodes[p].end - Begins(p, aligned) IN left < 0 \/ left >= size

\* The first node from current on that seems to have room, 0: none.
FirstFit(size, aligned) ==
    LET fits == {p \in current..Len(nodes) : Fits(p, size, aligned)}
    IN  IF fits = {} THEN 0 ELSE CHOOSE p \in fits : \A q \in fits : p <= q

\* psize, the length of a further block.
BlockSize == nodes[1].end - PoolHeader

\* The loop over failed: current moves behind every node that failed often enough.
NewCurrent ==
    LET tired == {p \in current..Len(nodes) - 1 : nodes[p].failed > FailedLimit}
    IN  IF tired = {} THEN current ELSE 1 + (CHOOSE p \in tired : \A q \in tired : p >= q)

\* mp_alloc, mp_nalloc and mp_alloc_block for a small size: what is given, and the
\* pool after it.
Small(size, aligned) ==
    LET p == FirstFit(size, aligned)
    IN  IF p # 0
        THEN [node |-> p, at |-> Begins(p, aligned), wraps |-> nodes[p].end < Begins(p, aligned),
              nodes |-> [nodes EXCEPT ![p].last = Begins(p, aligned) + size], current |-> current]
        ELSE [node |-> Len(nodes) + 1, at |-> mp_align(NodeHeader), wraps |-> FALSE,
              nodes |-> Append([q \in DOMAIN nodes |-> IF q \in current..Len(nodes) - 1
                                                       THEN [nodes[q] EXCEPT !.failed = @ + 1]
                                                       ELSE nodes[q]],
                               [last |-> mp_align(NodeHeader) + size, end |-> BlockSize, failed |-> 0]),
              current |-> NewCurrent]

\* The search follows head->next when it leaves the head.
Follows(size, aligned) == garbage /\ Len(nodes) = 1 /\ ~Fits(1, size, aligned)

Give(small, size, entry, aligned) ==
    /\ nodes' = small.nodes /\ current' = small.current
    /\ given' = given \cup {[node |-> small.node, from |-> small.at, size |-> size, entry |-> entry, aligned |-> aligned]}
    /\ wrapped' = (wrapped \/ small.wraps)

AllocSmall(size, aligned) ==
    /\ Alive /\ size <= poolMax
    /\ IF Follows(size, aligned)
       THEN crashed' = TRUE /\ UNCHANGED <<nodes, current, given, wrapped>>
       ELSE /\ FirstFit(size, aligned) = 0 => Len(nodes) < MaxBlocks
            /\ Give(Small(size, aligned), size, FALSE, aligned)
            /\ UNCHANGED crashed
    /\ UNCHANGED <<garbage, large, mallocs, gone, serial>>

\* An entry of the list that can be used again: one of the first five.
FreeEntry ==
    LET free == {k \in 1..Len(large) : k <= 5 /\ large[k] = 0}
    IN  IF free = {} THEN 0 ELSE CHOOSE k \in free : \A j \in free : k <= j

\* mp_alloc_large and mp_memalign (which never uses an entry again).
AllocLarge(reuse) ==
    /\ Alive /\ Cardinality(mallocs) < MaxLargeAllocs /\ serial < MaxLargeAllocs + 1
    /\ serial' = serial + 1
    /\ IF reuse /\ FreeEntry # 0
       THEN /\ large' = [large EXCEPT ![FreeEntry] = serial']
            /\ mallocs' = mallocs \cup {serial'}
            /\ UNCHANGED <<nodes, current, given, wrapped, crashed>>
       ELSE IF Follows(LargeEntry, TRUE)
       THEN crashed' = TRUE /\ UNCHANGED <<nodes, current, given, wrapped, large, mallocs>>
       ELSE /\ FirstFit(LargeEntry, TRUE) = 0 => Len(nodes) < MaxBlocks
            /\ Give(Small(LargeEntry, TRUE), LargeEntry, TRUE, TRUE)
            /\ large' = <<serial'>> \o large
            /\ mallocs' = mallocs \cup {serial'}
            /\ UNCHANGED crashed
    /\ UNCHANGED <<garbage, gone>>

\* malloc, or the entry, cannot be had: nothing changes.  mp_free of a large one.
Free(k) ==
    /\ Alive /\ large[k] # 0
    /\ large' = [large EXCEPT ![k] = 0]
    /\ mallocs' = mallocs \ {large[k]}
    /\ UNCHANGED <<nodes, current, garbage, given, wrapped, crashed, gone, serial>>

\* mp_reset_pool: neither current nor failed is reset.
Reset ==
    /\ Alive
    /\ IF garbage /\ Len(nodes) = 1 THEN crashed' = TRUE /\ UNCHANGED <<nodes, large, mallocs, given>>
       ELSE /\ mallocs' = mallocs \ {large[k] : k \in DOMAIN large}
            /\ large' = <<>> /\ given' = {}
            /\ nodes' = [p \in DOMAIN nodes |-> [nodes[p] EXCEPT !.last =
                            IF p = 1 THEN PoolHeader + NodeHeader ELSE NodeHeader]]
            /\ UNCHANGED crashed
    /\ UNCHANGED <<current, garbage, wrapped, gone, serial>>

\* mp_destory_pool.
Destroy ==
    /\ Alive
    /\ IF garbage /\ Len(nodes) = 1 THEN crashed' = TRUE /\ UNCHANGED <<mallocs, gone>>
       ELSE mallocs' = mallocs \ {large[k] : k \in DOMAIN large} /\ gone' = TRUE /\ UNCHANGED crashed
    /\ UNCHANGED <<nodes, current, garbage, large, given, wrapped, serial>>

Next ==
    \/ \E size \in Sizes, aligned \in BOOLEAN : AllocSmall(size, aligned)
    \/ \E reuse \in BOOLEAN : AllocLarge(reuse)
    \/ \E k \in DOMAIN large : Free(k)
    \/ Reset \/ Destroy

Spec == Init /\ [][Next]_vars

------------------------------------------------------------------------------
(* Properties.                                                             *)

EndOf(p) == nodes[p].end
Overlap(g, h) == g.node = h.node /\ g.from < h.from + h.size /\ h.from < g.from + g.size

\* What the pool gives lies in its block, behind the node's header, and overlaps
\* nothing it gave before, the entries of the large list included, as long as no
\* difference went below zero; that happens only where the end of a block is not
\* aligned.  Every large allocation is in the list, so that a reset or the end of
\* the pool frees it, and once.  The program crashes only through the link of the
\* head that was not set.
MemoryPoolSound ==
    /\ ~wrapped =>
         /\ \A g \in given : /\ g.aligned => g.from = mp_align(g.from)
                             /\ g.from >= IF g.node = 1 THEN PoolHeader + NodeHeader ELSE NodeHeader
                             /\ g.from + g.size <= EndOf(g.node)
         /\ \A g, h \in given : g # h => ~Overlap(g, h)
         /\ \A p \in DOMAIN nodes : nodes[p].last <= nodes[p].end
    /\ wrapped => \E p \in DOMAIN nodes : nodes[p].end # mp_align(nodes[p].end)
    /\ \A m \in mallocs : Cardinality({k \in DOMAIN large : large[k] = m}) = 1
    /\ gone => mallocs = {}
    /\ crashed => garbage

==============================================================================
