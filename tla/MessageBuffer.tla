---------------------------- MODULE MessageBuffer ----------------------------
(***************************************************************************)
(* MessageBuffer of network_timer and network_buffer_design: a growing     *)
(* array with a read and a write position, as operators on a record        *)
(* [data, rpos, wpos].  The bytes from rpos to wpos are active.  What a    *)
(* byte is does not matter here; Filler is the one resize fills up with.   *)
(***************************************************************************)
EXTENDS Integers, Sequences

Filler == <<0, 0>>

MessageBuffer(size) ==
    [data |-> [i \in 1..size |-> Filler], rpos |-> 0, wpos |-> 0]

GetBufferSize(b) == Len(b.data)
GetActiveSize(b) == b.wpos - b.rpos
GetFreeSize(b) == Len(b.data) - b.wpos

\* GetAllData: the active bytes.
GetAllData(b) == SubSeq(b.data, b.rpos + 1, b.wpos)

ReadCompleted(b, size) == [b EXCEPT !.rpos = @ + size]

\* Move the active bytes to the front; what memmove does not overwrite stays.
Normalize(b) ==
    [data |-> [i \in 1..Len(b.data) |->
                 IF i <= GetActiveSize(b) THEN b.data[b.rpos + i] ELSE b.data[i]],
     rpos |-> 0,
     wpos |-> GetActiveSize(b)]

Resize(b, size) ==
    [b EXCEPT !.data = [i \in 1..size |-> IF i <= Len(@) THEN @[i] ELSE Filler]]

EnsureFreeSpace(b, size) ==
    IF GetBufferSize(b) - GetActiveSize(b) < size
    THEN LET half == GetBufferSize(b) \div 2
         IN  Resize(Normalize(b), GetBufferSize(b) + (IF size > half THEN size ELSE half))
    ELSE IF GetFreeSize(b) < size THEN Normalize(b) ELSE b

\* The bytes are stored at the write position, where there is room for them.
Store(b, bytes) ==
    [b EXCEPT !.data = [i \in 1..Len(@) |-> IF i - b.wpos \in 1..Len(bytes)
                                            THEN bytes[i - b.wpos] ELSE @[i]],
              !.wpos = @ + Len(bytes)]

Write(b, bytes) == Store(EnsureFreeSpace(b, Len(bytes)), bytes)

\* Recv, for the bytes that readv has put into the free room and, if they are
\* more than that, into the extra area on the stack.
Recv(b, bytes) ==
    IF Len(bytes) <= GetFreeSize(b)
    THEN Store(b, bytes)
    ELSE LET full == Store(b, SubSeq(bytes, 1, GetFreeSize(b)))
         IN  Write(full, SubSeq(bytes, GetFreeSize(b) + 1, Len(bytes)))

\* GetDataUntilCRLF: the lengths of the lines that end in the active bytes, of
\* which the function takes the shortest.  CR and LF are the sets of the bytes
\* that are a carriage return or a line feed.  (At least one byte is active: the
\* code computes GetActiveSize() - 1 unsigned.)
LinesEnding(b, CR, LF) ==
    {n \in 0..(GetActiveSize(b) - 2) :
        b.data[b.rpos + n + 1] \in CR /\ b.data[b.rpos + n + 2] \in LF}

==============================================================================
