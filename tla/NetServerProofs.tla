--------------------------- MODULE NetServerProofs ---------------------------
(***************************************************************************)
(* Theorems about NetServer, for every number of connections and           *)
(* descriptors, every buffer, message and window size, every input of the  *)
(* peers and any number of timers.                                         *)
(***************************************************************************)
EXTENDS NetServer, Division, SequenceTheorems, TLAPS

Byte == Nat \X Nat

\* What the proofs use of the parameters.
LEMMA Parameters ==
  /\ MaxConns \in Nat /\ MaxFds \in Nat
  /\ BufferSize \in Nat \ {0} /\ ExtraSize \in Nat \ {0}
  /\ MsgSize \in Nat \ {0} /\ SendRoom \in Nat
  /\ None \notin Fds /\ None \notin Conns
  /\ \A c \in Conns : c \in Nat /\ c >= 1
  BY NetServerAssumption DEF None, Fds, Conns

------------------------------------------------------------------------------
(* Sequences of bytes.                                                     *)

\* What is cut off the front and what is left make up the whole.
LEMMA SplitJoin ==
  ASSUME NEW S, NEW s \in Seq(S), NEW k \in 0..Len(s)
  PROVE  /\ SubSeq(s, 1, k) \in Seq(S) /\ SubSeq(s, k + 1, Len(s)) \in Seq(S)
         /\ SubSeq(s, 1, k) \o SubSeq(s, k + 1, Len(s)) = s
<1>1. 1 \in 1..(Len(s) + 1) /\ k \in (1 - 1)..Len(s) /\ Len(s) \in k..Len(s) /\ Len(s) \in Nat
  BY LenProperties
<1>2. SubSeq(s, 1, k) \o SubSeq(s, k + 1, Len(s)) = SubSeq(s, 1, Len(s))
  BY <1>1, ConcatAdjacentSubSeq
<1>3. SubSeq(s, 1, k) \in Seq(S) /\ SubSeq(s, k + 1, Len(s)) \in Seq(S)
  BY <1>1
<1> QED
  BY <1>2, <1>3, SubSeqFull

\* It does not matter in which order sequences are put together.
LEMMA JoinAssoc ==
  \A s, t, u \in Seq(Byte) : (s \o t) \o u = s \o (t \o u)
  BY ConcatAssociative

\* The beginning of a sequence.
LEMMA PrefixOfJoin ==
  ASSUME NEW S, NEW s \in Seq(S), NEW t \in Seq(S)
  PROVE  IsPrefix(s, s \o t)
  BY DEF IsPrefix

\* A stretch of a stream.
LEMMA BytesType ==
  ASSUME NEW c \in Nat, NEW a \in Nat, NEW b \in Nat, a <= b + 1, a >= 1
  PROVE  /\ Bytes(c, a, b) \in Seq(Byte) /\ Len(Bytes(c, a, b)) = b + 1 - a
         /\ \A i \in 1..(b + 1 - a) : Bytes(c, a, b)[i] = <<c, a + i - 1>>
<1>1. b - a + 1 = b + 1 - a /\ b + 1 - a \in Nat
  OBVIOUS
<1> DEFINE m == b + 1 - a
           s == Bytes(c, a, b)
<1>2. s = [i \in 1..m |-> <<c, a + i - 1>>]
  BY <1>1 DEF Bytes
<1>3. m \in Nat /\ \A i \in 1..m : a + i - 1 \in Nat
  OBVIOUS
<1> HIDE DEF m, s
<1>4. \A i \in 1..m : s[i] = <<c, a + i - 1>> /\ s[i] \in Byte
  BY <1>2, <1>3 DEF Byte
<1>5. s \in [1..m -> Byte]
  BY <1>2, <1>4
<1>6. s \in Seq(Byte) /\ Len(s) = m
  BY <1>3, <1>5
<1> QED
  BY <1>4, <1>6 DEF m, s

\* Two stretches of a stream that follow each other.
LEMMA BytesJoin ==
  ASSUME NEW c \in Nat, NEW a \in Nat, NEW b \in Nat, NEW k \in Nat, a <= b + 1, a >= 1
  PROVE  Bytes(c, a, b) \o Bytes(c, b + 1, b + k) = Bytes(c, a, b + k)
<1> DEFINE s == Bytes(c, a, b)
           t == Bytes(c, b + 1, b + k)
           u == Bytes(c, a, b + k)
           m == b + 1 - a
<1>1. m \in Nat /\ (b + k) + 1 - a = m + k /\ (b + k) + 1 - (b + 1) = k
  OBVIOUS
<1>2. /\ s \in Seq(Byte) /\ Len(s) = m
      /\ \A i \in 1..m : s[i] = <<c, a + i - 1>>
  BY BytesType, ZenonT(60)
<1>3. /\ t \in Seq(Byte) /\ Len(t) = k
      /\ \A i \in 1..k : t[i] = <<c, (b + 1) + i - 1>>
  <2>1. b + 1 \in Nat /\ b + k \in Nat /\ b + 1 <= (b + k) + 1 /\ b + 1 >= 1
    OBVIOUS
  <2>2. /\ t \in Seq(Byte) /\ Len(t) = (b + k) + 1 - (b + 1)
        /\ \A i \in 1..((b + k) + 1 - (b + 1)) : t[i] = <<c, (b + 1) + i - 1>>
    BY <2>1, BytesType, ZenonT(60)
  <2> QED
    BY <1>1, <2>2
<1>4. /\ u \in Seq(Byte) /\ Len(u) = m + k
      /\ \A i \in 1..(m + k) : u[i] = <<c, a + i - 1>>
  <2>1. b + k \in Nat /\ a <= (b + k) + 1
    OBVIOUS
  <2>2. /\ u \in Seq(Byte) /\ Len(u) = (b + k) + 1 - a
        /\ \A i \in 1..((b + k) + 1 - a) : u[i] = <<c, a + i - 1>>
    BY <2>1, BytesType, ZenonT(60)
  <2> QED
    BY <1>1, <2>2
<1>5. a - 1 + m = b
  OBVIOUS
<1> HIDE DEF s, t, u, m
<1>6. /\ s \o t \in Seq(Byte) /\ Len(s \o t) = m + k
      /\ \A i \in 1..(m + k) : (s \o t)[i] = IF i <= m THEN s[i] ELSE t[i - m]
  BY <1>2, <1>3, ConcatProperties
<1>7. ASSUME NEW i \in 1..(m + k) PROVE (s \o t)[i] = u[i]
  <2>1. CASE i <= m
    <3>1. i \in 1..m
      BY <1>1, <2>1
    <3> QED
      BY <1>2, <1>4, <1>6, <2>1, <3>1
  <2>2. CASE ~(i <= m)
    <3>1. i - m \in 1..k /\ (b + 1) + (i - m) - 1 = a + i - 1
      BY <1>1, <1>5, <2>2
    <3>2. (s \o t)[i] = t[i - m]
      BY <1>6, <2>2
    <3>3. t[i - m] = <<c, (b + 1) + (i - m) - 1>>
      BY <1>3, <3>1
    <3> QED
      BY <1>4, <3>1, <3>2, <3>3
  <2> QED
    BY <2>1, <2>2
<1>8. s \o t = u
  BY <1>4, <1>6, <1>7, SeqEqual
<1> QED
  BY <1>8 DEF s, t, u

------------------------------------------------------------------------------
(* The output side.  A descriptor belongs to the connection that has it    *)
(* and is not closed, and to no other; a connection that was never made    *)
(* has sent nothing.                                                       *)

OutType ==
    /\ accepted \in 0..MaxConns
    /\ sock \in [Fds -> Nat] /\ interest \in [Fds -> [ptr : Nat, out : BOOLEAN]]
    /\ room \in [Conns -> Nat] /\ sent \in [Conns -> Nat]
    /\ fd \in [Conns -> Nat] /\ closed \in [Conns -> BOOLEAN]
    /\ delivered \in [Conns -> Seq(Byte)] /\ output \in [Conns -> Seq(Byte)]

SockInv ==
    /\ \A c \in 1..accepted : fd[c] \in Fds /\ (~closed[c] => sock[fd[c]] = c)
    /\ \A f \in Fds : sock[f] # None =>
          sock[f] \in 1..accepted /\ ~closed[sock[f]] /\ fd[sock[f]] = f
    /\ \A c \in Conns : c > accepted => ~closed[c] /\ output[c] = <<>>

OutInv == OutType /\ SockInv /\ OutputWatched /\ SentInOrder

\* Connections that were accepted are connections.
LEMMA AcceptedConns ==
  ASSUME OutType, NEW c \in 1..accepted
  PROVE  /\ c \in Conns /\ c \in Nat /\ c # None
         /\ room[c] \in Nat /\ sent[c] \in Nat /\ closed[c] \in BOOLEAN
         /\ delivered[c] \in Seq(Byte) /\ output[c] \in Seq(Byte)
<1>1. c \in Conns
  BY NetServerAssumption DEF OutType, Conns
<1> QED
  BY <1>1, Parameters DEF OutType

\* Nothing has been sent on a new server.
LEMMA OutInit == Init => OutInv
<1> SUFFICES ASSUME Init PROVE OutInv
  OBVIOUS
<1>1. OutType
  BY Parameters DEF Init, OutType, None
<1>2. SockInv /\ OutputWatched
  BY Parameters DEF Init, SockInv, OutputWatched, None
<1>3. SentInOrder
  <2> SUFFICES ASSUME NEW c \in Conns PROVE delivered[c] \o output[c] = Bytes(c, 1, sent[c])
    BY DEF SentInOrder, Init
  <2>1. delivered[c] = <<>> /\ output[c] = <<>> /\ sent[c] = 0
    BY DEF Init
  <2>2. Bytes(c, 1, 0) \in Seq(Byte) /\ Len(Bytes(c, 1, 0)) = 0
    <3>1. c \in Nat /\ 1 \in Nat /\ 0 \in Nat /\ 1 <= 0 + 1 /\ 1 >= 1 /\ 0 + 1 - 1 = 0
      BY Parameters
    <3>2. Bytes(c, 1, 0) \in Seq(Byte) /\ Len(Bytes(c, 1, 0)) = 0 + 1 - 1
      BY <3>1, BytesType, ZenonT(60)
    <3> QED
      BY <3>1, <3>2
  <2>3. Bytes(c, 1, 0) = <<>>
    BY <2>2, EmptySeq
  <2> QED
    BY <2>1, <2>3
<1> QED
  BY <1>1, <1>2, <1>3 DEF OutInv

\* Closing a connection frees its descriptor and leaves a prefix delivered.
LEMMA OutClose ==
  ASSUME OutInv, NEW c \in 1..accepted, Close(c),
         UNCHANGED <<room, delivered, output, sent, acceptVars>>
  PROVE  OutInv'
<1>1. /\ accepted' = accepted /\ fd' = fd /\ room' = room /\ delivered' = delivered
      /\ output' = output /\ sent' = sent
  BY DEF acceptVars
<1>2. OutType /\ c \in Conns /\ c # None /\ fd[c] \in Fds
  BY AcceptedConns DEF OutInv, SockInv
<1>3. CASE closed[c]
  <2>1. interest' = interest /\ sock' = sock
    BY <1>3 DEF Close
  <2>2. closed' = closed
    BY <1>2, <1>3 DEF Close, OutType
  <2> QED
    BY <1>1, <2>1, <2>2
       DEF OutInv, OutType, SockInv, OutputWatched, SentInOrder
<1>4. CASE ~closed[c]
  <2>1. /\ closed' = [closed EXCEPT ![c] = TRUE]
        /\ interest' = [interest EXCEPT ![fd[c]] = [ptr |-> None, out |-> FALSE]]
        /\ sock' = [sock EXCEPT ![fd[c]] = None]
    BY <1>4 DEF Close
  <2>2. OutType'
    BY <1>1, <1>2, <2>1 DEF OutType, None
  <2>3. sock[fd[c]] = c
    BY <1>4 DEF OutInv, SockInv
  <2>4. /\ \A d \in Conns : closed'[d] = IF d = c THEN TRUE ELSE closed[d]
        /\ \A f \in Fds : sock'[f] = IF f = fd[c] THEN None ELSE sock[f]
        /\ \A f \in Fds : interest'[f] = IF f = fd[c] THEN [ptr |-> None, out |-> FALSE]
                                         ELSE interest[f]
    BY <1>2, <2>1 DEF OutType
  <2>5. \A d \in 1..accepted : d \in Conns /\ fd[d] \in Fds
    BY <1>2, AcceptedConns DEF OutInv, SockInv
  <2>6. \A d \in 1..accepted : d # c /\ ~closed[d] => fd[d] # fd[c]
    BY <2>3 DEF OutInv, SockInv
  <2>7. SockInv'
    <3>1. ASSUME NEW d \in 1..accepted PROVE fd[d] \in Fds /\ (~closed'[d] => sock'[fd[d]] = d)
      BY <2>4, <2>5, <2>6 DEF OutInv, SockInv
    <3>2. ASSUME NEW f \in Fds, sock'[f] # None
          PROVE sock'[f] \in 1..accepted /\ ~closed'[sock'[f]] /\ fd[sock'[f]] = f
      <4>1. f # fd[c] /\ sock'[f] = sock[f]
        BY <2>4, <3>2
      <4>2. sock[f] \in 1..accepted /\ ~closed[sock[f]] /\ fd[sock[f]] = f
        BY <3>2, <4>1 DEF OutInv, SockInv
      <4> QED
        BY <2>4, <2>5, <4>1, <4>2
    <3>3. ASSUME NEW d \in Conns, d > accepted PROVE ~closed'[d] /\ output[d] = <<>>
      <4>1. d # c
        BY <1>2, <3>3 DEF OutType
      <4> QED
        BY <2>4, <3>3, <4>1 DEF OutInv, SockInv
    <3> QED
      BY <1>1, <3>1, <3>2, <3>3 DEF SockInv
  <2>8. OutputWatched'
    <3>1. ASSUME NEW d \in 1..accepted, ~closed'[d]
          PROVE  interest'[fd[d]] = [ptr |-> d, out |-> output[d] # <<>>]
      <4>1. d # c /\ ~closed[d]
        BY <2>4, <2>5, <3>1
      <4>2. interest'[fd[d]] = interest[fd[d]]
        BY <2>4, <2>5, <2>6, <4>1
      <4> QED
        BY <4>1, <4>2 DEF OutInv, OutputWatched
    <3>2. ASSUME NEW f \in Fds PROVE interest'[f].ptr = sock'[f]
      BY <2>4 DEF OutInv, OutputWatched
    <3> QED
      BY <1>1, <3>1, <3>2 DEF OutputWatched
  <2>9. SentInOrder'
    <3> SUFFICES ASSUME NEW d \in Conns
                 PROVE  IF closed'[d] THEN IsPrefix(delivered[d], Bytes(d, 1, sent[d]))
                        ELSE delivered[d] \o output[d] = Bytes(d, 1, sent[d])
      BY <1>1 DEF SentInOrder
    <3>1. CASE d # c
      BY <2>4, <3>1 DEF OutInv, SentInOrder
    <3>2. CASE d = c
      <4>1. delivered[c] \o output[c] = Bytes(c, 1, sent[c])
        BY <1>2, <1>4 DEF OutInv, SentInOrder
      <4>2. IsPrefix(delivered[c], delivered[c] \o output[c])
        BY <1>2, PrefixOfJoin DEF OutType
      <4> QED
        BY <2>4, <3>2, <4>1, <4>2
    <3> QED
      BY <3>1, <3>2
  <2> QED
    BY <2>2, <2>7, <2>8, <2>9 DEF OutInv
<1> QED
  BY <1>3, <1>4

\* What send does not take is left with the caller: nothing is lost, and only
\* the connection's own socket gets bytes.
LEMMA Transmitted ==
  ASSUME OutInv, NEW c \in 1..accepted, ~closed[c],
         NEW bytes \in Seq(Byte), NEW left, Transmit(c, bytes, left)
  PROVE  /\ left \in Seq(Byte)
         /\ delivered' \in [Conns -> Seq(Byte)] /\ room' \in [Conns -> Nat]
         /\ delivered'[c] \o left = delivered[c] \o bytes
         /\ \A d \in Conns \ {c} : delivered'[d] = delivered[d]
<1>1. /\ sock[fd[c]] = c /\ c \in Conns /\ room[c] \in Nat /\ delivered[c] \in Seq(Byte)
      /\ room \in [Conns -> Nat] /\ delivered \in [Conns -> Seq(Byte)]
  BY AcceptedConns DEF OutInv, SockInv, OutType
<1> DEFINE k == IF room[c] < Len(bytes) THEN room[c] ELSE Len(bytes)
           front == SubSeq(bytes, 1, k)
<1>2. /\ delivered' = [delivered EXCEPT ![c] = @ \o front]
      /\ room' = [room EXCEPT ![c] = @ - k]
      /\ left = SubSeq(bytes, k + 1, Len(bytes))
  BY <1>1 DEF Transmit
<1>3. k \in 0..Len(bytes) /\ room[c] - k \in Nat
  BY <1>1, LenProperties
<1> HIDE DEF k
<1>4. /\ front \in Seq(Byte) /\ left \in Seq(Byte) /\ front \o left = bytes
  BY <1>2, <1>3, SplitJoin
<1> HIDE DEF front
<1>5. /\ delivered[c] \o front \in Seq(Byte) /\ delivered'[c] = delivered[c] \o front
      /\ \A d \in Conns \ {c} : delivered'[d] = delivered[d]
      /\ delivered' \in [Conns -> Seq(Byte)]
  <2>1. delivered[c] \o front \in Seq(Byte)
    BY <1>1, <1>4, ConcatProperties
  <2> QED
    BY <1>1, <1>2, <2>1
<1>6. (delivered[c] \o front) \o left = delivered[c] \o (front \o left)
  BY <1>1, <1>4, JoinAssoc, ZenonT(60)
<1>7. room' \in [Conns -> Nat]
  BY <1>1, <1>2, <1>3
<1> QED
  BY <1>4, <1>5, <1>6, <1>7

\* A step that only moves bytes of an open connection between what is sent,
\* the output buffer and the socket, and watches the socket accordingly.
LEMMA OutMove ==
  ASSUME OutInv, NEW c \in 1..accepted, ~closed[c], OutType',
         UNCHANGED <<sock, closed, acceptVars>>,
         \A d \in Conns \ {c} : /\ delivered'[d] = delivered[d] /\ output'[d] = output[d]
                                /\ sent'[d] = sent[d],
         delivered'[c] \o output'[c] = Bytes(c, 1, sent'[c]),
         \A f \in Fds : f # fd[c] => interest'[f] = interest[f],
         interest'[fd[c]] = [ptr |-> c, out |-> output'[c] # <<>>]
  PROVE  OutInv'
<1>1. /\ accepted' = accepted /\ fd' = fd /\ sock' = sock /\ closed' = closed
  BY DEF acceptVars
<1>2. OutType /\ c \in Conns /\ fd[c] \in Fds /\ sock[fd[c]] = c
  BY AcceptedConns DEF OutInv, SockInv
<1>3. \A d \in 1..accepted : d \in Conns /\ (d # c /\ ~closed[d] => fd[d] # fd[c])
  BY <1>2, AcceptedConns DEF OutInv, SockInv
<1>4. SockInv'
  <2>1. ASSUME NEW d \in Conns, d > accepted PROVE ~closed[d] /\ output'[d] = <<>>
    <3>1. d # c
      BY <1>2, <2>1 DEF OutType
    <3> QED
      BY <2>1, <3>1 DEF OutInv, SockInv
  <2> QED
    BY <1>1, <2>1 DEF OutInv, SockInv
<1>5. OutputWatched'
  <2>1. ASSUME NEW d \in 1..accepted, ~closed[d]
        PROVE  interest'[fd[d]] = [ptr |-> d, out |-> output'[d] # <<>>]
    <3>1. CASE d = c
      BY <3>1
    <3>2. CASE d # c
      <4>1. /\ interest'[fd[d]] = interest[fd[d]] /\ output'[d] = output[d]
        BY <1>3, <2>1, <3>2 DEF OutInv, SockInv
      <4> QED
        BY <2>1, <4>1 DEF OutInv, OutputWatched
    <3> QED
      BY <3>1, <3>2
  <2>2. ASSUME NEW f \in Fds PROVE interest'[f].ptr = sock[f]
    BY <1>2 DEF OutInv, OutputWatched
  <2> QED
    BY <1>1, <2>1, <2>2 DEF OutputWatched
<1>6. SentInOrder'
  BY <1>1, <1>2 DEF OutInv, SentInOrder
<1> QED
  BY <1>4, <1>5, <1>6 DEF OutInv

\* Send, whatever becomes of it.
LEMMA OutSend ==
  ASSUME OutInv, NEW c \in 1..accepted, Send(c), UNCHANGED acceptVars
  PROVE  OutInv'
<1>1. OutType /\ c \in Conns /\ c \in Nat /\ fd[c] \in Fds /\ sent[c] \in Nat
  BY AcceptedConns DEF OutInv, SockInv
<1>2. accepted' = accepted /\ fd' = fd
  BY DEF acceptVars
<1>3. MsgSize \in Nat \ {0} /\ sent[c] + MsgSize \in Nat
  BY <1>1, Parameters
<1>4. Message(c) \in Seq(Byte) /\ Len(Message(c)) = MsgSize
  <2>1. sent[c] + 1 \in Nat /\ sent[c] + 1 <= (sent[c] + MsgSize) + 1 /\ sent[c] + 1 >= 1
    BY <1>1, <1>3
  <2>2. Len(Message(c)) = (sent[c] + MsgSize) + 1 - (sent[c] + 1) /\ Message(c) \in Seq(Byte)
    BY <1>1, <1>3, <2>1, BytesType DEF Message
  <2> QED
    BY <1>1, <1>3, <2>2
<1>5. Bytes(c, 1, sent[c]) \o Message(c) = Bytes(c, 1, sent[c] + MsgSize)
  <2>1. 1 \in Nat /\ MsgSize \in Nat /\ 1 <= sent[c] + 1 /\ 1 >= 1
    BY <1>1, <1>3
  <2> QED
    BY <1>1, <2>1, BytesJoin, ZenonT(60) DEF Message
<1>6. CASE closed[c] /\ UNCHANGED outVars
  BY <1>2, <1>6 DEF OutInv, OutType, SockInv, OutputWatched, SentInOrder, outVars
<1>7. CASE /\ ~closed[c] /\ output[c] = <<>> /\ SendFails(c)
           /\ Close(c) /\ UNCHANGED <<room, delivered, output, sent>>
  BY <1>7, OutClose
<1>8. CASE /\ ~closed[c] /\ output[c] # <<>>
           /\ sent' = [sent EXCEPT ![c] = @ + MsgSize]
           /\ output' = [output EXCEPT ![c] = @ \o Message(c)]
           /\ WatchWrite(c, TRUE)
           /\ UNCHANGED <<sock, room, delivered, closed>>
  <2>1. /\ sent'[c] = sent[c] + MsgSize /\ output'[c] = output[c] \o Message(c)
        /\ delivered' = delivered
        /\ \A d \in Conns \ {c} : sent'[d] = sent[d] /\ output'[d] = output[d]
    BY <1>1, <1>8 DEF OutType
  <2>2. /\ interest'[fd[c]] = [ptr |-> c, out |-> TRUE]
        /\ \A f \in Fds : f # fd[c] => interest'[f] = interest[f]
    BY <1>1, <1>8 DEF WatchWrite, OutType
  <2>3. output[c] \in Seq(Byte) /\ delivered[c] \in Seq(Byte)
    BY <1>1 DEF OutType
  <2>4. output'[c] \in Seq(Byte) /\ output'[c] # <<>>
    BY <1>4, <1>8, <2>1, <2>3, ConcatProperties, ConcatEqualIffEmpty
  <2>5. delivered'[c] \o output'[c] = Bytes(c, 1, sent'[c])
    <3>1. delivered[c] \o output[c] = Bytes(c, 1, sent[c])
      BY <1>1, <1>8 DEF OutInv, SentInOrder
    <3>2. (delivered[c] \o output[c]) \o Message(c) = delivered[c] \o (output[c] \o Message(c))
      BY <1>4, <2>3, JoinAssoc, Zenon
    <3> QED
      BY <1>5, <2>1, <3>1, <3>2
  <2>6. OutType'
    BY <1>1, <1>2, <1>3, <1>8, <2>1, <2>4 DEF OutType, WatchWrite
  <2> QED
    BY <1>8, <2>1, <2>2, <2>4, <2>5, <2>6, OutMove
<1>9. ASSUME ~closed[c], output[c] = <<>>,
             sent' = [sent EXCEPT ![c] = @ + MsgSize],
             NEW left, Transmit(c, Message(c), left),
             output' = [output EXCEPT ![c] = left],
             IF left = <<>> THEN UNCHANGED interest ELSE WatchWrite(c, TRUE),
             UNCHANGED <<sock, closed>>
      PROVE  OutInv'
  <2>1. /\ left \in Seq(Byte)
        /\ delivered' \in [Conns -> Seq(Byte)] /\ room' \in [Conns -> Nat]
        /\ delivered'[c] \o left = delivered[c] \o Message(c)
        /\ \A d \in Conns \ {c} : delivered'[d] = delivered[d]
    BY <1>4, <1>9, Transmitted
  <2>2. /\ sent'[c] = sent[c] + MsgSize /\ output'[c] = left
        /\ \A d \in Conns \ {c} : sent'[d] = sent[d] /\ output'[d] = output[d]
    BY <1>1, <1>9 DEF OutType
  <2>3. interest[fd[c]] = [ptr |-> c, out |-> FALSE]
    BY <1>9 DEF OutInv, OutputWatched
  <2>4. /\ interest'[fd[c]] = [ptr |-> c, out |-> left # <<>>]
        /\ \A f \in Fds : f # fd[c] => interest'[f] = interest[f]
        /\ interest' \in [Fds -> [ptr : Nat, out : BOOLEAN]]
    <3>1. CASE left = <<>>
      BY <1>1, <1>9, <2>3, <3>1 DEF OutType
    <3>2. CASE left # <<>>
      <4>1. interest' = [interest EXCEPT ![fd[c]] = [ptr |-> c, out |-> TRUE]]
        BY <1>9, <3>2 DEF WatchWrite
      <4>2. (left # <<>>) = TRUE
        BY <3>2
      <4>3. [ptr |-> c, out |-> TRUE] = [ptr |-> c, out |-> left # <<>>]
        BY <4>2, Zenon
      <4> QED
        BY <1>1, <4>1, <4>3 DEF OutType
    <3> QED
      BY <3>1, <3>2
  <2>5. delivered'[c] \o output'[c] = Bytes(c, 1, sent'[c])
    <3>1. delivered[c] \o output[c] = Bytes(c, 1, sent[c])
      BY <1>1, <1>9 DEF OutInv, SentInOrder
    <3>2. delivered[c] \o <<>> = delivered[c]
      BY <1>1, ConcatEmptySeq DEF OutType
    <3> QED
      BY <1>5, <1>9, <2>1, <2>2, <3>1, <3>2
  <2>6. OutType'
    BY <1>1, <1>2, <1>3, <1>9, <2>1, <2>2, <2>4 DEF OutType
  <2> QED
    BY <1>9, <2>1, <2>2, <2>4, <2>5, <2>6, OutMove
<1> QED
  BY <1>6, <1>7, <1>8, <1>9 DEF Send

\* What the application sends in a callback.
LEMMA OutMaySend ==
  ASSUME OutInv, MaySend, UNCHANGED acceptVars
  PROVE  OutInv'
<1>1. CASE UNCHANGED outVars
  BY <1>1 DEF OutInv, OutType, SockInv, OutputWatched, SentInOrder, outVars, acceptVars
<1>2. ASSUME NEW c \in 1..accepted, Send(c) PROVE OutInv'
  BY <1>2, OutSend
<1> QED
  BY <1>1, <1>2 DEF MaySend

\* HandleWrite sends the front of the output buffer.
LEMMA OutWrite ==
  ASSUME OutInv, NEW c \in 1..accepted, ~closed[c], NEW left,
         Transmit(c, output[c], left), output' = [output EXCEPT ![c] = left],
         IF left = <<>> THEN WatchWrite(c, FALSE) ELSE UNCHANGED interest,
         UNCHANGED <<closed, sock, sent, acceptVars>>
  PROVE  OutInv'
<1>1. /\ OutType /\ c \in Conns /\ c \in Nat /\ fd[c] \in Fds /\ accepted' = accepted /\ fd' = fd
      /\ output[c] \in Seq(Byte)
  BY AcceptedConns DEF OutInv, SockInv, acceptVars
<1>2. /\ left \in Seq(Byte)
      /\ delivered' \in [Conns -> Seq(Byte)] /\ room' \in [Conns -> Nat]
      /\ delivered'[c] \o left = delivered[c] \o output[c]
      /\ \A d \in Conns \ {c} : delivered'[d] = delivered[d]
  BY <1>1, Transmitted
<1>3. /\ output'[c] = left /\ sent' = sent
      /\ \A d \in Conns \ {c} : output'[d] = output[d]
  BY <1>1 DEF OutType
<1>4. interest[fd[c]] = [ptr |-> c, out |-> output[c] # <<>>]
  BY DEF OutInv, OutputWatched
<1>5. left # <<>> => output[c] # <<>>
  <2> SUFFICES ASSUME output[c] = <<>> PROVE left = <<>>
    OBVIOUS
  <2> DEFINE s == sock[fd[c]]
             k == IF room[s] < Len(output[c]) THEN room[s] ELSE Len(output[c])
  <2>1. left = SubSeq(<<>>, k + 1, 0) /\ k \in Int /\ k >= 0
    <3>1. s = c /\ room[c] \in Nat
      BY <1>1 DEF OutInv, SockInv, OutType
    <3> QED
      BY <3>1 DEF Transmit
  <2> HIDE DEF k
  <2>2. k + 1 \in Int /\ 0 < k + 1
    BY <2>1
  <2> QED
    BY <2>1, <2>2, SubSeqEmpty
<1>6. /\ interest'[fd[c]] = [ptr |-> c, out |-> left # <<>>]
      /\ \A f \in Fds : f # fd[c] => interest'[f] = interest[f]
      /\ interest' \in [Fds -> [ptr : Nat, out : BOOLEAN]]
  <2>1. CASE left = <<>>
    <3>1. interest' = [interest EXCEPT ![fd[c]] = [ptr |-> c, out |-> FALSE]]
      BY <2>1 DEF WatchWrite
    <3>2. (left # <<>>) = FALSE
      BY <2>1
    <3>3. [ptr |-> c, out |-> FALSE] = [ptr |-> c, out |-> left # <<>>]
      BY <3>2, Zenon
    <3> QED
      BY <1>1, <3>1, <3>3 DEF OutType
  <2>2. CASE left # <<>>
    BY <1>1, <1>4, <1>5, <2>2 DEF OutType
  <2> QED
    BY <2>1, <2>2
<1>7. delivered'[c] \o output'[c] = Bytes(c, 1, sent'[c])
  BY <1>1, <1>2, <1>3 DEF OutInv, SentInOrder
<1>8. OutType'
  BY <1>1, <1>2, <1>3, <1>6 DEF OutType
<1> QED
  BY <1>2, <1>3, <1>6, <1>7, <1>8, OutMove

\* A new connection gets the lowest free descriptor.
LEMMA OutAccept ==
  ASSUME OutInv, accepted < MaxConns, NEW f \in FreeFds,
         accepted' = accepted + 1, fd' = [fd EXCEPT ![accepted + 1] = f],
         sock' = [sock EXCEPT ![f] = accepted + 1],
         interest' = [interest EXCEPT ![f] = [ptr |-> accepted + 1, out |-> FALSE]],
         UNCHANGED <<room, delivered, closed, output, sent>>
  PROVE  OutInv'
<1> DEFINE c == accepted + 1
<1>1. /\ OutType /\ c \in Conns /\ c \in Nat /\ c # None /\ f \in Fds /\ sock[f] = None
      /\ accepted \in Nat /\ MaxConns \in Nat /\ c > accepted /\ c \notin 1..accepted
  <2>1. OutType /\ f \in Fds /\ sock[f] = None
    BY DEF OutInv, FreeFds
  <2>2. accepted \in Nat /\ MaxConns \in Nat
    BY <2>1, Parameters DEF OutType
  <2>3. c \in Conns /\ c \in Nat /\ c # None /\ c > accepted /\ c \notin 1..accepted
    BY <2>2 DEF Conns, None
  <2> QED
    BY <2>1, <2>2, <2>3
<1>2. 1..c = (1..accepted) \cup {c}
  BY <1>1
<1>3. accepted' = c
  OBVIOUS
<1> HIDE DEF c
<1>4. /\ \A d \in Conns : fd'[d] = IF d = c THEN f ELSE fd[d]
      /\ \A g \in Fds : sock'[g] = IF g = f THEN c ELSE sock[g]
      /\ \A g \in Fds : interest'[g] = IF g = f THEN [ptr |-> c, out |-> FALSE] ELSE interest[g]
      /\ room' = room /\ delivered' = delivered /\ closed' = closed
      /\ output' = output /\ sent' = sent
  BY <1>1 DEF OutType, c
<1>5. OutType'
  <2>1. accepted' \in 0..MaxConns
    BY <1>1 DEF c
  <2>2. f \in Nat
    BY <1>1, Parameters DEF Fds
  <2> QED
    BY <1>1, <1>4, <2>1, <2>2 DEF OutType, c
<1>6. \A d \in 1..accepted : d \in Conns /\ d # c /\ fd[d] \in Fds /\ fd'[d] = fd[d]
  BY <1>1, <1>4, AcceptedConns DEF OutInv, SockInv
<1>7. \A d \in 1..accepted : ~closed[d] => fd[d] # f
  BY <1>1, <1>6 DEF OutInv, SockInv, None
<1>8. SockInv'
  <2>1. ASSUME NEW d \in 1..c PROVE fd'[d] \in Fds /\ (~closed[d] => sock'[fd'[d]] = d)
    <3>1. CASE d = c
      BY <1>1, <1>4, <3>1
    <3>2. CASE d \in 1..accepted
      BY <1>4, <1>6, <1>7, <3>2 DEF OutInv, SockInv
    <3> QED
      BY <1>2, <3>1, <3>2
  <2>2. ASSUME NEW g \in Fds, sock'[g] # None
        PROVE  sock'[g] \in 1..c /\ ~closed[sock'[g]] /\ fd'[sock'[g]] = g
    <3>1. CASE g = f
      <4>1. ~closed[c]
        BY <1>1 DEF OutInv, SockInv
      <4>2. c \in 1..c
        BY <1>1, <1>2
      <4> QED
        BY <1>1, <1>4, <3>1, <4>1, <4>2
    <3>2. CASE g # f
      BY <1>2, <1>4, <1>6, <2>2, <3>2 DEF OutInv, SockInv
    <3> QED
      BY <3>1, <3>2
  <2>3. ASSUME NEW d \in Conns, d > c PROVE ~closed[d] /\ output[d] = <<>>
    <3>1. d > accepted
      BY <1>1, <2>3, Parameters DEF c
    <3> QED
      BY <3>1 DEF OutInv, SockInv
  <2> QED
    BY <1>3, <1>4, <2>1, <2>2, <2>3 DEF SockInv
<1>9. OutputWatched'
  <2>1. ASSUME NEW d \in 1..c, ~closed[d]
        PROVE  interest'[fd'[d]] = [ptr |-> d, out |-> output[d] # <<>>]
    <3>1. CASE d = c
      <4>1. output[c] = <<>>
        BY <1>1 DEF OutInv, SockInv
      <4> QED
        BY <1>1, <1>4, <3>1, <4>1
    <3>2. CASE d \in 1..accepted
      BY <1>4, <1>6, <1>7, <2>1, <3>2 DEF OutInv, OutputWatched
    <3> QED
      BY <1>2, <3>1, <3>2
  <2>2. ASSUME NEW g \in Fds PROVE interest'[g].ptr = sock'[g]
    BY <1>4 DEF OutInv, OutputWatched
  <2>3. ASSUME NEW d \in 1..accepted', ~closed'[d]
        PROVE  interest'[fd'[d]] = [ptr |-> d, out |-> output'[d] # <<>>]
    <3>1. d \in 1..c /\ ~closed[d] /\ output'[d] = output[d]
      BY <1>3, <1>4, <2>3
    <3>2. interest'[fd'[d]] = [ptr |-> d, out |-> output[d] # <<>>]
      BY <2>1, <3>1
    <3> QED
      BY <3>1, <3>2
  <2> QED
    BY <2>2, <2>3 DEF OutputWatched
<1>10. SentInOrder'
  BY <1>4 DEF OutInv, SentInOrder
<1> QED
  BY <1>5, <1>8, <1>9, <1>10 DEF OutInv

------------------------------------------------------------------------------
(* MessageBuffer.  A buffer holds the bytes from + 1 .. to of a stream when *)
(* its active part is as long and the i-th active byte is byte from + i.    *)

Buffers == [data : Seq(Byte), rpos : Nat, wpos : Nat]

Holds(b, c, from, to) ==
    /\ b \in Buffers /\ b.rpos <= b.wpos /\ b.wpos <= Len(b.data)
    /\ b.wpos - b.rpos = to - from
    /\ \A i \in 1..(b.wpos - b.rpos) : b.data[b.rpos + i] = <<c, from + i>>

\* The k bytes of the stream that follow byte to.
Follow(bytes, c, to, k) ==
    bytes \in Seq(Byte) /\ Len(bytes) = k /\ \A i \in 1..k : bytes[i] = <<c, to + i>>

\* A sequence given by its elements.
LEMMA SeqOfBytes ==
  ASSUME NEW m \in Nat, NEW s \in [1..m -> Byte]
  PROVE  s \in Seq(Byte) /\ Len(s) = m
  OBVIOUS

\* Bytes stored at the write position follow the active ones.
LEMMA StoreHolds ==
  ASSUME NEW c \in Nat, NEW from \in Nat, NEW to \in Nat, NEW k \in Nat,
         NEW b, Holds(b, c, from, to), NEW bytes, Follow(bytes, c, to, k),
         k <= GetFreeSize(b)
  PROVE  /\ Holds(Store(b, bytes), c, from, to + k)
         /\ GetFreeSize(Store(b, bytes)) = GetFreeSize(b) - k
<1> DEFINE r == b.rpos
           w == b.wpos
           m == Len(b.data)
           e == Store(b, bytes)
           d == [i \in 1..m |-> IF i - w \in 1..k THEN bytes[i - w] ELSE b.data[i]]
<1>1. /\ b \in Buffers /\ b.data \in Seq(Byte) /\ r \in Nat /\ w \in Nat /\ m \in Nat
      /\ r <= w /\ w <= m /\ w - r = to - from /\ k <= m - w
      /\ bytes \in Seq(Byte) /\ Len(bytes) = k
      /\ \A i \in 1..m : b.data[i] \in Byte
      /\ \A i \in 1..k : bytes[i] \in Byte
  BY LenProperties DEF Holds, Buffers, Follow, GetFreeSize
<1>2. /\ e.data = d /\ e.rpos = r /\ e.wpos = w + k
      /\ d \in Seq(Byte) /\ w + k \in Nat => e \in Buffers
  <2> DEFINE x == w + k
  <2>1. e = [b EXCEPT !.data = d, !.wpos = x]
    BY <1>1 DEF Store
  <2> HIDE DEF d, e, x
  <2>0. b \in Buffers
    BY <1>1
  <2>2. /\ e.data = d /\ e.rpos = r /\ e.wpos = x
        /\ d \in Seq(Byte) /\ x \in Nat => e \in Buffers
    BY <2>0, <2>1 DEF Buffers
  <2> QED
    BY <2>2 DEF x
<1>3. /\ \A i \in 1..(w - r) : b.data[r + i] = <<c, from + i>>
      /\ \A i \in 1..k : bytes[i] = <<c, to + i>>
  BY DEF Holds, Follow
<1> HIDE DEF r, w, m, e
<1>4. \A i \in 1..m : (IF i - w \in 1..k THEN bytes[i - w] ELSE b.data[i]) \in Byte
  BY <1>1
<1>5. d \in [1..m -> Byte]
  BY <1>4
<1>6. e.data \in Seq(Byte) /\ Len(e.data) = m
  BY <1>1, <1>2, <1>5, SeqOfBytes
<1>7. e \in Buffers
  BY <1>1, <1>2, <1>6
<1>8. ASSUME NEW i \in 1..((w + k) - r) PROVE e.data[r + i] = <<c, from + i>>
  <2>1. r + i \in 1..m /\ (r + i) - w \in Int
    BY <1>1
  <2>2. e.data[r + i] = IF (r + i) - w \in 1..k THEN bytes[(r + i) - w] ELSE b.data[r + i]
    <3>1. \A j \in 1..m : d[j] = IF j - w \in 1..k THEN bytes[j - w] ELSE b.data[j]
      OBVIOUS
    <3> HIDE DEF d
    <3> QED
      BY <1>2, <2>1, <3>1
  <2>3. CASE (r + i) - w \in 1..k
    <3>1. to + ((r + i) - w) = from + i
      <4>1. r + (to - from) = w
        BY <1>1
      <4> QED
        BY <1>1, <4>1
    <3> QED
      BY <1>3, <2>2, <2>3, <3>1
  <2>4. CASE (r + i) - w \notin 1..k
    <3>1. i \in 1..(w - r)
      BY <1>1, <2>4
    <3> QED
      BY <1>3, <2>2, <2>4, <3>1
  <2> QED
    BY <2>3, <2>4
<1>9. (w + k) - r = (to + k) - from /\ r <= w + k /\ w + k <= m /\ m - (w + k) = (m - w) - k
  BY <1>1
<1>10. Holds(e, c, from, to + k)
  BY <1>2, <1>6, <1>7, <1>8, <1>9 DEF Holds
<1>11. GetFreeSize(e) = m - (w + k)
  BY <1>2, <1>6 DEF GetFreeSize
<1>12. GetFreeSize(b) = m - w
  BY DEF GetFreeSize, m, w
<1> QED
  BY <1>9, <1>10, <1>11, <1>12 DEF e

\* Normalize moves the active bytes and frees the room in front of them.
LEMMA NormalizeHolds ==
  ASSUME NEW c \in Nat, NEW from \in Nat, NEW to \in Nat, NEW b, Holds(b, c, from, to)
  PROVE  /\ Holds(Normalize(b), c, from, to)
         /\ GetFreeSize(Normalize(b)) = GetBufferSize(b) - GetActiveSize(b)
         /\ GetBufferSize(Normalize(b)) = GetBufferSize(b)
         /\ GetActiveSize(Normalize(b)) = GetActiveSize(b)
<1> DEFINE r == b.rpos
           m == Len(b.data)
           a == b.wpos - b.rpos
           e == Normalize(b)
<1>1. /\ b.data \in Seq(Byte) /\ r \in Nat /\ m \in Nat /\ a \in Nat /\ r + a <= m
      /\ a = to - from
      /\ \A i \in 1..m : b.data[i] \in Byte
  BY LenProperties DEF Holds, Buffers
<1>2. /\ e = [data |-> [i \in 1..m |-> IF i <= a THEN b.data[r + i] ELSE b.data[i]],
              rpos |-> 0, wpos |-> a]
  BY DEF Normalize, GetActiveSize
<1>3. \A i \in 1..a : b.data[r + i] = <<c, from + i>>
  BY DEF Holds
<1>4. GetBufferSize(b) = m /\ GetActiveSize(b) = a
  BY DEF GetBufferSize, GetActiveSize
<1> HIDE DEF r, m, a, e
<1>5. e.data = [i \in 1..m |-> IF i <= a THEN b.data[r + i] ELSE b.data[i]]
      /\ e.rpos = 0 /\ e.wpos = a
  BY <1>2
<1>6. \A i \in 1..m : (IF i <= a THEN b.data[r + i] ELSE b.data[i]) \in Byte
  <2> SUFFICES ASSUME NEW i \in 1..m, i <= a PROVE r + i \in 1..m
    BY <1>1
  <2> QED
    BY <1>1
<1>7. e.data \in [1..m -> Byte]
  BY <1>5, <1>6
<1>8. e.data \in Seq(Byte) /\ Len(e.data) = m
  BY <1>1, <1>7, SeqOfBytes
<1>9. e \in Buffers
  BY <1>1, <1>2, <1>5, <1>8 DEF Buffers
<1>10. ASSUME NEW i \in 1..(a - 0) PROVE e.data[0 + i] = <<c, from + i>>
  <2>1. i \in 1..m /\ i \in 1..a /\ i <= a /\ 0 + i = i
    BY <1>1
  <2> QED
    BY <1>3, <1>5, <2>1
<1>11. 0 <= a /\ a <= m /\ a - 0 = a
  BY <1>1
<1>12. Holds(e, c, from, to)
  BY <1>1, <1>5, <1>8, <1>9, <1>10, <1>11 DEF Holds
<1>13. GetFreeSize(e) = m - a /\ GetBufferSize(e) = m /\ GetActiveSize(e) = a
  BY <1>5, <1>8, <1>11 DEF GetFreeSize, GetBufferSize, GetActiveSize
<1> QED
  BY <1>4, <1>12, <1>13 DEF e

\* Resizing upwards adds room at the end.
LEMMA ResizeHolds ==
  ASSUME NEW c \in Nat, NEW from \in Nat, NEW to \in Nat, NEW b, Holds(b, c, from, to),
         NEW size \in Nat, GetBufferSize(b) <= size
  PROVE  /\ Holds(Resize(b, size), c, from, to)
         /\ GetFreeSize(Resize(b, size)) = size - b.wpos
<1> DEFINE r == b.rpos
           w == b.wpos
           m == Len(b.data)
           e == Resize(b, size)
           d == [i \in 1..size |-> IF i <= m THEN b.data[i] ELSE Filler]
<1>1. /\ b \in Buffers /\ b.data \in Seq(Byte) /\ r \in Nat /\ w \in Nat /\ m \in Nat
      /\ r <= w /\ w <= m /\ w - r = to - from /\ m <= size
      /\ \A i \in 1..m : b.data[i] \in Byte
  BY LenProperties DEF Holds, Buffers, GetBufferSize
<1>2. e.data = d /\ e.rpos = r /\ e.wpos = w /\ (d \in Seq(Byte) => e \in Buffers)
  <2>1. e = [b EXCEPT !.data = d]
    BY <1>1 DEF Resize
  <2> HIDE DEF d, e
  <2>0. b \in Buffers
    BY <1>1
  <2> QED
    BY <2>0, <2>1 DEF Buffers
<1>3. \A i \in 1..(w - r) : b.data[r + i] = <<c, from + i>>
  BY DEF Holds
<1> HIDE DEF r, w, m, e
<1>4. Filler \in Byte
  BY DEF Filler, Byte
<1>5. \A i \in 1..size : (IF i <= m THEN b.data[i] ELSE Filler) \in Byte
  BY <1>1, <1>4
<1>6. d \in [1..size -> Byte]
  BY <1>5
<1>7. e.data \in Seq(Byte) /\ Len(e.data) = size
  BY <1>2, <1>6, SeqOfBytes
<1>8. e \in Buffers
  BY <1>2, <1>7
<1>9. ASSUME NEW i \in 1..(w - r) PROVE e.data[r + i] = <<c, from + i>>
  <2>1. r + i \in 1..size /\ r + i <= m
    BY <1>1
  <2> QED
    BY <1>2, <1>3, <2>1
<1>10. w <= size
  BY <1>1
<1>11. Holds(e, c, from, to)
  BY <1>1, <1>2, <1>7, <1>8, <1>9, <1>10 DEF Holds
<1>12. GetFreeSize(e) = size - w
  BY <1>2, <1>7 DEF GetFreeSize
<1> QED
  BY <1>11, <1>12 DEF e, w

\* EnsureFreeSpace makes the room it is asked for and keeps the active bytes.
LEMMA EnsureHolds ==
  ASSUME NEW c \in Nat, NEW from \in Nat, NEW to \in Nat, NEW b, Holds(b, c, from, to),
         NEW size \in Nat
  PROVE  /\ Holds(EnsureFreeSpace(b, size), c, from, to)
         /\ size <= GetFreeSize(EnsureFreeSpace(b, size))
<1> DEFINE m == GetBufferSize(b)
           a == GetActiveSize(b)
           half == m \div 2
           grow == IF size > half THEN size ELSE half
<1>1. m \in Nat /\ a \in Nat /\ a <= m /\ GetFreeSize(b) \in Nat
  BY LenProperties DEF Holds, Buffers, GetBufferSize, GetActiveSize, GetFreeSize
<1>2. half \in Int
  <2>1. m \in Int /\ 2 \in Nat \ {0}
    BY <1>1
  <2> QED
    BY <2>1, DivMod
<1> HIDE DEF m, a, half
<1>3. grow \in Nat /\ size <= grow /\ m + grow \in Nat /\ m <= m + grow
  BY <1>1, <1>2
<1> HIDE DEF grow
<1> DEFINE e == Normalize(b)
<1>4. /\ Holds(e, c, from, to) /\ GetFreeSize(e) = m - a /\ GetBufferSize(e) = m
      /\ GetActiveSize(e) = a
  BY NormalizeHolds DEF m, a
<1>5. e.wpos = a
  BY DEF Normalize, a
<1> HIDE DEF e
<1>6. CASE m - a < size
  <2>1. EnsureFreeSpace(b, size) = Resize(e, m + grow)
    BY <1>6 DEF EnsureFreeSpace, m, a, half, grow, e
  <2>2. /\ Holds(Resize(e, m + grow), c, from, to)
        /\ GetFreeSize(Resize(e, m + grow)) = (m + grow) - a
    <3>1. GetBufferSize(e) <= m + grow
      BY <1>3, <1>4
    <3> QED
      BY <1>3, <1>4, <1>5, <3>1, ResizeHolds
  <2> QED
    BY <1>1, <1>3, <2>1, <2>2
<1>7. CASE ~(m - a < size) /\ GetFreeSize(b) < size
  <2>1. EnsureFreeSpace(b, size) = e
    BY <1>7 DEF EnsureFreeSpace, m, a, e
  <2> QED
    BY <1>1, <1>4, <1>7, <2>1
<1>8. CASE ~(m - a < size) /\ ~(GetFreeSize(b) < size)
  <2>1. EnsureFreeSpace(b, size) = b
    BY <1>8 DEF EnsureFreeSpace, m, a
  <2> QED
    BY <1>1, <1>8, <2>1
<1> QED
  BY <1>6, <1>7, <1>8

\* Write appends, whatever the room there was.
LEMMA WriteHolds ==
  ASSUME NEW c \in Nat, NEW from \in Nat, NEW to \in Nat, NEW k \in Nat,
         NEW b, Holds(b, c, from, to), NEW bytes, Follow(bytes, c, to, k)
  PROVE  Holds(Write(b, bytes), c, from, to + k)
<1> DEFINE e == EnsureFreeSpace(b, k)
<1>1. Holds(e, c, from, to) /\ k <= GetFreeSize(e)
  BY EnsureHolds
<1>2. Write(b, bytes) = Store(e, bytes)
  BY DEF Write, Follow
<1> HIDE DEF e
<1> QED
  BY <1>1, <1>2, StoreHolds

\* Recv appends what readv has read, over the extra area or not.
LEMMA RecvHolds ==
  ASSUME NEW c \in Nat, NEW from \in Nat, NEW to \in Nat, NEW k \in Nat,
         NEW b, Holds(b, c, from, to), NEW bytes, Follow(bytes, c, to, k)
  PROVE  Holds(Recv(b, bytes), c, from, to + k)
<1> DEFINE free == GetFreeSize(b)
           front == SubSeq(bytes, 1, free)
           rest == SubSeq(bytes, free + 1, k)
<1>1. free \in Nat
  BY LenProperties DEF Holds, Buffers, GetFreeSize
<1>2. /\ bytes \in Seq(Byte) /\ Len(bytes) = k /\ \A i \in 1..k : bytes[i] = <<c, to + i>>
      /\ \A i \in 1..k : bytes[i] \in Byte
  BY LenProperties DEF Follow
<1> HIDE DEF free
<1>3. CASE k <= free
  <2>1. Recv(b, bytes) = Store(b, bytes)
    BY <1>2, <1>3 DEF Recv, free
  <2> QED
    BY <1>3, <2>1, StoreHolds DEF free
<1>4. CASE ~(k <= free)
  <2>1. Recv(b, bytes) = Write(Store(b, front), rest)
    BY <1>2, <1>4 DEF Recv, free
  <2>2. Follow(front, c, to, free)
    <3>1. \A i \in 1..free : bytes[i] \in Byte /\ bytes[i] = <<c, to + i>>
      BY <1>1, <1>2, <1>4
    <3>2. /\ front \in Seq(Byte)
          /\ Len(front) = IF 1 <= free THEN free - 1 + 1 ELSE 0
          /\ \A i \in 1..(free - 1 + 1) : front[i] = bytes[1 + i - 1]
      BY <1>1, <3>1, SubSeqProperties
    <3>3. Len(front) = free /\ \A i \in 1..free : front[i] = bytes[i]
      BY <1>1, <3>2
    <3> QED
      BY <3>1, <3>2, <3>3 DEF Follow
  <2>3. Follow(rest, c, to + free, k - free)
    <3>1. \A i \in (free + 1)..k : bytes[i] \in Byte /\ bytes[i] = <<c, to + i>>
      BY <1>1, <1>2, <1>4
    <3>2. free + 1 \in Int /\ k \in Int /\ free + 1 <= k /\ k - (free + 1) + 1 = k - free
      BY <1>1, <1>4
    <3>3. /\ rest \in Seq(Byte)
          /\ Len(rest) = IF free + 1 <= k THEN k - (free + 1) + 1 ELSE 0
          /\ \A i \in 1..(k - (free + 1) + 1) : rest[i] = bytes[(free + 1) + i - 1]
      BY <3>1, <3>2, SubSeqProperties
    <3>4. ASSUME NEW i \in 1..(k - free) PROVE rest[i] = <<c, (to + free) + i>>
      <4>1. /\ (free + 1) + i - 1 \in (free + 1)..k
            /\ to + ((free + 1) + i - 1) = (to + free) + i
        BY <1>1, <1>4
      <4> QED
        BY <3>1, <3>2, <3>3, <4>1
    <3> QED
      BY <3>2, <3>3, <3>4 DEF Follow
  <2> HIDE DEF front, rest
  <2>4. free <= GetFreeSize(b)
    BY <1>1 DEF free
  <2>5. Holds(Store(b, front), c, from, to + free)
    BY <1>1, <2>2, <2>4, StoreHolds
  <2>6. to + free \in Nat /\ k - free \in Nat /\ (to + free) + (k - free) = to + k
    BY <1>1, <1>4
  <2>7. Holds(Write(Store(b, front), rest), c, from, (to + free) + (k - free))
    BY <2>3, <2>5, <2>6, WriteHolds
  <2> QED
    BY <2>1, <2>6, <2>7
<1> QED
  BY <1>3, <1>4

\* Taking n bytes out of the front leaves the others.
LEMMA ReadHolds ==
  ASSUME NEW c \in Nat, NEW from \in Nat, NEW to \in Nat, NEW k \in Nat,
         NEW b, Holds(b, c, from, to), k <= GetActiveSize(b)
  PROVE  Holds(ReadCompleted(b, k), c, from + k, to)
<1> DEFINE r == b.rpos
           w == b.wpos
           e == ReadCompleted(b, k)
<1>1. /\ b \in Buffers /\ b.data \in Seq(Byte) /\ r \in Nat /\ w \in Nat
      /\ r <= w /\ w <= Len(b.data) /\ w - r = to - from /\ k <= w - r
      /\ \A i \in 1..(w - r) : b.data[r + i] = <<c, from + i>>
  BY DEF Holds, Buffers, GetActiveSize
<1>2. e.data = b.data /\ e.rpos = r + k /\ e.wpos = w /\ e \in Buffers
  <2>1. e = [b EXCEPT !.rpos = r + k] /\ r + k \in Nat
    BY <1>1 DEF ReadCompleted
  <2> HIDE DEF e
  <2>0. b \in Buffers
    BY <1>1
  <2> QED
    BY <2>0, <2>1 DEF Buffers
<1> HIDE DEF r, w, e
<1>3. r + k <= w /\ w - (r + k) = to - (from + k)
  BY <1>1
<1>4. ASSUME NEW i \in 1..(w - (r + k)) PROVE b.data[(r + k) + i] = <<c, (from + k) + i>>
  <2>1. k + i \in 1..(w - r) /\ (r + k) + i = r + (k + i) /\ (from + k) + i = from + (k + i)
    BY <1>1
  <2> QED
    BY <1>1, <2>1
<1>5. Holds(e, c, from + k, to)
  BY <1>1, <1>2, <1>3, <1>4 DEF Holds
<1> QED
  BY <1>5 DEF e

\* GetAllData returns the bytes the buffer holds.
LEMMA HoldsData ==
  ASSUME NEW c \in Nat, NEW from \in Nat, NEW to \in Nat, NEW b, Holds(b, c, from, to)
  PROVE  GetAllData(b) = Bytes(c, from + 1, to)
<1> DEFINE r == b.rpos
           w == b.wpos
           s == GetAllData(b)
           u == Bytes(c, from + 1, to)
<1>1. /\ b.data \in Seq(Byte) /\ r \in Nat /\ w \in Nat
      /\ r <= w /\ w <= Len(b.data) /\ w - r = to - from
      /\ \A i \in 1..(w - r) : b.data[r + i] = <<c, from + i>>
      /\ \A i \in 1..Len(b.data) : b.data[i] \in Byte
      /\ Len(b.data) \in Nat
  BY LenProperties DEF Holds, Buffers
<1>2. s = SubSeq(b.data, r + 1, w)
  BY DEF GetAllData
<1> HIDE DEF r, w, s, u
<1>3. r + 1 \in Int /\ w \in Int /\ \A i \in (r + 1)..w : b.data[i] \in Byte
  BY <1>1
<1>4. /\ s \in Seq(Byte) /\ Len(s) = IF r + 1 <= w THEN w - (r + 1) + 1 ELSE 0
      /\ \A i \in 1..(w - (r + 1) + 1) : s[i] = b.data[(r + 1) + i - 1]
  BY <1>2, <1>3, SubSeqProperties
<1>5. w - (r + 1) + 1 = w - r /\ (~(r + 1 <= w) => w - r = 0)
  BY <1>1
<1>6. Len(s) = w - r
  BY <1>4, <1>5
<1>7. ASSUME NEW i \in 1..(w - r) PROVE s[i] = <<c, from + i>>
  <2>1. (r + 1) + i - 1 = r + i
    BY <1>1
  <2> QED
    BY <1>1, <1>4, <1>5, <2>1
<1>8. /\ u \in Seq(Byte) /\ Len(u) = w - r
      /\ \A i \in 1..(w - r) : u[i] = <<c, from + i>>
  <2>1. /\ from + 1 \in Nat /\ from + 1 <= to + 1 /\ from + 1 >= 1 /\ to + 1 - (from + 1) = w - r
        /\ \A i \in 1..(w - r) : (from + 1) + i - 1 = from + i
    BY <1>1
  <2>2. /\ u \in Seq(Byte) /\ Len(u) = to + 1 - (from + 1)
        /\ \A i \in 1..(to + 1 - (from + 1)) : u[i] = <<c, (from + 1) + i - 1>>
    BY <2>1, BytesType DEF u
  <2> QED
    BY <2>1, <2>2
<1>9. s = u
  BY <1>4, <1>6, <1>7, <1>8, SeqEqual
<1> QED
  BY <1>9 DEF s, u

------------------------------------------------------------------------------
(* The input side and the loop.  The handler that runs belongs to a        *)
(* connection that exists, and a read to one that is open; a batch asks to *)
(* accept only what waits to be accepted.                                  *)

InType ==
    /\ received \in [Conns -> Nat] /\ arrived \in [Conns -> Nat]
    /\ consumed \in [Conns -> Nat] /\ input \in [Conns -> Buffers]

InInv == InType /\ \A c \in Conns : Holds(input[c], c, consumed[c], received[c])

Handling == {"read", "callback", "write", "close"}

LoopInv ==
    /\ connecting \in Nat /\ accepted + connecting <= MaxConns
    /\ \A e \in batch : e.ptr \in 0..accepted
    /\ Accept \in batch => connecting > 0
    /\ pc \in Handling => cur.ptr \in 1..accepted
    /\ pc = "read" => ~closed[cur.ptr]

ServerInv == OutInv /\ InInv /\ LoopInv

\* A new server has no connections.
LEMMA ServerInit == Init => ServerInv
<1> SUFFICES ASSUME Init PROVE ServerInv
  OBVIOUS
<1>1. LoopInv
  BY Parameters DEF Init, LoopInv, Handling
<1>2. ASSUME NEW c \in Conns PROVE Holds(input[c], c, 0, 0) /\ input[c] \in Buffers
  <2> DEFINE b == MessageBuffer(BufferSize)
  <2>1. input[c] = b
    BY DEF Init
  <2>2. Filler \in Byte /\ BufferSize \in Nat
    BY Parameters DEF Filler, Byte
  <2>3. b.data = [i \in 1..BufferSize |-> Filler] /\ b.rpos = 0 /\ b.wpos = 0
    BY DEF MessageBuffer
  <2>4. b.data \in [1..BufferSize -> Byte]
    BY <2>2, <2>3
  <2>5. b.data \in Seq(Byte) /\ Len(b.data) = BufferSize
    BY <2>2, <2>4, SeqOfBytes
  <2>6. b = [data |-> b.data, rpos |-> 0, wpos |-> 0]
    BY DEF MessageBuffer
  <2> HIDE DEF b
  <2>7. b \in Buffers
    BY <2>5, <2>6 DEF Buffers
  <2>8. 0 <= BufferSize /\ 0 - 0 = 0 /\ 1..0 = {}
    BY <2>2
  <2>9. /\ b.rpos <= b.wpos /\ b.wpos <= Len(b.data) /\ b.wpos - b.rpos = 0 - 0
        /\ \A i \in 1..(b.wpos - b.rpos) : FALSE
    <3>1. b.rpos = 0 /\ b.wpos = 0 /\ Len(b.data) = BufferSize
      BY <2>3, <2>5
    <3> QED
      BY <2>8, <3>1
  <2>10. Holds(b, c, 0, 0)
    BY <2>7, <2>9 DEF Holds
  <2> QED
    BY <2>1, <2>7, <2>10
<1>3. InInv
  <2>1. InType
    BY <1>2 DEF Init, InType
  <2> QED
    BY <1>2, <2>1 DEF Init, InInv
<1> QED
  BY <1>1, <1>3, OutInit DEF ServerInv

\* HandleIO goes through its parts in order and reads at most once.
LEMMA AfterPart ==
  ASSUME NEW e
  PROVE  /\ After("io", e) \in {"read", "write", "close", "events"}
         /\ After("read", e) \in {"write", "close", "events"}
         /\ After("write", e) \in {"close", "events"}
         /\ After("close", e) = "events"
  BY DEF After

\* What a step does to the input of a connection that stays as it is.
LEMMA InSame ==
  ASSUME InInv, UNCHANGED inVars, arrived' \in [Conns -> Nat]
  PROVE  InInv'
  BY DEF InInv, InType, inVars

\* Recv reads the stream of the connection whose descriptor it is.
LEMMA InRecv ==
  ASSUME InInv, NEW c \in Conns, NEW k \in Nat,
         input' = [input EXCEPT ![c] = Recv(@, Bytes(c, received[c] + 1, received[c] + k))],
         received' = [received EXCEPT ![c] = @ + k],
         UNCHANGED <<consumed, arrived>>
  PROVE  InInv'
<1> DEFINE new == Recv(input[c], Bytes(c, received[c] + 1, received[c] + k))
<1>1. /\ c \in Nat /\ consumed[c] \in Nat /\ received[c] \in Nat
      /\ Holds(input[c], c, consumed[c], received[c])
  BY Parameters DEF InInv, InType
<1>2. Follow(Bytes(c, received[c] + 1, received[c] + k), c, received[c], k)
  <2> DEFINE a == received[c]
             s == Bytes(c, a + 1, a + k)
  <2>1. /\ a \in Nat /\ a + 1 \in Nat /\ a + k \in Nat /\ a + 1 <= (a + k) + 1 /\ a + 1 >= 1
        /\ (a + k) + 1 - (a + 1) = k /\ \A i \in 1..k : (a + 1) + i - 1 = a + i
    BY <1>1
  <2> HIDE DEF a
  <2>2. /\ s \in Seq(Byte) /\ Len(s) = (a + k) + 1 - (a + 1)
        /\ \A i \in 1..((a + k) + 1 - (a + 1)) : s[i] = <<c, (a + 1) + i - 1>>
    BY <1>1, <2>1, BytesType, ZenonT(60)
  <2> HIDE DEF s
  <2>3. Follow(s, c, a, k)
    BY <2>1, <2>2 DEF Follow
  <2> QED
    BY <2>3 DEF a, s
<1>3. Holds(new, c, consumed[c], received[c] + k)
  BY <1>1, <1>2, RecvHolds
<1>4. new \in Buffers
  BY <1>3 DEF Holds
<1>5. /\ input' = [input EXCEPT ![c] = new] /\ consumed' = consumed /\ arrived' = arrived
  OBVIOUS
<1> HIDE DEF new
<1>6. /\ input'[c] = new /\ received'[c] = received[c] + k /\ InType'
      /\ \A d \in Conns \ {c} : input'[d] = input[d] /\ received'[d] = received[d]
  BY <1>1, <1>4, <1>5 DEF InInv, InType
<1> QED
  BY <1>3, <1>5, <1>6 DEF InInv

\* What the callback takes is taken from the front.
LEMMA InTake ==
  ASSUME InInv, NEW c \in Conns, NEW k \in Nat, k <= GetActiveSize(input[c]),
         Take(c, k), UNCHANGED <<received, arrived>>
  PROVE  InInv'
<1> DEFINE new == ReadCompleted(input[c], k)
<1>1. /\ c \in Nat /\ consumed[c] \in Nat /\ received[c] \in Nat
      /\ Holds(input[c], c, consumed[c], received[c])
  BY Parameters DEF InInv, InType
<1>2. Holds(new, c, consumed[c] + k, received[c])
  BY <1>1, ReadHolds
<1>3. new \in Buffers
  BY <1>2 DEF Holds
<1>4. /\ input' = [input EXCEPT ![c] = new] /\ consumed' = [consumed EXCEPT ![c] = @ + k]
      /\ received' = received /\ arrived' = arrived
  BY DEF Take
<1> HIDE DEF new
<1>5. /\ input'[c] = new /\ consumed'[c] = consumed[c] + k /\ InType'
      /\ \A d \in Conns \ {c} : input'[d] = input[d] /\ consumed'[d] = consumed[d]
  BY <1>1, <1>3, <1>4 DEF InInv, InType
<1> QED
  BY <1>2, <1>4, <1>5 DEF InInv

\* The callback takes a line or everything.
LEMMA InCallback ==
  ASSUME InInv, NEW c \in Conns, UNCHANGED <<received, arrived>>,
         GetDataUntilCrLf(c) \/ Take(c, GetActiveSize(input[c]))
  PROVE  InInv'
<1>1. /\ GetActiveSize(input[c]) \in Nat
  BY DEF InInv, InType, Holds, Buffers, GetActiveSize
<1>2. CASE Take(c, GetActiveSize(input[c]))
  BY <1>1, <1>2, InTake
<1>3. CASE GetDataUntilCrLf(c)
  <2> DEFINE Is(char) == {<<c, k>> : k \in {m \in DOMAIN Input : Input[m] = char}}
             lines == LinesEnding(input[c], Is("cr"), Is("lf"))
  <2>1. \A k \in lines : k \in Nat /\ 2 + k \in Nat /\ 2 + k <= GetActiveSize(input[c])
    BY <1>1 DEF LinesEnding
  <2>2. CASE lines = {}
    <3>1. input' = input /\ consumed' = consumed
      BY <1>3, <2>2 DEF GetDataUntilCrLf
    <3> QED
      BY <3>1, InSame DEF inVars, InInv, InType
  <2>3. CASE lines # {}
    <3>1. PICK k \in lines : Take(c, 2 + k)
      <4> DEFINE first == CHOOSE k \in lines : \A m \in lines : k <= m
      <4>1. Take(c, 2 + first)
        BY <1>3, <2>3 DEF GetDataUntilCrLf
      <4>2. \E k \in lines : \A m \in lines : k <= m
        <5>1. lines \subseteq Nat
          BY <2>1
        <5> HIDE DEF lines
        <5> QED
          BY <2>3, <5>1, LeastElement
      <4>3. first \in lines
        BY <4>2
      <4> QED
        BY <4>1, <4>3
    <3> QED
      BY <2>1, <3>1, InTake
  <2> QED
    BY <2>2, <2>3
<1> QED
  BY <1>2, <1>3

\* A step that leaves the output of all connections alone.
LEMMA OutSame ==
  ASSUME OutInv, UNCHANGED outVars, UNCHANGED acceptVars
  PROVE  OutInv'
<1>1. UNCHANGED <<sock, interest, room, delivered, closed, output, sent, accepted, fd>>
  BY DEF outVars, acceptVars
<1> QED
  BY <1>1 DEF OutInv, OutType, SockInv, OutputWatched, SentInOrder

\* A step that leaves the connections and their streams alone.
LEMMA QuietStep ==
  ASSUME ServerInv, UNCHANGED <<outVars, acceptVars, inVars>>, arrived' = arrived, LoopInv'
  PROVE  ServerInv'
<1>1. OutInv'
  BY OutSame DEF ServerInv
<1>2. InInv'
  BY InSame DEF ServerInv, InInv, InType
<1> QED
  BY <1>1, <1>2 DEF ServerInv

\* The parts of the loop between handlers, the clock and a new peer.
LEMMA QuietActions ==
  ASSUME ServerInv, Poll \/ PollInterrupted \/ EventsHandled \/ Tick \/ Connect
  PROVE  ServerInv'
<1>1. UNCHANGED <<outVars, acceptVars, inVars>> /\ arrived' = arrived
  BY DEF Poll, PollInterrupted, EventsHandled, Tick, Connect, peerVars
<1>2. accepted' = accepted /\ closed' = closed /\ batch' = batch /\ cur' = cur
  BY <1>1
     DEF acceptVars, outVars, Poll, PollInterrupted, EventsHandled, Tick, Connect,
         loopVars
<1>3. connecting' \in Nat /\ accepted + connecting' <= MaxConns
      /\ (connecting > 0 => connecting' > 0)
  <2>1. connecting \in Nat /\ accepted \in Nat /\ MaxConns \in Nat
    BY Parameters DEF ServerInv, LoopInv, OutInv, OutType
  <2>2. \/ connecting' = connecting
        \/ connecting' = connecting + 1 /\ accepted + connecting < MaxConns
    BY DEF Poll, PollInterrupted, EventsHandled, Tick, Connect, peerVars
  <2> QED
    BY <2>1, <2>2 DEF ServerInv, LoopInv
<1>4. pc' = pc \/ pc' \in {"wait", "polling", "timers"}
  BY DEF Poll, PollInterrupted, EventsHandled, Tick, Connect, loopVars
<1>5. LoopInv'
  BY <1>2, <1>3, <1>4 DEF ServerInv, LoopInv, Handling
<1> QED
  BY <1>1, <1>5, QuietStep

\* epoll_wait reports connections that are open.
LEMMA PollReturnsStep ==
  ASSUME ServerInv, PollReturns
  PROVE  ServerInv'
<1>1. /\ UNCHANGED <<outVars, acceptVars, inVars>> /\ arrived' = arrived
      /\ connecting' = connecting /\ accepted' = accepted /\ pc' = "events" /\ batch' = Ready
  BY DEF PollReturns, peerVars, acceptVars
<1>2. ASSUME NEW f \in Fds, interest[f].ptr # None
      PROVE  Events(f).ptr \in 0..accepted /\ Events(f).ptr # None
  <2>1. Events(f).ptr = interest[f].ptr /\ interest[f].ptr = sock[f]
    BY DEF Events, ServerInv, OutInv, OutputWatched
  <2>2. sock[f] \in 1..accepted /\ accepted \in Nat
    BY <1>2, <2>1 DEF ServerInv, OutInv, SockInv, OutType
  <2> QED
    BY <1>2, <2>1, <2>2
<1>3. Accept.ptr = None /\ None \in 0..accepted
  BY DEF Accept, None, ServerInv, OutInv, OutType
<1>4. \A e \in Ready : e.ptr \in 0..accepted
  BY <1>2, <1>3 DEF Ready
<1>5. Accept \in Ready => connecting > 0
  <2>1. \A f \in Fds : interest[f].ptr # None => Events(f) # Accept
    BY <1>2, <1>3
  <2> QED
    BY <2>1 DEF Ready
<1>6. LoopInv'
  BY <1>1, <1>4, <1>5 DEF ServerInv, LoopInv, Handling
<1> QED
  BY <1>1, <1>6, QuietStep

\* HandleIO takes up a connection that is still open.
LEMMA HandleIOStep ==
  ASSUME ServerInv, NEW e \in batch, HandleIO(e)
  PROVE  ServerInv'
<1>1. /\ UNCHANGED <<outVars, acceptVars, inVars>> /\ arrived' = arrived
      /\ connecting' = connecting /\ accepted' = accepted /\ closed' = closed
      /\ batch' = batch \ {e} /\ e.ptr # None
      /\ cur' = IF closed[e.ptr] THEN None ELSE e
      /\ pc' = IF closed[e.ptr] THEN "events" ELSE After("io", e)
  BY DEF HandleIO, peerVars, acceptVars, outVars
<1>2. e.ptr \in 1..accepted
  <2>1. e.ptr \in 0..accepted /\ accepted \in Nat
    BY DEF ServerInv, LoopInv, OutInv, OutType
  <2> QED
    BY <1>1, <2>1 DEF None
<1>3. CASE closed[e.ptr]
  BY <1>1, <1>3, QuietStep DEF ServerInv, LoopInv, Handling
<1>4. CASE ~closed[e.ptr]
  BY <1>1, <1>2, <1>4, QuietStep DEF ServerInv, LoopInv
<1> QED
  BY <1>3, <1>4

\* accept4 gives the new connection the lowest free descriptor.
LEMMA HandleAcceptStep ==
  ASSUME ServerInv, HandleAccept
  PROVE  ServerInv'
<1>1. /\ arrived' = arrived /\ UNCHANGED inVars /\ pc = "events" /\ pc' = "events"
      /\ Accept \in batch /\ batch' = batch \ {Accept} /\ closed' = closed
      /\ UNCHANGED <<room, delivered, closed, output, sent>>
  BY DEF HandleAccept
<1>2. /\ connecting \in Nat /\ connecting > 0 /\ accepted \in Nat /\ MaxConns \in Nat
      /\ accepted + connecting <= MaxConns
  BY <1>1, Parameters DEF ServerInv, LoopInv, OutInv, OutType
<1>3. CASE FreeFds = {}
  <2>1. UNCHANGED <<connecting, acceptVars, sock, interest>>
    BY <1>3 DEF HandleAccept
  <2>2. LoopInv'
    BY <1>1, <2>1 DEF ServerInv, LoopInv, Handling, acceptVars
  <2> QED
    BY <1>1, <2>1, <2>2, QuietStep DEF outVars
<1>4. CASE FreeFds # {}
  <2> DEFINE f == CHOOSE g \in FreeFds : \A h \in FreeFds : g <= h
  <2>1. /\ connecting' = connecting - 1
        /\ accepted' = accepted + 1 /\ fd' = [fd EXCEPT ![accepted + 1] = f]
        /\ sock' = [sock EXCEPT ![f] = accepted + 1]
        /\ interest' = [interest EXCEPT ![f] = [ptr |-> accepted + 1, out |-> FALSE]]
    BY <1>4 DEF HandleAccept
  <2>2. f \in FreeFds
    <3>1. FreeFds \subseteq Nat
      BY Parameters DEF FreeFds, Fds
    <3>2. \E g \in FreeFds : \A h \in FreeFds : g <= h
      BY <1>4, <3>1, LeastElement
    <3> QED
      BY <3>2
  <2> HIDE DEF f
  <2>3. accepted < MaxConns /\ connecting' \in Nat /\ accepted' + connecting' <= MaxConns
    BY <1>2, <2>1
  <2>4. OutInv'
    BY <1>1, <2>1, <2>2, <2>3, OutAccept DEF ServerInv
  <2>5. InInv'
    BY <1>1, InSame DEF ServerInv, InInv, InType
  <2>6. LoopInv'
    <3>1. \A e \in batch' : e.ptr \in 0..accepted'
      BY <1>1, <1>2, <2>1 DEF ServerInv, LoopInv
    <3> QED
      BY <1>1, <2>3, <3>1 DEF LoopInv, Handling
  <2> QED
    BY <2>4, <2>5, <2>6 DEF ServerInv
<1> QED
  BY <1>3, <1>4

\* The facts a handler of a connection starts from.
LEMMA HandlerFacts ==
  ASSUME ServerInv, pc \in Handling
  PROVE  cur.ptr \in 1..accepted /\ cur.ptr \in Conns
  BY AcceptedConns DEF ServerInv, LoopInv, OutInv

\* A handler that goes on to a later part of HandleIO keeps what the loop
\* relies on.
LEMMA LoopProceeds ==
  ASSUME ServerInv, pc \in Handling, NEW done \in {"read", "write", "close"}, Proceed(done),
         connecting' = connecting, accepted' = accepted, batch' = batch
  PROVE  LoopInv'
<1>1. pc' \in {"write", "close", "events"} /\ (pc' # "events" => cur' = cur)
  BY AfterPart DEF Proceed
<1> QED
  BY <1>1, HandlerFacts DEF ServerInv, LoopInv, Handling

\* Recv and its outcomes.
LEMMA HandleReadStep ==
  ASSUME ServerInv, HandleRead
  PROVE  ServerInv'
<1> DEFINE c == cur.ptr
           s == sock[fd[c]]
           most == GetFreeSize(input[c]) + ExtraSize
           k == IF Unread(s) < most THEN Unread(s) ELSE most
<1>1. pc = "read" /\ pc \in Handling
  BY DEF HandleRead, Handling
<1>2. c \in 1..accepted /\ c \in Conns /\ ~closed[c] /\ s = c
  BY <1>1, HandlerFacts DEF ServerInv, LoopInv, OutInv, SockInv
<1>3. /\ connecting' = connecting /\ accepted' = accepted /\ batch' = batch
      /\ arrived' = arrived /\ UNCHANGED acceptVars
  BY DEF HandleRead, peerVars, acceptVars
<1>4. CASE /\ k > 0
           /\ input' = [input EXCEPT ![c] = Recv(@, Bytes(s, received[s] + 1, received[s] + k))]
           /\ received' = [received EXCEPT ![s] = @ + k]
           /\ pc' = "callback"
           /\ UNCHANGED <<outVars, consumed, cur>>
  <2>1. k \in Nat
    <3>1. arrived[c] \in Nat /\ received[c] \in Nat /\ ExtraSize \in Nat
      BY <1>2, Parameters DEF ServerInv, InInv, InType
    <3>2. Unread(s) \in Int
      BY <1>2, <3>1 DEF Unread
    <3>3. GetFreeSize(input[c]) \in Nat
      BY <1>2, LenProperties DEF ServerInv, InInv, Holds, Buffers, GetFreeSize
    <3>4. most \in Int
      BY <3>1, <3>3
    <3> HIDE DEF most
    <3> QED
      BY <1>4, <3>2, <3>4
  <2> HIDE DEF k
  <2>2. InInv'
    BY <1>2, <1>3, <1>4, <2>1, InRecv DEF ServerInv
  <2>3. OutInv'
    BY <1>3, <1>4, OutSame DEF ServerInv
  <2>4. LoopInv'
    BY <1>2, <1>3, <1>4 DEF ServerInv, LoopInv
  <2> QED
    BY <2>2, <2>3, <2>4 DEF ServerInv
<1>5. CASE /\ Close(c) /\ Proceed("read")
           /\ UNCHANGED <<room, delivered, output, sent, inVars>>
  <2>1. OutInv'
    BY <1>2, <1>3, <1>5, OutClose DEF ServerInv
  <2>2. InInv'
    BY <1>3, <1>5, InSame DEF ServerInv, InInv, InType
  <2>3. LoopInv'
    BY <1>1, <1>3, <1>5, LoopProceeds
  <2> QED
    BY <2>1, <2>2, <2>3 DEF ServerInv
<1>6. CASE pc' = "ended" /\ UNCHANGED <<outVars, inVars, cur>>
  <2>1. LoopInv'
    BY <1>3, <1>6 DEF ServerInv, LoopInv, Handling
  <2> QED
    BY <1>3, <1>6, <2>1, QuietStep
<1> QED
  BY <1>4, <1>5, <1>6 DEF HandleRead

\* The read callback.
LEMMA ReadCallbackStep ==
  ASSUME ServerInv, ReadCallback
  PROVE  ServerInv'
<1>1. pc \in Handling
  BY DEF ReadCallback, Handling
<1>2. /\ connecting' = connecting /\ accepted' = accepted /\ batch' = batch
      /\ arrived' = arrived /\ received' = received /\ UNCHANGED acceptVars
      /\ Proceed("read") /\ MaySend
      /\ GetDataUntilCrLf(cur.ptr) \/ Take(cur.ptr, GetActiveSize(input[cur.ptr]))
  BY DEF ReadCallback, peerVars, acceptVars
<1>3. OutInv'
  BY <1>2, OutMaySend DEF ServerInv
<1>4. InInv'
  BY <1>1, <1>2, HandlerFacts, InCallback DEF ServerInv
<1>5. LoopInv'
  BY <1>1, <1>2, LoopProceeds
<1> QED
  BY <1>3, <1>4, <1>5 DEF ServerInv

\* HandleWrite, for an open connection or one the read has closed.
LEMMA HandleWriteStep ==
  ASSUME ServerInv, HandleWrite
  PROVE  ServerInv'
<1> DEFINE c == cur.ptr
<1>1. pc \in Handling
  BY DEF HandleWrite, Handling
<1>2. /\ connecting' = connecting /\ accepted' = accepted /\ batch' = batch
      /\ arrived' = arrived /\ UNCHANGED inVars /\ UNCHANGED acceptVars /\ Proceed("write")
  BY DEF HandleWrite, peerVars, acceptVars
<1>3. c \in 1..accepted
  BY <1>1, HandlerFacts
<1>4. OutInv'
  <2>1. CASE closed[c] /\ UNCHANGED <<outVars>>
    BY <1>2, <2>1, OutSame DEF ServerInv
  <2>2. CASE ~closed[c] /\ Close(c) /\ UNCHANGED <<room, delivered, output, sent>>
    BY <1>2, <1>3, <2>2, OutClose DEF ServerInv
  <2>3. CASE /\ ~closed[c]
             /\ \E k \in 0..Len(output[c]) :
                  LET left == SubSeq(output[c], k + 1, Len(output[c]))
                  IN  /\ Transmit(c, output[c], left)
                      /\ output' = [output EXCEPT ![c] = left]
                      /\ IF left = <<>> THEN WatchWrite(c, FALSE) ELSE UNCHANGED interest
             /\ UNCHANGED <<closed, sock, sent>>
    BY <1>2, <1>3, <2>3, OutWrite DEF ServerInv
  <2> QED
    BY <2>1, <2>2, <2>3 DEF HandleWrite
<1>5. InInv'
  BY <1>2, InSame DEF ServerInv, InInv, InType
<1>6. LoopInv'
  BY <1>1, <1>2, LoopProceeds
<1> QED
  BY <1>4, <1>5, <1>6 DEF ServerInv

\* The end of HandleIO.
LEMMA HandleHangupStep ==
  ASSUME ServerInv, HandleHangup
  PROVE  ServerInv'
<1>1. pc \in Handling
  BY DEF HandleHangup, Handling
<1>2. /\ connecting' = connecting /\ accepted' = accepted /\ batch' = batch
      /\ arrived' = arrived /\ UNCHANGED inVars /\ UNCHANGED acceptVars /\ Proceed("close")
      /\ Close(cur.ptr) /\ UNCHANGED <<room, delivered, output, sent>>
  BY DEF HandleHangup, peerVars, acceptVars
<1>3. OutInv'
  BY <1>1, <1>2, HandlerFacts, OutClose DEF ServerInv
<1>4. InInv'
  BY <1>2, InSame DEF ServerInv, InInv, InType
<1>5. LoopInv'
  BY <1>1, <1>2, LoopProceeds
<1> QED
  BY <1>3, <1>4, <1>5 DEF ServerInv

\* A timer's callback may send.
LEMMA HandleTimeoutStep ==
  ASSUME ServerInv, HandleTimeout
  PROVE  ServerInv'
<1>1. /\ connecting' = connecting /\ accepted' = accepted /\ batch' = batch /\ cur' = cur
      /\ arrived' = arrived /\ UNCHANGED inVars /\ UNCHANGED acceptVars
      /\ pc = "timers" /\ pc' \in {"timers", "wait"}
      /\ MaySend \/ UNCHANGED outVars
  BY DEF HandleTimeout, peerVars, acceptVars
<1>2. OutInv'
  BY <1>1, OutMaySend DEF ServerInv, MaySend
<1>3. InInv'
  BY <1>1, InSame DEF ServerInv, InInv, InType
<1>4. LoopInv'
  BY <1>1 DEF ServerInv, LoopInv, Handling
<1> QED
  BY <1>2, <1>3, <1>4 DEF ServerInv

\* What the peers do changes what may be read and written, nothing else.
LEMMA PeerStepKeeps ==
  ASSUME ServerInv, NEW c \in 1..accepted,
         \/ PeerSends(c) \/ PeerReads(c) \/ \E how \in {"shut", "reset"} : PeerEnds(c, how)
  PROVE  ServerInv'
<1>1. PeerStep(c)
  BY DEF PeerSends, PeerReads, PeerEnds
<1>2. /\ UNCHANGED <<connecting, sock, interest, delivered, closed, output, sent>>
      /\ UNCHANGED inVars /\ UNCHANGED acceptVars /\ UNCHANGED loopVars
  BY <1>1 DEF PeerStep
<1>3. room' \in [Conns -> Nat] /\ arrived' \in [Conns -> Nat]
  <2>1. room \in [Conns -> Nat] /\ arrived \in [Conns -> Nat]
    BY DEF ServerInv, OutInv, OutType, InInv, InType
  <2>2. \A a \in Nat, b \in Nat : \A x \in (a + 1)..b : x \in Nat
    OBVIOUS
  <2>3. arrived[c] \in Nat /\ Len(Input) \in Nat
    BY <2>1, AcceptedConns, NetServerAssumption, LenProperties DEF ServerInv, OutInv
  <2>4. CASE PeerSends(c)
    BY <2>1, <2>2, <2>3, <2>4 DEF PeerSends
  <2>5. CASE PeerReads(c)
    BY <2>1, <2>5, Parameters DEF PeerReads
  <2>6. CASE \E how \in {"shut", "reset"} : PeerEnds(c, how)
    BY <2>1, <2>6 DEF PeerEnds
  <2> QED
    BY <2>4, <2>5, <2>6
<1>4. OutInv'
  BY <1>2, <1>3
     DEF ServerInv, OutInv, OutType, SockInv, OutputWatched, SentInOrder,
         acceptVars
<1>5. InInv'
  BY <1>2, <1>3, InSame DEF ServerInv
<1>6. LoopInv'
  BY <1>2 DEF ServerInv, LoopInv, Handling, acceptVars, loopVars
<1> QED
  BY <1>4, <1>5, <1>6 DEF ServerInv

\* Every step of the server and of its environment keeps the invariant.
LEMMA ServerNext == ServerInv /\ [Next]_vars => ServerInv'
<1> SUFFICES ASSUME ServerInv, [Next]_vars PROVE ServerInv'
  OBVIOUS
<1>1. CASE Loop
  BY <1>1, QuietActions, PollReturnsStep, HandleAcceptStep, HandleIOStep, HandleReadStep,
     ReadCallbackStep, HandleWriteStep, HandleHangupStep, HandleTimeoutStep DEF Loop
<1>2. CASE PollInterrupted
  BY <1>2, QuietActions
<1>3. CASE Environment
  BY <1>3, QuietActions, PeerStepKeeps DEF Environment
<1>4. CASE UNCHANGED vars
  <2>1. LoopInv'
    BY <1>4
       DEF vars, ServerInv, LoopInv, Handling, peerVars, outVars, acceptVars,
           loopVars
  <2> QED
    BY <1>4, <2>1, QuietStep DEF vars, peerVars
<1> QED
  BY <1>1, <1>2, <1>3, <1>4 DEF Next

\* The invariant the theorems below follow from.
THEOREM ServerInvariant == Spec => []ServerInv
  BY ServerInit, ServerNext, PTL DEF Spec

\* EPOLLOUT is on exactly while something waits to be sent, and no descriptor
\* calls the handler of a connection it no longer belongs to, although
\* descriptors are reused and callbacks send on any connection
\* (TcpConnection.cc:53 and 95).
THEOREM OutputIsWatched == Spec => []OutputWatched
<1>1. ServerInv => OutputWatched
  BY DEF ServerInv, OutInv
<1> QED
  BY <1>1, ServerInvariant, PTL

\* Every peer gets the bytes sent on its connection, each once and in order,
\* through direct sends, buffered sends, partial writes and closes.
THEOREM BytesAreSentInOrder == Spec => []SentInOrder
<1>1. ServerInv => SentInOrder
  BY DEF ServerInv, OutInv
<1> QED
  BY <1>1, ServerInvariant, PTL

\* The application gets every byte of a peer once and in order, over the extra
\* area and through every move and resize of the buffer.
THEOREM BytesAreReadInOrder == Spec => []InputInOrder
<1>1. ServerInv => InputInOrder
  <2> SUFFICES ASSUME ServerInv, NEW c \in Conns
               PROVE  GetAllData(input[c]) = Bytes(c, consumed[c] + 1, received[c])
    BY DEF InputInOrder
  <2>1. /\ c \in Nat /\ consumed[c] \in Nat /\ received[c] \in Nat
        /\ Holds(input[c], c, consumed[c], received[c])
    BY Parameters DEF ServerInv, InInv, InType
  <2> QED
    BY <2>1, HoldsData
<1> QED
  BY <1>1, ServerInvariant, PTL

------------------------------------------------------------------------------
(* The timers.  The map is ordered, holds no timer twice, and what has run *)
(* comes before all it holds: so the first of the map is always next.      *)

Timed == Nat \X Nat

\* The timer that the multimap puts in front.
Before(d, e) == d[1] < e[1] \/ (d[1] = e[1] /\ d[2] < e[2])

Ids(map) == {map[i][2] : i \in DOMAIN map}

Orderly(map) ==
    /\ map \in Seq(Timed)
    /\ \A i, j \in DOMAIN map : i < j => Before(map[i], map[j]) /\ map[i][2] # map[j][2]

TimerInv ==
    /\ now \in Nat /\ timers \in Nat /\ fired \in Seq(Timed) /\ Orderly(timerMap)
    /\ \A i \in DOMAIN fired, j \in DOMAIN timerMap : Before(fired[i], timerMap[j])
    /\ TimersInOrder

\* Two sequences put together, place by place.
LEMMA JoinPlaces ==
  ASSUME NEW s \in Seq(Timed), NEW t \in Seq(Timed)
  PROVE  /\ s \o t \in Seq(Timed) /\ Len(s \o t) = Len(s) + Len(t)
         /\ \A i \in 1..Len(s) : (s \o t)[i] = s[i]
         /\ \A i \in 1..Len(t) : (s \o t)[Len(s) + i] = t[i]
<1> DEFINE j == s \o t
           k == Len(s)
           l == Len(t)
<1>1. /\ j \in Seq(Timed) /\ Len(j) = k + l
      /\ \A i \in 1..(k + l) : j[i] = IF i <= k THEN s[i] ELSE t[i - k]
  BY ConcatProperties
<1>2. k \in Nat /\ l \in Nat
  BY LenProperties
<1> HIDE DEF j, k, l
<1>3. ASSUME NEW i \in 1..k PROVE j[i] = s[i]
  BY <1>1, <1>2
<1>4. ASSUME NEW i \in 1..l PROVE j[k + i] = t[i]
  <2>1. k + i \in 1..(k + l) /\ ~(k + i <= k) /\ (k + i) - k = i
    BY <1>2
  <2> QED
    BY <1>1, <2>1
<1> QED
  BY <1>1, <1>3, <1>4 DEF j, k, l

\* What erasing one element leaves, place by place.
LEMMA RemovedPlaces ==
  ASSUME NEW map \in Seq(Timed), NEW p \in 1..Len(map)
  PROVE  /\ RemoveAt(map, p) \in Seq(Timed) /\ Len(RemoveAt(map, p)) = Len(map) - 1
         /\ \A i \in 1..(p - 1) : RemoveAt(map, p)[i] = map[i]
         /\ \A i \in p..(Len(map) - 1) : RemoveAt(map, p)[i] = map[i + 1]
<1> DEFINE a == SubSeq(map, 1, p - 1)
           b == SubSeq(map, p + 1, Len(map))
           m == Len(map)
<1>1. m \in Nat /\ p \in Nat /\ p >= 1 /\ p <= m /\ \A i \in 1..m : map[i] \in Timed
  BY LenProperties, ElementOfSeq
<1> HIDE DEF m
<1>2. /\ a \in Seq(Timed) /\ Len(a) = p - 1 /\ \A i \in 1..(p - 1) : a[i] = map[i]
  <2>1. 1 \in Int /\ p - 1 \in Int /\ \A i \in 1..(p - 1) : map[i] \in Timed
    BY <1>1
  <2>2. /\ a \in Seq(Timed) /\ Len(a) = IF 1 <= p - 1 THEN (p - 1) - 1 + 1 ELSE 0
        /\ \A i \in 1..((p - 1) - 1 + 1) : a[i] = map[1 + i - 1]
    BY <2>1, SubSeqProperties
  <2> HIDE DEF a
  <2> QED
    BY <1>1, <2>2
<1>3. /\ b \in Seq(Timed) /\ Len(b) = m - p /\ \A i \in 1..(m - p) : b[i] = map[p + i]
  <2>1. p + 1 \in Int /\ m \in Int /\ \A i \in (p + 1)..m : map[i] \in Timed
    BY <1>1
  <2>2. /\ b \in Seq(Timed) /\ Len(b) = IF p + 1 <= m THEN m - (p + 1) + 1 ELSE 0
        /\ \A i \in 1..(m - (p + 1) + 1) : b[i] = map[(p + 1) + i - 1]
    BY <2>1, SubSeqProperties DEF m
  <2> HIDE DEF b
  <2>3. m - (p + 1) + 1 = m - p /\ \A i \in 1..(m - p) : (p + 1) + i - 1 = p + i
    BY <1>1
  <2>4. Len(b) = m - p
    BY <1>1, <2>2
  <2> QED
    BY <2>2, <2>3, <2>4
<1>4. RemoveAt(map, p) = a \o b
  BY DEF RemoveAt
<1> HIDE DEF a, b
<1> DEFINE k == p - 1
           l == m - p
<1>5. k \in Nat /\ l \in Nat /\ Len(a) = k /\ Len(b) = l
  BY <1>1, <1>2, <1>3
<1> HIDE DEF k, l
<1>6. /\ a \o b \in Seq(Timed) /\ Len(a \o b) = k + l
      /\ \A i \in 1..k : (a \o b)[i] = a[i]
      /\ \A i \in 1..l : (a \o b)[k + i] = b[i]
  <2>1. a \in Seq(Timed) /\ b \in Seq(Timed)
    BY <1>2, <1>3
  <2>2. /\ a \o b \in Seq(Timed) /\ Len(a \o b) = Len(a) + Len(b)
        /\ \A i \in 1..Len(a) : (a \o b)[i] = a[i]
        /\ \A i \in 1..Len(b) : (a \o b)[Len(a) + i] = b[i]
    BY <2>1, JoinPlaces, Zenon
  <2> QED
    BY <1>5, <2>2, Zenon
<1> DEFINE r == a \o b
<1> HIDE DEF r
<1>7. /\ r \in Seq(Timed) /\ Len(r) = m - 1
      /\ \A i \in 1..(p - 1) : r[i] = map[i]
  BY <1>1, <1>2, <1>6 DEF k, l, r
<1>8. ASSUME NEW i \in p..(m - 1) PROVE r[i] = map[i + 1]
  <2>1. i - k \in 1..l /\ k + (i - k) = i /\ p + (i - k) = i + 1
    BY <1>1 DEF k, l
  <2>2. r[k + (i - k)] = b[i - k]
    BY <1>6, <2>1 DEF r
  <2>3. b[i - k] = map[p + (i - k)]
    BY <1>3, <2>1 DEF l
  <2> QED
    BY <2>1, <2>2, <2>3
<1> QED
  BY <1>4, <1>7, <1>8 DEF m, r

\* What inserting one element makes, place by place.
LEMMA InsertedPlaces ==
  ASSUME NEW map \in Seq(Timed), NEW p \in 1..(Len(map) + 1), NEW e \in Timed
  PROVE  /\ InsertAt(map, p, e) \in Seq(Timed) /\ Len(InsertAt(map, p, e)) = Len(map) + 1
         /\ \A i \in 1..(p - 1) : InsertAt(map, p, e)[i] = map[i]
         /\ InsertAt(map, p, e)[p] = e
         /\ \A i \in p..Len(map) : InsertAt(map, p, e)[i + 1] = map[i]
<1> DEFINE a == SubSeq(map, 1, p - 1)
           b == SubSeq(map, p, Len(map))
           m == Len(map)
<1>1. m \in Nat /\ p \in Nat /\ p >= 1 /\ p <= m + 1 /\ \A i \in 1..m : map[i] \in Timed
  BY LenProperties, ElementOfSeq
<1> HIDE DEF m
<1>2. /\ a \in Seq(Timed) /\ Len(a) = p - 1 /\ \A i \in 1..(p - 1) : a[i] = map[i]
  <2>1. 1 \in Int /\ p - 1 \in Int /\ \A i \in 1..(p - 1) : map[i] \in Timed
    BY <1>1
  <2>2. /\ a \in Seq(Timed) /\ Len(a) = IF 1 <= p - 1 THEN (p - 1) - 1 + 1 ELSE 0
        /\ \A i \in 1..((p - 1) - 1 + 1) : a[i] = map[1 + i - 1]
    BY <2>1, SubSeqProperties
  <2> HIDE DEF a
  <2> QED
    BY <1>1, <2>2
<1>3. /\ b \in Seq(Timed) /\ Len(b) = m - p + 1 /\ \A i \in 1..(m - p + 1) : b[i] = map[p + i - 1]
  <2>1. p \in Int /\ m \in Int /\ \A i \in p..m : map[i] \in Timed
    BY <1>1
  <2>2. /\ b \in Seq(Timed) /\ Len(b) = IF p <= m THEN m - p + 1 ELSE 0
        /\ \A i \in 1..(m - p + 1) : b[i] = map[p + i - 1]
    BY <2>1, SubSeqProperties DEF m
  <2> HIDE DEF b
  <2> QED
    BY <1>1, <2>2
<1>4. InsertAt(map, p, e) = (a \o <<e>>) \o b
  BY DEF InsertAt
<1> HIDE DEF a, b
<1>5. <<e>> \in Seq(Timed) /\ Len(<<e>>) = 1 /\ <<e>>[1] = e
  OBVIOUS
<1> DEFINE c == a \o <<e>>
<1>6. c \in Seq(Timed) /\ Len(c) = p /\ c[p] = e /\ \A i \in 1..(p - 1) : c[i] = map[i]
  <2> DEFINE u == <<e>>
             k == p - 1
  <2>1. u \in Seq(Timed) /\ Len(u) = 1 /\ u[1] = e
    BY <1>5
  <2>2. k \in Nat /\ Len(a) = k /\ k + 1 = p
    BY <1>1, <1>2
  <2> HIDE DEF u, k
  <2>3. /\ a \o u \in Seq(Timed) /\ Len(a \o u) = k + 1
        /\ \A i \in 1..k : (a \o u)[i] = a[i]
        /\ \A i \in 1..1 : (a \o u)[k + i] = u[i]
    <3>1. a \in Seq(Timed) /\ u \in Seq(Timed)
      BY <1>2, <2>1
    <3>2. /\ a \o u \in Seq(Timed) /\ Len(a \o u) = Len(a) + Len(u)
          /\ \A i \in 1..Len(a) : (a \o u)[i] = a[i]
          /\ \A i \in 1..Len(u) : (a \o u)[Len(a) + i] = u[i]
      BY <3>1, JoinPlaces, Zenon
    <3> QED
      BY <2>1, <2>2, <3>2, Zenon
  <2>4. c = a \o u
    BY DEF u
  <2> HIDE DEF c
  <2>5. c[p] = e
    BY <2>1, <2>2, <2>3, <2>4
  <2> QED
    BY <1>2, <2>2, <2>3, <2>4, <2>5 DEF k
<1> HIDE DEF c
<1> DEFINE l == m - p + 1
           r == c \o b
<1>7. l \in Nat /\ Len(b) = l /\ p + l = m + 1
  BY <1>1, <1>3
<1> HIDE DEF l
<1>8. /\ r \in Seq(Timed) /\ Len(r) = p + l
      /\ \A i \in 1..p : r[i] = c[i]
      /\ \A i \in 1..l : r[p + i] = b[i]
  <2>1. b \in Seq(Timed)
    BY <1>3
  <2>2. /\ c \o b \in Seq(Timed) /\ Len(c \o b) = Len(c) + Len(b)
        /\ \A i \in 1..Len(c) : (c \o b)[i] = c[i]
        /\ \A i \in 1..Len(b) : (c \o b)[Len(c) + i] = b[i]
    BY <1>6, <2>1, JoinPlaces, Zenon
  <2> QED
    BY <1>6, <1>7, <2>2, Zenon
<1> HIDE DEF r
<1>9. ASSUME NEW i \in p..m PROVE r[i + 1] = map[i]
  <2>1. i + 1 - p \in 1..l /\ p + (i + 1 - p) = i + 1 /\ p + (i + 1 - p) - 1 = i
    BY <1>1 DEF l
  <2>2. r[p + (i + 1 - p)] = b[i + 1 - p]
    BY <1>8, <2>1
  <2>3. b[i + 1 - p] = map[p + (i + 1 - p) - 1]
    BY <1>3, <2>1 DEF l
  <2> QED
    BY <2>1, <2>2, <2>3
<1>10. ASSUME NEW i \in 1..(p - 1) PROVE r[i] = map[i]
  <2>1. i \in 1..p
    BY <1>1
  <2> QED
    BY <1>6, <1>8, <2>1
<1>11. r[p] = e
  <2>1. p \in 1..p
    BY <1>1
  <2> QED
    BY <1>6, <1>8, <2>1
<1>12. Len(r) = m + 1
  BY <1>7, <1>8
<1> QED
  BY <1>4, <1>8, <1>9, <1>10, <1>11, <1>12 DEF m, c, r

\* DelTimeout, and the erase of HandleTimeout, take out the timer and leave the
\* others in their order.
LEMMA ErasedTimer ==
  ASSUME NEW map, Orderly(map), NEW t
  PROVE  /\ Orderly(Erased(map, t)) /\ Ids(Erased(map, t)) = Ids(map) \ {t}
         /\ \A i \in DOMAIN Erased(map, t) : \E j \in DOMAIN map : Erased(map, t)[i] = map[j]
<1> DEFINE at == {i \in DOMAIN map : map[i][2] = t}
           m == Len(map)
<1>1. map \in Seq(Timed) /\ m \in Nat /\ DOMAIN map = 1..m
  BY LenProperties DEF Orderly
<1>2. CASE at = {}
  <2>1. Erased(map, t) = map
    BY <1>2 DEF Erased
  <2>2. t \notin Ids(map)
    BY <1>2 DEF Ids
  <2> QED
    BY <2>1, <2>2
<1>3. CASE at # {}
  <2> DEFINE p == CHOOSE i \in at : TRUE
             r == RemoveAt(map, p)
  <2>1. Erased(map, t) = r
    BY <1>3 DEF Erased
  <2>2. p \in 1..m /\ map[p][2] = t
    BY <1>1, <1>3
  <2> HIDE DEF p
  <2>3. /\ r \in Seq(Timed) /\ Len(r) = m - 1
        /\ \A i \in 1..(p - 1) : r[i] = map[i]
        /\ \A i \in p..(m - 1) : r[i] = map[i + 1]
    <3>1. map \in Seq(Timed) /\ p \in 1..Len(map)
      BY <1>1, <2>2
    <3> QED
      BY <3>1, RemovedPlaces
  <2> HIDE DEF r, m
  <2>4. DOMAIN r = 1..(m - 1)
    BY <2>3, LenProperties
  <2> DEFINE old(i) == IF i < p THEN i ELSE i + 1
  <2>5. ASSUME NEW i \in 1..(m - 1)
        PROVE  old(i) \in 1..m /\ old(i) # p /\ r[i] = map[old(i)]
    BY <1>1, <2>2, <2>3
  <2>6. \A i, j \in 1..(m - 1) : i < j => old(i) < old(j)
    BY <1>1, <2>2
  <2>7. ASSUME NEW j \in 1..m, j # p PROVE \E i \in 1..(m - 1) : old(i) = j
    <3>1. CASE j < p
      <4>1. j \in 1..(m - 1) /\ old(j) = j
        BY <1>1, <2>2, <3>1
      <4> QED
        BY <4>1
    <3>2. CASE j > p
      <4>1. j - 1 \in 1..(m - 1) /\ old(j - 1) = j
        BY <1>1, <2>2, <3>2
      <4> QED
        BY <4>1
    <3> QED
      BY <1>1, <2>2, <2>7, <3>1, <3>2
  <2> HIDE DEF old
  <2>8. \A i, j \in 1..m : i # j => map[i][2] # map[j][2]
    BY <1>1 DEF Orderly
  <2>9. Orderly(r)
    <3> SUFFICES ASSUME NEW i \in 1..(m - 1), NEW j \in 1..(m - 1), i < j
                 PROVE  Before(r[i], r[j]) /\ r[i][2] # r[j][2]
      BY <2>3, <2>4 DEF Orderly
    <3>1. old(i) \in DOMAIN map /\ old(j) \in DOMAIN map /\ old(i) < old(j)
      BY <1>1, <2>5, <2>6
    <3>2. Before(map[old(i)], map[old(j)]) /\ map[old(i)][2] # map[old(j)][2]
      BY <3>1 DEF Orderly
    <3> QED
      BY <2>5, <3>2
  <2>10. Ids(r) = Ids(map) \ {t}
    <3>1. ASSUME NEW i \in 1..(m - 1) PROVE r[i][2] \in Ids(map) \ {t}
      BY <1>1, <2>2, <2>5, <2>8 DEF Ids
    <3>2. ASSUME NEW j \in 1..m, map[j][2] # t PROVE \E i \in 1..(m - 1) : r[i][2] = map[j][2]
      BY <2>2, <2>5, <2>7, <3>2
    <3>3. \A u : u \in Ids(r) <=> \E i \in 1..(m - 1) : u = r[i][2]
      BY <2>4 DEF Ids
    <3>4. \A u : u \in Ids(map) <=> \E j \in 1..m : u = map[j][2]
      BY <1>1 DEF Ids
    <3>5. ASSUME NEW u \in Ids(r) PROVE u \in Ids(map) \ {t}
      BY <3>1, <3>3
    <3>6. ASSUME NEW u \in Ids(map) \ {t} PROVE u \in Ids(r)
      BY <3>2, <3>3, <3>4
    <3> QED
      BY <3>5, <3>6
  <2> QED
    BY <1>1, <2>1, <2>4, <2>5, <2>9, <2>10
<1> QED
  BY <1>2, <1>3

\* AddTimeout puts a new timer at its place.
LEMMA InsertedTimer ==
  ASSUME NEW map, Orderly(map), NEW time \in Nat, NEW t \in Nat, \A u \in Ids(map) : u < t
  PROVE  /\ Orderly(Inserted(map, time, t)) /\ Ids(Inserted(map, time, t)) = Ids(map) \cup {t}
         /\ \A i \in DOMAIN Inserted(map, time, t) :
               \/ Inserted(map, time, t)[i] = <<time, t>>
               \/ \E j \in DOMAIN map : Inserted(map, time, t)[i] = map[j]
<1> DEFINE m == Len(map)
           Fits(k) == /\ \A i \in 1..k : map[i][1] <= time
                      /\ \A i \in (k + 1)..m : map[i][1] > time
           before == CHOOSE k \in 0..m : Fits(k)
           p == before + 1
           e == <<time, t>>
           r == InsertAt(map, p, e)
<1>1. map \in Seq(Timed) /\ m \in Nat /\ DOMAIN map = 1..m
  BY LenProperties DEF Orderly
<1>2. \A i \in 1..m : map[i] \in Timed /\ map[i][1] \in Nat /\ map[i][2] \in Nat /\ map[i][2] < t
  <2>1. \A i \in 1..m : map[i] \in Timed
    BY <1>1, ElementOfSeq
  <2>2. \A d \in Timed : d[1] \in Nat /\ d[2] \in Nat
    BY DEF Timed
  <2>3. \A i \in 1..m : map[i][2] \in Ids(map)
    BY <1>1 DEF Ids
  <2> QED
    BY <2>1, <2>2, <2>3
<1>3. Inserted(map, time, t) = r
  BY DEF Inserted
<1> HIDE DEF m
<1>4. \E k \in 0..m : Fits(k)
  <2> DEFINE later == {i \in 1..(m + 1) : i = m + 1 \/ map[i][1] > time}
  <2>1. later \subseteq Nat /\ later # {}
    <3>1. m + 1 \in 1..(m + 1) /\ \A i \in 1..(m + 1) : i \in Nat
      BY <1>1
    <3>2. m + 1 \in later
      BY <3>1
    <3> QED
      BY <3>1, <3>2
  <2>2. PICK x \in later : \A y \in later : x <= y
    BY <2>1, LeastElement
  <2>3. x \in 1..(m + 1) /\ x - 1 \in 0..m /\ (x - 1) + 1 = x
    BY <1>1, <2>2
  <2>4. ASSUME NEW i \in 1..(x - 1) PROVE map[i][1] <= time
    <3>1. i \in 1..m /\ i < x
      BY <1>1, <2>3
    <3>2. i \notin later
      BY <1>1, <2>2, <2>3, <3>1
    <3> QED
      BY <1>1, <1>2, <3>1, <3>2
  <2>5. ASSUME NEW i \in x..m PROVE map[i][1] > time
    <3>1. x \in 1..m /\ i \in 1..m /\ x <= i
      BY <1>1, <2>3
    <3>2. map[x][1] > time
      BY <1>1, <2>2, <3>1
    <3>3. x < i => map[x][1] <= map[i][1]
      <4>1. x < i => Before(map[x], map[i])
        BY <1>1, <3>1 DEF Orderly
      <4> QED
        BY <1>2, <3>1, <4>1 DEF Before
    <3> QED
      BY <1>2, <3>1, <3>2, <3>3
  <2>6. Fits(x - 1)
    BY <2>3, <2>4, <2>5
  <2> QED
    BY <2>3, <2>6
<1>5. before \in 0..m /\ Fits(before)
  BY <1>4
<1> HIDE DEF before
<1>6. /\ p \in 1..(m + 1) /\ p - 1 = before
      /\ \A i \in 1..(p - 1) : map[i][1] <= time
      /\ \A i \in p..m : map[i][1] > time
  BY <1>1, <1>5
<1> HIDE DEF p
<1>7. e \in Timed /\ e[1] = time /\ e[2] = t
  BY DEF Timed
<1>8. /\ r \in Seq(Timed) /\ Len(r) = m + 1 /\ r[p] = e
      /\ \A i \in 1..(p - 1) : r[i] = map[i]
      /\ \A i \in p..m : r[i + 1] = map[i]
  <2>1. p \in 1..(Len(map) + 1)
    BY <1>6 DEF m
  <2> HIDE DEF e
  <2> QED
    BY <1>1, <1>7, <2>1, InsertedPlaces, ZenonT(60) DEF m
<1> HIDE DEF e, r, Fits
<1>9. DOMAIN r = 1..(m + 1)
  BY <1>8, LenProperties
<1>10. ASSUME NEW i \in 1..(m + 1), i > p
       PROVE  i - 1 \in p..m /\ i - 1 \in 1..m /\ r[i] = map[i - 1]
  <2>1. i - 1 \in p..m /\ i - 1 \in 1..m /\ (i - 1) + 1 = i
    BY <1>1, <1>6, <1>10
  <2> QED
    BY <1>8, <2>1
<1>11. ASSUME NEW i \in 1..(m + 1), i < p
       PROVE  i \in 1..(p - 1) /\ i \in 1..m /\ r[i] = map[i]
  <2>1. i \in 1..(p - 1) /\ i \in 1..m
    BY <1>1, <1>6, <1>11
  <2> QED
    BY <1>8, <2>1
<1>12. Orderly(r)
  <2> SUFFICES ASSUME NEW i \in 1..(m + 1), NEW j \in 1..(m + 1), i < j
               PROVE  Before(r[i], r[j]) /\ r[i][2] # r[j][2]
    BY <1>8, <1>9 DEF Orderly
  <2>1. CASE j < p
    <3>1. i < p
      BY <1>1, <1>6, <2>1
    <3> QED
      BY <1>1, <1>11, <2>1, <3>1 DEF Orderly
  <2>2. CASE j = p
    <3>1. i < p
      BY <1>1, <1>6, <2>2
    <3>2. r[i] = map[i] /\ i \in 1..m /\ map[i][1] <= time /\ r[j] = e
      BY <1>6, <1>8, <1>11, <2>2, <3>1
    <3> QED
      BY <1>2, <1>7, <3>2 DEF Before
  <2>3. CASE j > p /\ i = p
    <3>1. r[j] = map[j - 1] /\ j - 1 \in 1..m /\ map[j - 1][1] > time /\ r[i] = e
      BY <1>6, <1>8, <1>10, <2>3
    <3> QED
      BY <1>2, <1>7, <3>1 DEF Before
  <2>4. CASE j > p /\ i < p
    <3>1. r[i] = map[i] /\ r[j] = map[j - 1] /\ i \in 1..m /\ j - 1 \in 1..m /\ i < j - 1
      BY <1>6, <1>10, <1>11, <2>4
    <3> QED
      BY <1>1, <3>1 DEF Orderly
  <2>5. CASE i > p
    <3>1. /\ r[i] = map[i - 1] /\ r[j] = map[j - 1] /\ i - 1 \in 1..m /\ j - 1 \in 1..m
          /\ i - 1 < j - 1
      BY <1>6, <1>10, <2>5
    <3> QED
      BY <1>1, <3>1 DEF Orderly
  <2> QED
    BY <1>6, <2>1, <2>2, <2>3, <2>4, <2>5
<1>13. ASSUME NEW i \in 1..(m + 1) PROVE r[i] = e \/ \E j \in 1..m : r[i] = map[j]
  BY <1>6, <1>8, <1>10, <1>11
<1>14. ASSUME NEW j \in 1..m PROVE \E i \in 1..(m + 1) : r[i] = map[j]
  <2>1. CASE j < p
    BY <1>1, <1>6, <1>8, <2>1
  <2>2. CASE j >= p
    <3>1. j \in p..m /\ j + 1 \in 1..(m + 1)
      BY <1>1, <1>6, <2>2
    <3> QED
      BY <1>8, <3>1
  <2> QED
    BY <1>1, <1>6, <2>1, <2>2
<1>15. Ids(r) = Ids(map) \cup {t}
  <2>1. p \in 1..(m + 1) /\ r[p][2] = t
    BY <1>6, <1>7, <1>8
  <2>2. \A i \in 1..(m + 1) : r[i][2] = t \/ \E j \in 1..m : r[i][2] = map[j][2]
    BY <1>7, <1>13
  <2>3. \A j \in 1..m : \E i \in 1..(m + 1) : r[i][2] = map[j][2]
    BY <1>14
  <2> QED
    <3>1. \A u : u \in Ids(r) <=> \E i \in 1..(m + 1) : u = r[i][2]
      BY <1>9 DEF Ids
    <3>2. \A u : u \in Ids(map) <=> \E j \in 1..m : u = map[j][2]
      BY <1>1 DEF Ids
    <3>3. ASSUME NEW u \in Ids(r) PROVE u \in Ids(map) \cup {t}
      BY <2>2, <3>1, <3>2
    <3>4. ASSUME NEW u \in Ids(map) \cup {t} PROVE u \in Ids(r)
      BY <2>1, <2>3, <3>1, <3>2
    <3> QED
      BY <3>3, <3>4
<1> QED
  BY <1>1, <1>3, <1>9, <1>12, <1>13, <1>15 DEF e

\* The map as a callback leaves it, before the timer that runs is erased.
LEMMA CallbackTimers ==
  ASSUME TimerInv, NEW t, MayUseTimers(t)
  PROVE  \E map : /\ Orderly(map) /\ timerMap' = Erased(map, t) /\ timers' \in Nat
                  /\ Ids(map) \cup Ids(fired) \cup deleted' = 1..timers'
                  /\ Ids(map) \cap Ids(fired) = {} /\ Ids(map) \cap deleted' = {}
                  /\ Ids(fired) \cap deleted' = {}
                  /\ t \in Ids(timerMap) => t \in Ids(map)
                  /\ \A j \in DOMAIN map :
                        \/ \E i \in DOMAIN timerMap : map[j] = timerMap[i]
                        \/ map[j][1] \in Nat /\ map[j][1] >= now /\ map[j][2] = timers + 1
<1>1. /\ Orderly(timerMap) /\ timers \in Nat /\ now \in Nat
      /\ Ids(timerMap) \cup Ids(fired) \cup deleted = 1..timers
      /\ Ids(timerMap) \cap Ids(fired) = {} /\ Ids(timerMap) \cap deleted = {}
      /\ Ids(fired) \cap deleted = {}
  BY DEF TimerInv, TimersInOrder, Pending, Ids
<1>2. CASE timerMap' = Erased(timerMap, t) /\ UNCHANGED <<timers, deleted>>
  BY <1>1, <1>2
<1>3. CASE /\ \E diff \in Delays : timerMap' = Erased(AddTimeout(timerMap, diff), t)
           /\ timers' = timers + 1 /\ deleted' = deleted
  <2>1. PICK diff \in Delays : timerMap' = Erased(AddTimeout(timerMap, diff), t)
    BY <1>3
  <2> DEFINE time == now + diff
             map == Inserted(timerMap, time, timers + 1)
  <2>2. time \in Nat /\ time >= now /\ timers + 1 \in Nat
    BY <1>1, NetServerAssumption
  <2>3. timerMap' = Erased(map, t)
    BY <2>1 DEF AddTimeout
  <2> HIDE DEF time
  <2>4. \A u \in 1..timers : u < timers + 1
    BY <1>1
  <2>5. \A u \in Ids(timerMap) : u < timers + 1
    BY <1>1, <2>4
  <2>6. /\ Orderly(map) /\ Ids(map) = Ids(timerMap) \cup {timers + 1}
        /\ \A j \in DOMAIN map : \/ map[j] = <<time, timers + 1>>
                                 \/ \E i \in DOMAIN timerMap : map[j] = timerMap[i]
    BY <1>1, <2>2, <2>5, InsertedTimer
  <2> HIDE DEF map
  <2>7. 1..timers' = (1..timers) \cup {timers + 1} /\ timers' \in Nat
    BY <1>1, <1>3
  <2>8. timers + 1 \notin Ids(fired) /\ timers + 1 \notin deleted
    <3>1. timers + 1 \notin 1..timers
      BY <1>1
    <3> QED
      BY <1>1, <3>1
  <2>9. /\ Ids(map) \cup Ids(fired) \cup deleted' = 1..timers'
        /\ Ids(map) \cap Ids(fired) = {} /\ Ids(map) \cap deleted' = {}
        /\ Ids(fired) \cap deleted' = {}
    BY <1>1, <1>3, <2>6, <2>7, <2>8
  <2>10. \A j \in DOMAIN map :
            \/ \E i \in DOMAIN timerMap : map[j] = timerMap[i]
            \/ map[j][1] \in Nat /\ map[j][1] >= now /\ map[j][2] = timers + 1
    BY <2>2, <2>6
  <2> QED
    BY <2>3, <2>6, <2>7, <2>9, <2>10
<1>4. CASE /\ \E d \in (1..timers) \ {t} :
                 /\ timerMap' = Erased(DelTimeout(timerMap, d), t)
                 /\ deleted' = deleted \cup ({d} \cap Ids(timerMap))
           /\ timers' = timers
  <2>1. PICK d \in (1..timers) \ {t} : /\ timerMap' = Erased(DelTimeout(timerMap, d), t)
                                       /\ deleted' = deleted \cup ({d} \cap Ids(timerMap))
    BY <1>4
  <2> DEFINE map == Erased(timerMap, d)
  <2>2. timerMap' = Erased(map, t)
    BY <2>1 DEF DelTimeout
  <2>3. /\ Orderly(map) /\ Ids(map) = Ids(timerMap) \ {d}
        /\ \A j \in DOMAIN map : \E i \in DOMAIN timerMap : map[j] = timerMap[i]
    BY <1>1, ErasedTimer
  <2> HIDE DEF map
  <2>4. /\ Ids(map) \cup Ids(fired) \cup deleted' = 1..timers'
        /\ Ids(map) \cap Ids(fired) = {} /\ Ids(map) \cap deleted' = {}
        /\ Ids(fired) \cap deleted' = {} /\ (t \in Ids(timerMap) => t \in Ids(map))
    BY <1>1, <1>4, <2>1, <2>3
  <2> QED
    BY <1>1, <1>4, <2>2, <2>3, <2>4
<1> QED
  BY <1>2, <1>3, <1>4 DEF MayUseTimers, Ids

\* Where every timer is, in the words of the lemmas above.
LEMMA OrderFacts ==
  TimersInOrder => /\ Pending \cup Ids(fired) \cup deleted = 1..timers
                   /\ Pending \cap Ids(fired) = {} /\ Pending \cap deleted = {}
                   /\ Ids(fired) \cap deleted = {}
  BY DEF TimersInOrder, Ids

\* A step that runs no timer.
LEMMA OrderKept ==
  ASSUME TimersInOrder, fired' = fired, \A i \in DOMAIN fired : fired[i][1] <= now',
         Pending' \cup Ids(fired) \cup deleted' = 1..timers',
         Pending' \cap Ids(fired) = {}, Pending' \cap deleted' = {}, Ids(fired) \cap deleted' = {}
  PROVE  TimersInOrder'
<1> DEFINE ran == {fired[i][2] : i \in DOMAIN fired}
<1>1. ran = Ids(fired) /\ {fired'[i][2] : i \in DOMAIN fired'} = ran
  BY DEF Ids
<1>2. \A i, j \in DOMAIN fired' : i < j =>
          \/ fired'[i][1] < fired'[j][1]
          \/ fired'[i][1] = fired'[j][1] /\ fired'[i][2] < fired'[j][2]
  BY DEF TimersInOrder
<1>3. \A i \in DOMAIN fired' : fired'[i][1] <= now'
  OBVIOUS
<1> HIDE DEF ran
<1> QED
  BY <1>1, <1>2, <1>3, Zenon DEF TimersInOrder

\* A callback of a connection adds or deletes a timer.
LEMMA ReadCallbackTimers ==
  ASSUME TimerInv, MayUseTimers(None), now' = now, fired' = fired
  PROVE  TimerInv'
<1>1. PICK map : /\ Orderly(map) /\ timerMap' = Erased(map, None) /\ timers' \in Nat
                 /\ Ids(map) \cup Ids(fired) \cup deleted' = 1..timers'
                 /\ Ids(map) \cap Ids(fired) = {} /\ Ids(map) \cap deleted' = {}
                 /\ Ids(fired) \cap deleted' = {}
                 /\ \A j \in DOMAIN map :
                       \/ \E i \in DOMAIN timerMap : map[j] = timerMap[i]
                       \/ map[j][1] \in Nat /\ map[j][1] >= now /\ map[j][2] = timers + 1
  BY CallbackTimers
<1>2. /\ Orderly(timerMap') /\ Ids(timerMap') = Ids(map) \ {None}
      /\ \A i \in DOMAIN timerMap' : \E j \in DOMAIN map : timerMap'[i] = map[j]
  BY <1>1, ErasedTimer
<1>3. Ids(timerMap') = Ids(map)
  <2>1. None \notin 1..timers'
    BY <1>1 DEF None
  <2> QED
    BY <1>1, <1>2, <2>1
<1>4. ASSUME NEW i \in DOMAIN fired, NEW j \in DOMAIN timerMap'
      PROVE  Before(fired[i], timerMap'[j])
  <2>1. PICK k \in DOMAIN map : timerMap'[j] = map[k]
    BY <1>2
  <2>2. CASE \E n \in DOMAIN timerMap : map[k] = timerMap[n]
    BY <2>1, <2>2 DEF TimerInv
  <2>3. CASE map[k][1] \in Nat /\ map[k][1] >= now /\ map[k][2] = timers + 1
    <3>1. fired[i][1] <= now /\ fired[i][1] \in Nat /\ now \in Nat /\ timers \in Nat
      <4>1. fired[i] \in Timed
        BY LenProperties, ElementOfSeq DEF TimerInv
      <4> QED
        BY <4>1 DEF TimerInv, TimersInOrder, Timed
    <3>2. fired[i][2] \in 1..timers
      BY DEF TimerInv, TimersInOrder
    <3> QED
      BY <2>1, <2>3, <3>1, <3>2 DEF Before
  <2> QED
    BY <1>1, <2>2, <2>3
<1>5. TimersInOrder'
  <2>1. Pending' = Ids(map)
    BY <1>3 DEF Pending, Ids
  <2>2. \A i \in DOMAIN fired : fired[i][1] <= now'
    BY DEF TimerInv, TimersInOrder
  <2> QED
    BY <1>1, <2>1, <2>2, OrderKept DEF TimerInv
<1> QED
  BY <1>1, <1>2, <1>4, <1>5 DEF TimerInv

\* HandleTimeout runs the first timer, whose callback adds or deletes another,
\* and erases it.
LEMMA HandleTimeoutTimers ==
  ASSUME TimerInv, timerMap # <<>>, timerMap[1][1] <= now, MayUseTimers(timerMap[1][2]),
         now' = now, fired' = Append(fired, timerMap[1])
  PROVE  TimerInv'
<1> DEFINE first == timerMap[1]
           t == first[2]
           n == Len(fired)
<1>1. /\ 1 \in DOMAIN timerMap /\ first \in Timed /\ first[1] \in Nat /\ t \in Nat
      /\ t \in Ids(timerMap) /\ now \in Nat /\ timers \in Nat
  <2>1. timerMap \in Seq(Timed) /\ Len(timerMap) \in Nat \ {0} /\ DOMAIN timerMap = 1..Len(timerMap)
    BY LenProperties, EmptySeq DEF TimerInv, Orderly
  <2>2. 1 \in 1..Len(timerMap)
    BY <2>1
  <2>3. first \in Timed
    BY <2>1, <2>2, ElementOfSeq
  <2> QED
    BY <2>1, <2>2, <2>3 DEF TimerInv, Ids, Timed
<1>2. PICK map : /\ Orderly(map) /\ timerMap' = Erased(map, t) /\ timers' \in Nat
                 /\ Ids(map) \cup Ids(fired) \cup deleted' = 1..timers'
                 /\ Ids(map) \cap Ids(fired) = {} /\ Ids(map) \cap deleted' = {}
                 /\ Ids(fired) \cap deleted' = {} /\ t \in Ids(map)
                 /\ \A j \in DOMAIN map :
                       \/ \E i \in DOMAIN timerMap : map[j] = timerMap[i]
                       \/ map[j][1] \in Nat /\ map[j][1] >= now /\ map[j][2] = timers + 1
  BY <1>1, CallbackTimers
<1>3. /\ Orderly(timerMap') /\ Ids(timerMap') = Ids(map) \ {t}
      /\ \A i \in DOMAIN timerMap' : \E j \in DOMAIN map : timerMap'[i] = map[j]
  BY <1>2, ErasedTimer
<1>4. fired \in Seq(Timed) /\ n \in Nat /\ DOMAIN fired = 1..n
  BY LenProperties DEF TimerInv
<1>5. /\ fired' \in Seq(Timed) /\ DOMAIN fired' = 1..(n + 1) /\ fired'[n + 1] = first
      /\ \A i \in 1..n : fired'[i] = fired[i]
  BY <1>1, <1>4, AppendProperties, LenProperties
<1>6. \A i \in 1..n : fired[i] \in Timed
  BY <1>4, ElementOfSeq
<1> HIDE DEF first, t, n
<1>7. \A i \in 1..n : /\ fired[i][1] \in Nat /\ fired[i][1] <= now /\ fired[i][2] \in 1..timers
                      /\ Before(fired[i], first)
  <2>1. \A d \in Timed : d[1] \in Nat
    BY DEF Timed
  <2>2. \A i \in 1..n : fired[i][1] <= now /\ fired[i][2] \in 1..timers
    BY <1>4 DEF TimerInv, TimersInOrder
  <2>3. \A i \in 1..n : Before(fired[i], first)
    BY <1>1, <1>4 DEF TimerInv, first
  <2> QED
    BY <1>6, <2>1, <2>2, <2>3
<1>8. t \in 1..timers /\ first[2] = t
  BY <1>1 DEF TimerInv, TimersInOrder, Pending, Ids, t
<1>9. first[1] <= now
  BY DEF first
<1>10. ASSUME NEW j \in DOMAIN timerMap'
       PROVE  /\ Before(first, timerMap'[j])
              /\ \A i \in 1..n : Before(fired[i], timerMap'[j])
  <2>1. PICK k \in DOMAIN map : timerMap'[j] = map[k]
    BY <1>3
  <2>2. timerMap'[j][2] # t
    <3>1. timerMap'[j][2] \in Ids(timerMap')
      BY DEF Ids
    <3> QED
      BY <1>3, <3>1
  <2>3. CASE \E i \in DOMAIN timerMap : map[k] = timerMap[i]
    <3>1. PICK i \in DOMAIN timerMap : map[k] = timerMap[i]
      BY <2>3
    <3>2. i # 1
      BY <2>1, <2>2, <3>1 DEF t, first
    <3>3. 1 < i
      <4>1. i \in 1..Len(timerMap) /\ Len(timerMap) \in Nat
        BY LenProperties DEF TimerInv, Orderly
      <4> QED
        BY <3>2, <4>1
    <3>4. Before(first, timerMap[i])
      BY <1>1, <3>3 DEF TimerInv, Orderly, first
    <3> QED
      BY <1>4, <2>1, <3>1, <3>4 DEF TimerInv
  <2>4. CASE map[k][1] \in Nat /\ map[k][1] >= now /\ map[k][2] = timers + 1
    <3>1. Before(first, map[k])
      BY <1>1, <1>8, <1>9, <2>4 DEF Before
    <3>2. ASSUME NEW i \in 1..n PROVE Before(fired[i], map[k])
      <4>1. fired[i][1] \in Nat /\ fired[i][1] <= now /\ fired[i][2] \in 1..timers
        BY <1>7
      <4> QED
        BY <1>1, <2>4, <4>1 DEF Before
    <3> QED
      BY <2>1, <3>1, <3>2
  <2> QED
    BY <1>2, <2>3, <2>4
<1>11. ASSUME NEW i \in 1..(n + 1), NEW j \in 1..(n + 1), i < j
       PROVE  Before(fired'[i], fired'[j])
  <2>1. i \in 1..n /\ (j \in 1..n \/ j = n + 1)
    BY <1>4, <1>11
  <2>2. j \in 1..n => Before(fired[i], fired[j])
    BY <1>4, <1>11, <2>1 DEF TimerInv, TimersInOrder, Before
  <2> QED
    BY <1>5, <1>7, <2>1, <2>2
<1>12. \A i \in 1..(n + 1) : i \in 1..n \/ i = n + 1
  BY <1>4
<1>13. Ids(fired') = Ids(fired) \cup {t}
  <2>1. \A u : u \in Ids(fired) <=> \E i \in 1..n : u = fired[i][2]
    BY <1>4 DEF Ids
  <2>2. \A u : u \in Ids(fired') <=> \E i \in 1..(n + 1) : u = fired'[i][2]
    BY <1>5 DEF Ids
  <2>3. n + 1 \in 1..(n + 1) /\ \A i \in 1..n : i \in 1..(n + 1)
    BY <1>4
  <2> QED
    BY <1>5, <1>8, <1>12, <2>1, <2>2, <2>3
<1>14. TimersInOrder'
  <2>1. Pending' = Ids(map) \ {t}
    BY <1>3 DEF Pending, Ids
  <2>2. \A i \in 1..(n + 1) : fired'[i][1] <= now'
    BY <1>5, <1>7, <1>9, <1>12
  <2>3. /\ Pending' \cup Ids(fired') \cup deleted' = 1..timers'
        /\ Pending' \cap Ids(fired') = {} /\ Pending' \cap deleted' = {}
        /\ Ids(fired') \cap deleted' = {}
    BY <1>2, <1>13, <2>1
  <2> QED
    BY <1>5, <1>11, <2>2, <2>3 DEF TimersInOrder, Before, Ids
<1>15. ASSUME NEW i \in DOMAIN fired', NEW j \in DOMAIN timerMap'
       PROVE  Before(fired'[i], timerMap'[j])
  BY <1>5, <1>10, <1>12
<1> QED
  BY <1>1, <1>2, <1>3, <1>5, <1>14, <1>15 DEF TimerInv

\* The clock and every step of the loop keep the timers in order.
LEMMA TimersNext == TimerInv /\ [Next]_vars => TimerInv'
<1> SUFFICES ASSUME TimerInv, [Next]_vars PROVE TimerInv'
  OBVIOUS
<1>1. CASE UNCHANGED <<now, timerVars>>
  <2>1. /\ now' = now /\ timerMap' = timerMap /\ timers' = timers /\ fired' = fired
        /\ deleted' = deleted
    BY <1>1 DEF timerVars
  <2>2. TimersInOrder'
    <3>1. Pending' = Pending /\ \A i \in DOMAIN fired : fired[i][1] <= now'
      BY <2>1 DEF Pending, TimerInv, TimersInOrder
    <3> QED
      BY <2>1, <3>1, OrderKept, OrderFacts DEF TimerInv
  <2> QED
    BY <2>1, <2>2 DEF TimerInv, Orderly
<1>2. CASE Tick
  <2>1. now' = now + 1 /\ UNCHANGED timerVars /\ now \in Nat
    BY <1>2 DEF Tick, TimerInv
  <2>2. \A i \in DOMAIN fired : fired[i][1] <= now'
    <3>1. \A i \in DOMAIN fired : fired[i] \in Timed
      BY LenProperties, ElementOfSeq DEF TimerInv
    <3> QED
      BY <2>1, <3>1 DEF TimerInv, TimersInOrder, Timed
  <2>3. timerMap' = timerMap /\ timers' = timers /\ fired' = fired /\ deleted' = deleted
    BY <2>1 DEF timerVars
  <2>4. TimersInOrder'
    <3>1. Pending' = Pending
      BY <2>3 DEF Pending
    <3> QED
      BY <2>2, <2>3, <3>1, OrderKept, OrderFacts DEF TimerInv
  <2> QED
    BY <2>1, <2>3, <2>4 DEF TimerInv, Orderly
<1>3. CASE ReadCallback
  BY <1>3, ReadCallbackTimers DEF ReadCallback
<1>4. CASE HandleTimeout
  <2>1. CASE timerMap # <<>> /\ timerMap[1][1] <= now
    BY <1>4, <2>1, HandleTimeoutTimers DEF HandleTimeout
  <2>2. CASE ~(timerMap # <<>> /\ timerMap[1][1] <= now)
    BY <1>1, <1>4, <2>2 DEF HandleTimeout
  <2> QED
    BY <2>1, <2>2
<1>5. CASE Loop /\ ~ReadCallback /\ ~HandleTimeout
  <2>1. UNCHANGED <<now, timerVars>>
    BY <1>5
       DEF Loop, Poll, PollReturns, EventsHandled, HandleAccept, HandleIO,
           HandleRead,
                HandleWrite, HandleHangup
  <2> QED
    BY <1>1, <2>1
<1>6. CASE PollInterrupted
  BY <1>1, <1>6 DEF PollInterrupted
<1>7. CASE Environment /\ ~Tick
  <2>1. UNCHANGED <<now, timerVars>>
    BY <1>7 DEF Environment, Connect, PeerSends, PeerReads, PeerEnds, PeerStep
  <2> QED
    BY <1>1, <2>1
<1>8. CASE UNCHANGED vars
  BY <1>1, <1>8 DEF vars
<1> QED
  BY <1>2, <1>3, <1>4, <1>5, <1>6, <1>7, <1>8 DEF Next

\* Timers run in the order of their times and of their addition, none before
\* its time, and each added timer is pending, run or deleted: whatever the
\* callbacks add and delete while HandleTimeout goes through the map
\* (Timer.h:63-69).
THEOREM TimersRunInOrder == Spec => []TimersInOrder
<1>1. Init => TimerInv
  BY EmptySeq DEF Init, TimerInv, Orderly, TimersInOrder, Pending
<1>2. TimerInv => TimersInOrder
  BY DEF TimerInv
<1> QED
  BY <1>1, <1>2, TimersNext, PTL DEF Spec

==============================================================================
