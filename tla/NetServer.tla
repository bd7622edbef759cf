------------------------------ MODULE NetServer ------------------------------
(***************************************************************************)
(* The single-threaded server of network_timer: EventLoop, TcpServer,      *)
(* TcpConn with its MessageBuffer, and Timer.  (network_buffer_design is   *)
(* the same without the timers.)  The read callback and the callbacks of   *)
(* the timers belong to the application: like the one of main.cc they take *)
(* a line or all data, send on a connection and add or delete timers.      *)
(*                                                                         *)
(* The kernel and the peers are external.  A byte is the pair of the       *)
(* connection it belongs to and its number in its stream, so that a byte   *)
(* that is lost, repeated or sent to a stranger is noticed.                *)
(***************************************************************************)
EXTENDS MessageBuffer, SequencesExt

CONSTANTS
    MaxConns,     \* bound: connections in one behaviour
    MaxFds,       \* file descriptors; the lowest free one is given out
    BufferSize,   \* of MessageBuffer, 4096 in the code
    ExtraSize,    \* of the extra area of Recv, 65535 in the code
    Input,        \* what each peer sends: a sequence of "x", "cr", "lf"
    MsgSize,      \* bytes of a message that is sent
    MaxMsgs,      \* bound: messages sent in one behaviour
    SendRoom,     \* bytes the kernel takes until the peer reads
    MaxPeerSteps, \* bound: what peers do after connecting, in one behaviour
    MaxTimers,    \* bound: timers in one behaviour
    Delays,       \* the delays they are given
    MaxNow,       \* bound: the clock stops there
    UInt64, Int32 \* the numbers of values of uint64_t and of int

ASSUME NetServerAssumption ==
    /\ {MaxConns, MaxFds, MaxMsgs, MaxPeerSteps, MaxTimers, MaxNow} \subseteq Nat
    /\ {BufferSize, ExtraSize, MsgSize, SendRoom} \subseteq Nat \ {0}
    /\ Delays \subseteq Nat /\ Input \in Seq({"x", "cr", "lf"})
    /\ Int32 % 2 = 0 /\ UInt64 % Int32 = 0

\* An input for model checking.
Lines == <<"cr", "lf", "x">>

Conns == 1..MaxConns
Fds == 1..MaxFds
None == 0
Never == -1

VARIABLES
    \* the kernel and the peers
    connecting,  \* connections waiting to be accepted
    sock,        \* fd -> the connection whose socket it is, or None
    interest,    \* fd -> [ptr, out]: whose handler it calls (None: not registered),
                 \* and whether EPOLLOUT is among the events
    room,        \* bytes the socket would take
    arrived,     \* bytes the peer has sent
    received,    \* bytes read of them
    peer,        \* "open", "shut" (has sent its last byte) or "reset"
    peerSteps,   \* what the peers have done so far
    delivered,   \* history: the bytes given to the socket
    \* TcpConn
    accepted,    \* connections that exist
    fd, closed, output, input,
    sent,        \* history: bytes that Send has taken
    consumed,    \* history: bytes the callback has taken out of the buffer
    \* EventLoop
    pc,          \* "wait", "polling", "events", "read", "callback", "write", "close",
                 \* "timers", or "ended": the process is gone
    deadline,    \* when epoll_wait times out, or Never
    batch,       \* the events that epoll_wait returned, less the handled ones
    cur,         \* the one being handled
    \* Timer
    now,
    timerMap,    \* sequence of <<timeout, timer>>, as the multimap orders them
    timers,      \* timers that were added: 1..timers, in that order
    fired,       \* history: sequence of the <<timeout, timer>> that were run
    deleted      \* history: the timers DelTimeout found

peerVars  == <<connecting, arrived, peer, peerSteps>>
outVars   == <<sock, interest, room, delivered, closed, output, sent>>
inVars    == <<received, input, consumed>>
acceptVars == <<accepted, fd>>
loopVars  == <<pc, deadline, batch, cur>>
timerVars == <<timerMap, timers, fired, deleted>>
vars == <<peerVars, outVars, inVars, acceptVars, loopVars, now, timerVars>>

Init ==
    /\ connecting = 0 /\ accepted = 0 /\ peerSteps = 0
    /\ sock = [f \in Fds |-> None]
    /\ interest = [f \in Fds |-> [ptr |-> None, out |-> FALSE]]
    /\ room = [c \in Conns |-> SendRoom]
    /\ arrived = [c \in Conns |-> 0] /\ received = [c \in Conns |-> 0]
    /\ consumed = [c \in Conns |-> 0] /\ sent = [c \in Conns |-> 0]
    /\ peer = [c \in Conns |-> "open"]
    /\ delivered = [c \in Conns |-> <<>>] /\ output = [c \in Conns |-> <<>>]
    /\ input = [c \in Conns |-> MessageBuffer(BufferSize)]
    /\ fd = [c \in Conns |-> None] /\ closed = [c \in Conns |-> FALSE]
    /\ pc = "wait" /\ deadline = Never /\ batch = {} /\ cur = None
    /\ now = 0 /\ timerMap = <<>> /\ timers = 0 /\ fired = <<>> /\ deleted = {}

Bytes(c, from, to) == [i \in 1..(to - from + 1) |-> <<c, from + i - 1>>]

------------------------------------------------------------------------------
(* TcpConn.                                                                *)

\* EnableWrite, DisableWrite.
WatchWrite(c, out) ==
    interest' = [interest EXCEPT ![fd[c]] = [ptr |-> c, out |-> out]]

Close(c) ==
    /\ closed' = [closed EXCEPT ![c] = TRUE]
    /\ interest' = IF closed[c] THEN interest
                   ELSE [interest EXCEPT ![fd[c]] = [ptr |-> None, out |-> FALSE]]
    /\ sock' = IF closed[c] THEN sock ELSE [sock EXCEPT ![fd[c]] = None]

\* ::send on the connection's descriptor: the socket takes what it has room
\* for (nothing: EAGAIN), and left is what the caller is left with.
Transmit(c, bytes, left) ==
    LET s == sock[fd[c]]
        n == IF room[s] < Len(bytes) THEN room[s] ELSE Len(bytes)
    IN  /\ peer[s] # "reset"
        /\ delivered' = [delivered EXCEPT ![s] = @ \o SubSeq(bytes, 1, n)]
        /\ room' = [room EXCEPT ![s] = @ - n]
        /\ left = SubSeq(bytes, n + 1, Len(bytes))

SendFails(c) == peer[sock[fd[c]]] = "reset"

Message(c) == Bytes(c, sent[c] + 1, sent[c] + MsgSize)

\* A message does not wait for the ones before it.
SendAtOnce(c) ==
    /\ ~closed[c] /\ sent' = [sent EXCEPT ![c] = @ + MsgSize]
    /\ \E n \in 0..MsgSize :
          LET left == SubSeq(Message(c), n + 1, MsgSize)
          IN  /\ Transmit(c, Message(c), left)
              /\ output' = [output EXCEPT ![c] = @ \o left]
              /\ IF left = <<>> THEN UNCHANGED interest ELSE WatchWrite(c, TRUE)
    /\ UNCHANGED <<sock, closed>>

Send(c) ==
    \/ closed[c] /\ UNCHANGED outVars
    \/ /\ ~closed[c] /\ output[c] # <<>>
       /\ sent' = [sent EXCEPT ![c] = @ + MsgSize]
       /\ output' = [output EXCEPT ![c] = @ \o Message(c)]
       /\ WatchWrite(c, TRUE)
       /\ UNCHANGED <<sock, room, delivered, closed>>
    \/ /\ ~closed[c] /\ output[c] = <<>> /\ SendFails(c)
       /\ Close(c) /\ UNCHANGED <<room, delivered, output, sent>>
    \/ /\ ~closed[c] /\ output[c] = <<>>
       /\ sent' = [sent EXCEPT ![c] = @ + MsgSize]
       /\ \E n \in 0..MsgSize :
             LET left == SubSeq(Message(c), n + 1, MsgSize)
             IN  /\ Transmit(c, Message(c), left)
                 /\ output' = [output EXCEPT ![c] = left]
                 /\ IF left = <<>> THEN UNCHANGED interest ELSE WatchWrite(c, TRUE)
       /\ UNCHANGED <<sock, closed>>

\* What the application sends in a callback: on some connection it knows, or
\* nothing.
MaySend ==
    \/ /\ FoldFunction(+, 0, sent) < MaxMsgs * MsgSize
       /\ \E c \in 1..accepted : Send(c)
    \/ UNCHANGED outVars

------------------------------------------------------------------------------
(* Timer.                                                                  *)

\* The multimap puts a timer behind all that are due no later.
Inserted(map, timeout, t) ==
    LET before == CHOOSE k \in 0..Len(map) : /\ \A i \in 1..k : map[i][1] <= timeout
                                            /\ \A i \in (k + 1)..Len(map) : map[i][1] > timeout
    IN  InsertAt(map, before + 1, <<timeout, t>>)

\* The multimap without a timer, if it is there.
Erased(map, t) ==
    LET at == {i \in DOMAIN map : map[i][2] = t}
    IN  IF at = {} THEN map ELSE RemoveAt(map, CHOOSE i \in at : TRUE)

\* The map with a timer that is added now.
AddTimeout(map, diff) == Inserted(map, now + diff, timers + 1)

\* DelTimeout that does not look which of the timers due at a time it is.
DelSameTime(map, t) ==
    LET same == {i \in DOMAIN map : \E j \in DOMAIN map : map[j][2] = t /\ map[i][1] = map[j][1]}
    IN  IF same = {} THEN map ELSE RemoveAt(map, CHOOSE i \in same : \A j \in same : i <= j)

\* Nodes are never freed, so a timer that has run may be deleted: to no effect.
DelTimeout(map, t) == Erased(map, t)

\* What the application does to the timers in a callback, of the timer t or of
\* a connection (None).  HandleTimeout erases t after the callback.
MayUseTimers(t) ==
    \/ timerMap' = Erased(timerMap, t) /\ UNCHANGED <<timers, deleted>>
    \/ /\ timers < MaxTimers
       /\ \E diff \in Delays : /\ now + diff <= MaxNow
                               /\ timerMap' = Erased(AddTimeout(timerMap, diff), t)
       /\ timers' = timers + 1 /\ UNCHANGED deleted
    \/ \E d \in (1..timers) \ {t} :
          /\ timerMap' = Erased(DelTimeout(timerMap, d), t)
          /\ deleted' = deleted \cup ({d} \cap {timerMap[i][2] : i \in DOMAIN timerMap})
          /\ UNCHANGED timers

\* The wait is computed as uint64_t and returned as int.
WaitTime ==
    LET diff == (timerMap[1][1] - now) % UInt64
        low  == diff % Int32
    IN  IF timerMap = <<>> THEN -1
        ELSE IF low >= Int32 \div 2 THEN low - Int32 ELSE low

HandleTimeout ==
    /\ pc = "timers"
    /\ IF timerMap # <<>> /\ timerMap[1][1] <= now
       THEN /\ MayUseTimers(timerMap[1][2])
            /\ MaySend
            /\ fired' = Append(fired, timerMap[1])
            /\ UNCHANGED pc
       ELSE /\ pc' = "wait"
            /\ UNCHANGED <<outVars, timerVars>>
    /\ UNCHANGED <<peerVars, inVars, acceptVars, deadline, batch, cur, now>>

------------------------------------------------------------------------------
(* EventLoop and the handlers.                                             *)

\* The events of a connection's socket that epoll reports, as far as they are
\* registered: EPOLLIN, EPOLLOUT, and EPOLLRDHUP, EPOLLERR or EPOLLHUP.
Events(f) ==
    LET s == sock[f]
    IN  [ptr  |-> interest[f].ptr,
         in   |-> arrived[s] > received[s] \/ peer[s] # "open",
         out  |-> interest[f].out /\ (room[s] > 0 \/ peer[s] = "reset"),
         hup  |-> peer[s] # "open"]

Accept == [ptr |-> None, in |-> TRUE, out |-> FALSE, hup |-> FALSE]

Ready ==
    {Events(f) : f \in {g \in Fds : /\ interest[g].ptr # None
                                    /\ Events(g).in \/ Events(g).out \/ Events(g).hup}}
      \cup (IF connecting > 0 THEN {Accept} ELSE {})

Poll ==
    /\ pc = "wait"
    /\ pc' = "polling"
    /\ deadline' = IF WaitTime < 0 THEN Never ELSE now + WaitTime
    /\ UNCHANGED <<peerVars, outVars, inVars, acceptVars, batch, cur, now, timerVars>>

PollReturns ==
    /\ pc = "polling"
    /\ Ready # {} \/ (deadline # Never /\ now >= deadline)
    /\ pc' = "events" /\ batch' = Ready
    /\ UNCHANGED <<peerVars, outVars, inVars, acceptVars, deadline, cur, now, timerVars>>

\* EINTR: the timers are not looked at.
PollInterrupted ==
    /\ pc = "polling"
    /\ pc' = "wait"
    /\ UNCHANGED <<peerVars, outVars, inVars, acceptVars, deadline, batch, cur, now, timerVars>>

EventsHandled ==
    /\ pc = "events" /\ batch = {}
    /\ pc' = "timers"
    /\ UNCHANGED <<peerVars, outVars, inVars, acceptVars, deadline, batch, cur, now, timerVars>>

FreeFds == {f \in Fds : sock[f] = None}

\* accept4 takes a connection unless the descriptors are used up; TcpConn
\* registers it.
HandleAccept ==
    /\ pc = "events" /\ Accept \in batch
    /\ batch' = batch \ {Accept}
    /\ IF FreeFds = {}
       THEN UNCHANGED <<connecting, acceptVars, sock, interest>>
       ELSE LET c == accepted + 1
                f == CHOOSE g \in FreeFds : \A h \in FreeFds : g <= h
            IN  /\ connecting' = connecting - 1
                /\ accepted' = c /\ fd' = [fd EXCEPT ![c] = f]
                /\ sock' = [sock EXCEPT ![f] = c]
                /\ interest' = [interest EXCEPT ![f] = [ptr |-> c, out |-> FALSE]]
    /\ UNCHANGED <<arrived, peer, peerSteps, room, delivered, closed, output, sent, inVars,
                   pc, deadline, cur, now, timerVars>>

\* The part of HandleIO that is next for the event e.
After(done, e) ==
    CASE done = "io" /\ e.in                      -> "read"
      [] done \in {"io", "read"} /\ e.out         -> "write"
      [] done \in {"io", "read", "write"} /\ e.hup -> "close"
      [] OTHER                                    -> "events"

\* HandleIO that looks whether its descriptor is open, not whether it is still
\* its own.
HandleIOAnyway(e) ==
    /\ pc = "events" /\ e \in batch /\ e.ptr # None
    /\ batch' = batch \ {e}
    /\ cur' = IF sock[fd[e.ptr]] = None THEN None ELSE e
    /\ pc' = IF sock[fd[e.ptr]] = None THEN "events" ELSE After("io", e)
    /\ UNCHANGED <<peerVars, outVars, inVars, acceptVars, deadline, now, timerVars>>

\* HandleIO: nothing is done for a connection that was closed since epoll_wait
\* returned.
HandleIO(e) ==
    /\ pc = "events" /\ e \in batch /\ e.ptr # None
    /\ batch' = batch \ {e}
    /\ cur' = IF closed[e.ptr] THEN None ELSE e
    /\ pc' = IF closed[e.ptr] THEN "events" ELSE After("io", e)
    /\ UNCHANGED <<peerVars, outVars, inVars, acceptVars, deadline, now, timerVars>>

\* Go on with the event, or be done with it.
Proceed(done) ==
    /\ pc' = After(done, cur)
    /\ cur' = IF After(done, cur) = "events" THEN None ELSE cur

Unread(s) == arrived[s] - received[s]

\* Recv and its three outcomes.  (A reset connection may still have bytes to be
\* read.)  n is a size_t, so that a failed readv, which returns -1, is taken for
\* more bytes than there can be: resize throws.
HandleRead ==
    LET c == cur.ptr
        s == sock[fd[c]]
        most == GetFreeSize(input[c]) + ExtraSize
        n == IF Unread(s) < most THEN Unread(s) ELSE most
    IN  /\ pc = "read"
        /\ \/ /\ n > 0
              /\ input' = [input EXCEPT ![c] = Recv(@, Bytes(s, received[s] + 1, received[s] + n))]
              /\ received' = [received EXCEPT ![s] = @ + n]
              /\ pc' = "callback"
              /\ UNCHANGED <<outVars, consumed, cur>>
           \/ /\ peer[s] = "shut" /\ n = 0
              /\ Close(c)
              /\ Proceed("read")
              /\ UNCHANGED <<room, delivered, output, sent, inVars>>
           \/ /\ peer[s] = "reset" \/ (peer[s] = "open" /\ n = 0)
              /\ pc' = "ended"
              /\ UNCHANGED <<outVars, inVars, cur>>
        /\ UNCHANGED <<peerVars, acceptVars, deadline, batch, now, timerVars>>

\* GetDataUntilCrLf takes a line and its end, GetAllData everything.
Take(c, n) ==
    /\ input' = [input EXCEPT ![c] = ReadCompleted(@, n)]
    /\ consumed' = [consumed EXCEPT ![c] = @ + n]

GetDataUntilCrLf(c) ==
    LET Is(char) == {<<c, n>> : n \in {m \in DOMAIN Input : Input[m] = char}}
        lines == LinesEnding(input[c], Is("cr"), Is("lf"))
    IN  IF lines = {} THEN UNCHANGED <<input, consumed>>
        ELSE Take(c, 2 + CHOOSE n \in lines : \A m \in lines : n <= m)

\* The read callback.
ReadCallback ==
    /\ pc = "callback"
    /\ GetDataUntilCrLf(cur.ptr) \/ Take(cur.ptr, GetActiveSize(input[cur.ptr]))
    /\ MaySend
    /\ MayUseTimers(None)
    /\ Proceed("read")
    /\ UNCHANGED <<peerVars, received, acceptVars, deadline, batch, now, fired>>

\* EPOLLOUT stays on when everything has been sent.
HandleWriteStaysOn ==
    /\ pc = "write"
    /\ \E n \in 0..Len(output[cur.ptr]) :
          LET left == SubSeq(output[cur.ptr], n + 1, Len(output[cur.ptr]))
          IN  /\ ~closed[cur.ptr] /\ Transmit(cur.ptr, output[cur.ptr], left)
              /\ output' = [output EXCEPT ![cur.ptr] = left]
    /\ Proceed("write")
    /\ UNCHANGED <<interest, closed, sock, sent, peerVars, inVars, acceptVars, deadline, batch,
                   now, timerVars>>

\* HandleWrite.  If the read before it closed the connection, send fails with
\* EBADF and Close returns at once.
HandleWrite ==
    LET c == cur.ptr
    IN  /\ pc = "write"
        /\ \/ closed[c] /\ UNCHANGED <<outVars>>
           \/ ~closed[c] /\ SendFails(c) /\ Close(c) /\ UNCHANGED <<room, delivered, output, sent>>
           \/ /\ ~closed[c]
              /\ \E n \in 0..Len(output[c]) :
                    LET left == SubSeq(output[c], n + 1, Len(output[c]))
                    IN  /\ Transmit(c, output[c], left)
                        /\ output' = [output EXCEPT ![c] = left]
                        /\ IF left = <<>> THEN WatchWrite(c, FALSE) ELSE UNCHANGED interest
              /\ UNCHANGED <<closed, sock, sent>>
        /\ Proceed("write")
        /\ UNCHANGED <<peerVars, inVars, acceptVars, deadline, batch, now, timerVars>>

\* The end of HandleIO.
HandleHangup ==
    /\ pc = "close"
    /\ Close(cur.ptr)
    /\ Proceed("close")
    /\ UNCHANGED <<room, delivered, output, sent, peerVars, inVars, acceptVars, deadline, batch,
                   now, timerVars>>

------------------------------------------------------------------------------
(* The peers and the clock.                                                *)

Connect ==
    /\ pc # "ended" /\ accepted + connecting < MaxConns
    /\ connecting' = connecting + 1
    /\ UNCHANGED <<outVars, inVars, acceptVars, loopVars, now, timerVars, arrived, peer, peerSteps>>

PeerStep(c) ==
    /\ peerSteps < MaxPeerSteps /\ peerSteps' = peerSteps + 1
    /\ pc # "ended" /\ ~closed[c] /\ peer[c] # "reset"
    /\ UNCHANGED <<connecting, sock, interest, delivered, closed, output, sent,
                   inVars, acceptVars, loopVars, now, timerVars>>

PeerSends(c) ==
    /\ PeerStep(c) /\ peer[c] = "open"
    /\ \E n \in (arrived[c] + 1)..Len(Input) : arrived' = [arrived EXCEPT ![c] = n]
    /\ UNCHANGED <<peer, room>>

PeerReads(c) ==
    /\ PeerStep(c) /\ room[c] < SendRoom
    /\ room' = [room EXCEPT ![c] = SendRoom]
    /\ UNCHANGED <<arrived, peer>>

PeerEnds(c, how) ==
    /\ PeerStep(c) /\ peer[c] # how
    /\ peer' = [peer EXCEPT ![c] = how]
    /\ UNCHANGED <<arrived, room>>

Tick ==
    /\ pc # "ended" /\ now < MaxNow /\ now' = now + 1
    /\ UNCHANGED <<peerVars, outVars, inVars, acceptVars, loopVars, timerVars>>

Environment ==
    \/ Connect \/ Tick
    \/ \E c \in 1..accepted : \/ PeerSends(c) \/ PeerReads(c)
                             \/ \E how \in {"shut", "reset"} : PeerEnds(c, how)

Loop ==
    \/ Poll \/ PollReturns \/ EventsHandled \/ HandleAccept \/ (\E e \in batch : HandleIO(e))
    \/ HandleRead \/ ReadCallback \/ HandleWrite \/ HandleHangup \/ HandleTimeout

Next == Loop \/ PollInterrupted \/ Environment

Spec == Init /\ [][Next]_vars

\* The loop runs, time passes, and signals do not interrupt every wait for
\* ever; nothing is assumed of the peers.
FairSpec ==
    Spec /\ WF_vars(Loop) /\ SF_vars(PollReturns) /\ WF_vars(Tick)

------------------------------------------------------------------------------
(* Properties                                                              *)

\* A connection has something to send exactly when EPOLLOUT is on for its
\* socket, and a descriptor calls the handler of the connection it belongs to:
\* nothing waits for an event that will not come, and the loop does not spin.
OutputWatched ==
    /\ \A c \in 1..accepted : ~closed[c] => interest[fd[c]] = [ptr |-> c, out |-> output[c] # <<>>]
    /\ \A f \in Fds : interest[f].ptr = sock[f]

\* What reaches a peer is what was sent on its connection, every byte once and
\* in order, however sends, partial writes and closes interleave; what has not
\* reached it yet is in the output buffer.
SentInOrder ==
    \A c \in Conns :
        IF closed[c] THEN IsPrefix(delivered[c], Bytes(c, 1, sent[c]))
        ELSE delivered[c] \o output[c] = Bytes(c, 1, sent[c])

\* The active bytes of a connection's buffer are those of its own stream that
\* were read and not taken yet, whether they came into the buffer directly or
\* over the extra area, and however the buffer was moved and resized.  The
\* bytes of a connection that took over a descriptor never go to its last owner.
InputInOrder ==
    \A c \in Conns : GetAllData(input[c]) = Bytes(c, consumed[c] + 1, received[c])

Pending == {timerMap[i][2] : i \in DOMAIN timerMap}

\* Timers run in the order of their times and, at the same time, in the order
\* in which they were added, none before its time; each is pending, has run or
\* was deleted, and only one of these.
TimersInOrder ==
    /\ \A i, j \in DOMAIN fired : i < j =>
          \/ fired[i][1] < fired[j][1]
          \/ fired[i][1] = fired[j][1] /\ fired[i][2] < fired[j][2]
    /\ \A i \in DOMAIN fired : fired[i][1] <= now
    /\ LET ran == {fired[i][2] : i \in DOMAIN fired}
       IN  /\ Pending \cup ran \cup deleted = 1..timers
           /\ Pending \cap ran = {} /\ Pending \cap deleted = {} /\ ran \cap deleted = {}

\* A timer that is added is run or deleted at some time, as main.cc:22 expects
\* of AddTimeout, whether or not there is traffic.
TimersRun == \A t \in 1..MaxTimers : t \in Pending ~> t \notin Pending \/ pc = "ended"

==============================================================================
