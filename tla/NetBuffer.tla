------------------------------ MODULE NetBuffer ------------------------------
(***************************************************************************)
(* The server of network_buffer_design: EventLoop without timers,          *)
(* TcpServer, TcpConn and MessageBuffer.  It differs from the server of    *)
(* network_timer (NetServer) in that Close empties io_handler_, the        *)
(* function object the loop calls through the pointer it gave to epoll,    *)
(* usually while that very object is being called.  The application is the *)
(* one of main_msgbuf.cc: its callback takes one line and answers on the   *)
(* same connection.                                                        *)
(*                                                                         *)
(* NetServer follows the bytes themselves; here they are counted, and the  *)
(* buffers are their positions.                                            *)
(***************************************************************************)
EXTENDS Integers, Sequences, FiniteSetsExt

CONSTANTS
    BufConns,    \* bound: connections in one behaviour
    BufSize,     \* initial size of MessageBuffer, 4096 in the code
    BufExtra,    \* size of the extra area of Recv, 65535 in the code
    BufStream,   \* bytes a peer sends in all
    BufLineEnds, \* the numbers of those that end a line (the \n behind a \r)
    BufMessage,  \* bytes of the answer
    BufRoom,     \* bytes the kernel takes until the peer reads
    BufSteps     \* bound: what the peers do after connecting, in one behaviour

VARIABLES
    conn,        \* sequence of the connections accepted, in that order
    net,         \* connection -> [arrived, room, state]: its socket and its peer
    waiting,     \* connections not accepted yet
    batch,       \* events of epoll_wait not handled yet
    cur,         \* the event being handled, of connection 0 if none is
    pc,          \* "wait", "events", "read", "callback", "write", "close", and
                 \* "threw" (a failed read), "empty" (an empty function was called)
    steps        \* what the peers have done

vars == <<conn, net, waiting, batch, cur, pc, steps>>

Conns == 1..BufConns
NoEvent == [ptr |-> 0, in |-> FALSE, out |-> FALSE, hup |-> FALSE]
Listener == [ptr |-> -1, in |-> TRUE, out |-> FALSE, hup |-> FALSE]

------------------------------------------------------------------------------
(* MessageBuffer.                                                          *)

MessageBuffer(size) == [size |-> size, rpos |-> 0, wpos |-> 0]
GetActiveSize(b) == b.wpos - b.rpos
GetFreeSize(b) == b.size - b.wpos

Normalize(b) == [b EXCEPT !.rpos = 0, !.wpos = GetActiveSize(b)]

EnsureFreeSpace(b, size) ==
    IF b.size - GetActiveSize(b) < size
    THEN [Normalize(b) EXCEPT !.size = @ + Max({size, @ \div 2})]
    ELSE IF GetFreeSize(b) < size THEN Normalize(b) ELSE b

WriteCompleted(b, size) == [b EXCEPT !.wpos = @ + size]
ReadCompleted(b, size) == [b EXCEPT !.rpos = @ + size]
Write(b, size) == IF size > 0 THEN WriteCompleted(EnsureFreeSpace(b, size), size) ELSE b

\* The bytes in the extra area are counted when the free room is used up: what
\* the comment at line 175 warns of.
RecvCountedLate(b, n) ==
    IF n <= GetFreeSize(b) THEN WriteCompleted(b, n)
    ELSE LET full == WriteCompleted(b, GetFreeSize(b)) IN Write(full, n - GetFreeSize(full))

\* Recv, when readv has read n bytes.
Recv(b, n) ==
    IF n <= GetFreeSize(b) THEN WriteCompleted(b, n)
    ELSE Write(WriteCompleted(b, GetFreeSize(b)), n - GetFreeSize(b))

\* GetDataUntilCRLF: the ends of the lines that are in the buffer whole.
LinesIn(k) == {e \in BufLineEnds : k.consumed + 2 <= e /\ e <= k.consumed + GetActiveSize(k.buf)}

------------------------------------------------------------------------------
(* TcpConn, as functions of a connection.                                  *)

TcpConn == [handler |-> "set", closed |-> FALSE, interest |-> {"in"}, output |-> 0,
            sent |-> 0, delivered |-> 0, buf |-> MessageBuffer(BufSize),
            received |-> 0, consumed |-> 0]

Close(k) ==
    IF k.closed THEN k
    ELSE [k EXCEPT !.closed = TRUE, !.interest = {}, !.handler = "empty"]

EnableWrite(k) == [k EXCEPT !.interest = {"in", "out"}]
DisableWrite(k) == [k EXCEPT !.interest = {"in"}]

\* Send, when ::send takes n bytes or, if the peer has reset, fails.
Send(k, n, fails) ==
    LET taken == [k EXCEPT !.sent = @ + BufMessage, !.output = @ + BufMessage]
        rest == [taken EXCEPT !.delivered = @ + n, !.output = @ - n]
    IN  IF k.closed THEN k
        ELSE IF k.output > 0 THEN EnableWrite(taken)
        ELSE IF fails THEN Close(k)
        ELSE IF n < BufMessage THEN EnableWrite(rest) ELSE rest

GetDataUntilCrLf(k) ==
    IF LinesIn(k) = {} THEN k
    ELSE LET e == Min(LinesIn(k))
         IN  [k EXCEPT !.buf = ReadCompleted(@, e - k.consumed), !.consumed = e]

------------------------------------------------------------------------------
(* EventLoop and the handlers.                                             *)

Init ==
    /\ conn = <<>> /\ waiting = 0 /\ steps = 0
    /\ net = [c \in Conns |-> [arrived |-> 0, room |-> BufRoom, state |-> "open"]]
    /\ batch = {} /\ cur = NoEvent /\ pc = "wait"

Events(c) ==
    LET k == conn[c]
    IN  [ptr |-> c,
         in  |-> "in" \in k.interest /\ (net[c].arrived > k.received \/ net[c].state # "open"),
         out |-> "out" \in k.interest /\ (net[c].room > 0 \/ net[c].state = "reset"),
         hup |-> k.interest # {} /\ net[c].state # "open"]

Ready == {e \in {Events(c) : c \in DOMAIN conn} : e.in \/ e.out \/ e.hup}
           \cup (IF waiting > 0 THEN {Listener} ELSE {})

Poll ==
    /\ pc = "wait" /\ Ready # {}
    /\ batch' = Ready /\ pc' = "events"
    /\ UNCHANGED <<conn, net, waiting, cur, steps>>

BatchDone ==
    /\ pc = "events" /\ batch = {}
    /\ pc' = "wait" /\ UNCHANGED <<conn, net, waiting, batch, cur, steps>>

HandleAccept ==
    /\ pc = "events" /\ Listener \in batch
    /\ batch' = batch \ {Listener}
    /\ waiting' = waiting - 1
    /\ conn' = Append(conn, TcpConn)
    /\ UNCHANGED <<net, cur, pc, steps>>

\* What HandleIO does next for its event.
After(done, e) ==
    CASE done = "io" /\ e.in                       -> "read"
      [] done \in {"io", "read"} /\ e.out          -> "write"
      [] done \in {"io", "read", "write"} /\ e.hup -> "close"
      [] OTHER                                     -> "events"

Proceed(done) ==
    /\ pc' = After(done, cur)
    /\ cur' = IF After(done, cur) = "events" THEN NoEvent ELSE cur

\* The loop calls the function object; an empty one throws.
HandleIO(e) ==
    /\ pc = "events" /\ e \in batch \ {Listener}
    /\ batch' = batch \ {e}
    /\ pc' = IF conn[e.ptr].handler = "empty" THEN "empty"
             ELSE IF conn[e.ptr].closed THEN "events" ELSE After("io", e)
    /\ cur' = IF pc' \in {"events", "empty"} THEN NoEvent ELSE e
    /\ UNCHANGED <<conn, net, waiting, steps>>

HandleRead ==
    LET c == cur.ptr
        k == conn[c]
        n == Min({net[c].arrived - k.received, GetFreeSize(k.buf) + BufExtra})
    IN  /\ pc = "read"
        /\ \/ /\ n > 0
              /\ conn' = [conn EXCEPT ![c] = [k EXCEPT !.buf = Recv(@, n), !.received = @ + n]]
              /\ pc' = "callback" /\ UNCHANGED cur
           \/ /\ n = 0 /\ net[c].state = "shut"
              /\ conn' = [conn EXCEPT ![c] = Close(k)]
              /\ Proceed("read")
           \/ /\ net[c].state = "reset"
              /\ pc' = "threw" /\ UNCHANGED <<conn, cur>>
        /\ UNCHANGED <<net, waiting, batch, steps>>

\* ::send takes what there is room for.
Takes(c, n) == n = Min({net[c].room, IF pc = "write" THEN conn[c].output ELSE BufMessage})

ReadCallback ==
    LET c == cur.ptr
        direct == ~conn[c].closed /\ conn[c].output = 0 /\ net[c].state # "reset"
    IN  /\ pc = "callback"
        /\ \E n \in 0..BufMessage :
              /\ Takes(c, n)
              /\ conn' = [conn EXCEPT ![c] = Send(GetDataUntilCrLf(@), n, net[c].state = "reset")]
              /\ net' = IF direct THEN [net EXCEPT ![c].room = @ - n] ELSE net
        /\ Proceed("read")
        /\ UNCHANGED <<waiting, batch, steps>>

\* After a read that closed the connection send fails with EBADF.
HandleWrite ==
    LET c == cur.ptr
        k == conn[c]
    IN  /\ pc = "write"
        /\ \/ k.closed /\ UNCHANGED <<conn, net>>
           \/ /\ ~k.closed /\ net[c].state = "reset"
              /\ conn' = [conn EXCEPT ![c] = Close(k)] /\ UNCHANGED net
           \/ /\ ~k.closed /\ net[c].state # "reset"
              /\ \E n \in 0..BufRoom :
                    /\ Takes(c, n)
                    /\ LET left == [k EXCEPT !.output = @ - n, !.delivered = @ + n]
                       IN  conn' = [conn EXCEPT ![c] =
                                      IF left.output = 0 THEN DisableWrite(left) ELSE left]
                    /\ net' = [net EXCEPT ![c].room = @ - n]
        /\ Proceed("write")
        /\ UNCHANGED <<waiting, batch, steps>>

HandleHangup ==
    /\ pc = "close"
    /\ conn' = [conn EXCEPT ![cur.ptr] = Close(@)]
    /\ Proceed("close")
    /\ UNCHANGED <<net, waiting, batch, steps>>

------------------------------------------------------------------------------
(* The peers, external.                                                    *)

Connect ==
    /\ pc \notin {"threw", "empty"} /\ Len(conn) + waiting < BufConns
    /\ waiting' = waiting + 1
    /\ UNCHANGED <<conn, net, batch, cur, pc, steps>>

PeerActs(c) ==
    LET p == net[c]
    IN  /\ pc \notin {"threw", "empty"} /\ p.state # "reset" /\ ~conn[c].closed
        /\ steps < BufSteps /\ steps' = steps + 1
        /\ \/ \E a \in (p.arrived + 1)..BufStream :
                 p.state = "open" /\ net' = [net EXCEPT ![c].arrived = a]
           \/ p.room < BufRoom /\ net' = [net EXCEPT ![c].room = BufRoom]
           \/ \E s \in {"shut", "reset"} \ {p.state} : net' = [net EXCEPT ![c].state = s]
        /\ UNCHANGED <<conn, waiting, batch, cur, pc>>

Next ==
    \/ Poll \/ BatchDone \/ HandleAccept \/ \E e \in batch : HandleIO(e)
    \/ HandleRead \/ ReadCallback \/ HandleWrite \/ HandleHangup
    \/ Connect \/ \E c \in DOMAIN conn : PeerActs(c)

Spec == Init /\ [][Next]_vars

------------------------------------------------------------------------------
(* Property                                                                *)

\* The loop never calls a function object that Close has emptied.  The buffer
\* holds exactly the bytes that were read and not taken, inside its memory,
\* whichever way they came in and however it was moved and resized.  Every byte
\* sent is at the peer or in the output buffer, and EPOLLOUT is on exactly as
\* long as there is one.
BufferServerSound ==
    /\ pc # "empty"
    /\ \A c \in DOMAIN conn :
          LET k == conn[c]
          IN  /\ GetActiveSize(k.buf) = k.received - k.consumed
              /\ 0 <= k.buf.rpos /\ k.buf.rpos <= k.buf.wpos /\ k.buf.wpos <= k.buf.size
              /\ k.delivered + k.output = k.sent
              /\ ~k.closed => ("out" \in k.interest <=> k.output > 0)
==============================================================================
