-------------------------------- MODULE ConnIo --------------------------------
(***************************************************************************)
(* The byte streams under connsvr: Epoller, EventModule's handlers of its    *)
(* events, and the buffers of a Connection.  A client's bytes come in pieces *)
(* and are put together to frames; a frame for a client may leave in pieces, *)
(* the rest of it when epoll reports the socket writable.                  *)
(*                                                                         *)
(* Bytes are pairs <<n, i>>, the i-th part of frame n, counted for each      *)
(* connection on its way in, and over all on its way out.  All frames have   *)
(* Size parts; the first one holds the length, and one part stands for four  *)
(* bytes at least.  Of the kernel's buffer for a client only the fill counts. *)
(***************************************************************************)
EXTENDS Links

CONSTANTS ConnPoolSize, MaxConns,  \* as in ConnSvr
          MaxEvents,    \* max_events_size_
          Size,         \* parts of a frame
          PkgBufSize,   \* PKG_BUF_SIZE, in parts
          SocketBuf,    \* what the kernel takes for a client, in parts
          MaxMessages   \* bound: messages of gamesvr

ASSUME ConnIoAssumption ==
    /\ ConnPoolSize \in Nat \ {0} /\ MaxConns \in Nat /\ MaxEvents \in Nat
    /\ Size \in Nat \ {0, 1} /\ PkgBufSize \in Nat /\ Size <= PkgBufSize
    /\ SocketBuf \in Nat \ {0} /\ MaxMessages \in Nat

VARIABLES
    status,       \* "up" or "crashed"
    conn_map,     \* descriptor -> Connection, with the number of the connection
    file_events,  \* file_events_ of Epoller: descriptor -> FileEvent
    round,        \* what is left of the event Loop handles: <<fd, flag>>
    sockets,      \* descriptor -> the kernel's buffers and the client's end
    accepted,     \* connections so far
    delivered,    \* as in ConnSvr
    requested,    \* connection -> frames its client has sent
    forwarded,    \* connection -> what connsvr took for frames, in order
    wire,         \* connection -> the bytes send() took for it
    messages      \* messages of gamesvr so far

io == <<status, conn_map, file_events, round, sockets, accepted, delivered,
        requested, forwarded, wire, messages>>
vars == <<links, io>>

Fds == 1..ConnPoolSize
Conns == 1..MaxConns

Frame(n) == [i \in 1..Size |-> <<n, i>>]
Least(a, b) == IF a <= b THEN a ELSE b

NoEvent == [mask |-> {}, write_proc |-> FALSE, client_data |-> "NULL"]
NoSocket == [in |-> <<>>, out |-> 0, end |-> "none"]

Init == /\ LinksInit
        /\ status = "up"
        /\ conn_map = [fd \in {} |-> 0]
        /\ file_events = [fd \in Fds |-> NoEvent]
        /\ round = <<>>
        /\ sockets = [fd \in Fds |-> NoSocket]
        /\ accepted = 0 /\ delivered = {}
        /\ requested = [c \in Conns |-> 0]
        /\ forwarded = [c \in Conns |-> <<>>]
        /\ wire = [c \in Conns |-> <<>>]
        /\ messages = 0

Idle == status = "up" /\ round = <<>>
Flag(flag) == status = "up" /\ round # <<>> /\ Head(round)[2] = flag
Fd == Head(round)[1]
Space(fd) == SocketBuf - sockets[fd].out

-----------------------------------------------------------------------------
(* Epoller and ConnMgrModule *)

\* AddEvent: the descriptor has one client_data for both masks.
Added(e, flag, arg) == [mask |-> e.mask \cup {flag},
                        write_proc |-> e.write_proc \/ flag = "WRITE",
                        client_data |-> arg]
AddEvent(fd, flag, arg) ==
    file_events' = IF fd >= MaxEvents THEN file_events
                   ELSE [file_events EXCEPT ![fd] = Added(@, flag, arg)]

DelEvent(fd, flags) == file_events' = [file_events EXCEPT ![fd].mask = @ \ flags]
ClearEvent(fd) == DelEvent(fd, {"READ", "WRITE"})

\* ReleaseConn and ClearEvent, as the handler that has arg for its Epoller: the
\* one closes the descriptor, the other uses arg.
Release(fd, arg) ==
    /\ conn_map' = [f \in DOMAIN conn_map \ {fd} |-> conn_map[f]]
    /\ sockets' = [sockets EXCEPT ![fd] = NoSocket]
    /\ IF arg = "NULL" THEN status' = "crashed" /\ UNCHANGED file_events
                       ELSE ClearEvent(fd) /\ UNCHANGED status

\* DoTcpAccept: the lowest free descriptor.
DoTcpAccept(fd) ==
    /\ Idle
    /\ accepted < MaxConns
    /\ Cardinality(DOMAIN conn_map) < ConnPoolSize
    /\ fd \notin DOMAIN conn_map
    /\ \A f \in Fds \ DOMAIN conn_map : fd <= f
    /\ accepted' = accepted + 1
    /\ conn_map' = [f \in DOMAIN conn_map \cup {fd} |->
           IF f = fd THEN [player_idx |-> 0, conn |-> accepted + 1,
                           recv_buf |-> <<>>, send_buf |-> <<>>]
           ELSE conn_map[f]]
    /\ sockets' = [sockets EXCEPT ![fd] = [NoSocket EXCEPT !.end = "open"]]
    /\ AddEvent(fd, "READ", "epoller")
    /\ UNCHANGED <<links, status, round, delivered, requested, forwarded, wire, messages>>

\* epoll_wait reports an event on fd; Loop handles its flags in this order.
EpollWait(fd) ==
    LET s == sockets[fd]
        reset == s.end = "reset"
        in == "READ" \in file_events[fd].mask /\ (s.in # <<>> \/ s.end \in {"fin", "reset"})
        out == "WRITE" \in file_events[fd].mask /\ (Space(fd) > 0 \/ reset)
        flags == (IF in THEN <<<<fd, "IN">>>> ELSE <<>>)
                   \o (IF out THEN <<<<fd, "OUT">>>> ELSE <<>>)
                   \o (IF reset THEN <<<<fd, "ERR">>, <<fd, "HUP">>>> ELSE <<>>)
    IN  /\ Idle
        /\ fd \in DOMAIN conn_map /\ file_events[fd].mask # {}
        /\ flags # <<>>
        /\ round' = flags
        /\ UNCHANGED <<links, status, conn_map, file_events, sockets, accepted,
                       delivered, requested, forwarded, wire, messages>>

-----------------------------------------------------------------------------
(* DoTcpRead *)

Arg == file_events[Fd].client_data

\* recv fails, once what came before the reset has been read.
RecvFails == /\ Flag("IN")
             /\ sockets[Fd].end = "reset" /\ sockets[Fd].in = <<>>
             /\ Release(Fd, Arg)
             /\ round' = Tail(round)
             /\ UNCHANGED <<links, accepted, delivered, requested, forwarded, wire,
                            messages>>

\* Mutant: the test in SendConnStop is forgotten.
MutRecvEnd == /\ Flag("IN")
              /\ sockets[Fd].end = "fin" /\ sockets[Fd].in = <<>>
              /\ LET c == conn_map[Fd]
                 IN  c2g' = Push(c2g, <<ToGame("STOP", 0, c.player_idx, 0, c.conn)>>)
              /\ Release(Fd, Arg)
              /\ round' = Tail(round)
              /\ UNCHANGED <<g2c, g2d, d2g, asked, answered, accepted, delivered,
                             requested, forwarded, wire, messages>>

\* ... finds the end of the stream: SendConnStop.
RecvEnd == /\ Flag("IN")
           /\ sockets[Fd].end = "fin" /\ sockets[Fd].in = <<>>
           /\ LET c == conn_map[Fd]
              IN  c2g' = IF c.player_idx = 0 THEN c2g
                         ELSE Push(c2g, <<ToGame("STOP", 0, c.player_idx, 0, c.conn)>>)
           /\ Release(Fd, Arg)
           /\ round' = Tail(round)
           /\ UNCHANGED <<g2c, g2d, d2g, asked, answered, accepted, delivered,
                          requested, forwarded, wire, messages>>

\* ... takes n bytes, which AddRecvData appends, if they fit.
RecvData(n) ==
    /\ Flag("IN")
    /\ LET all == sockets[Fd].in
           buf == conn_map[Fd].recv_buf \o SubSeq(all, 1, n)
       IN  /\ n \in 1..Least(Len(all), PkgBufSize)
           /\ IF Len(buf) > PkgBufSize
              THEN Release(Fd, Arg) /\ round' = Tail(round)
              ELSE /\ conn_map' = [conn_map EXCEPT ![Fd].recv_buf = buf]
                   /\ sockets' = [sockets EXCEPT ![Fd].in = SubSeq(all, n + 1, Len(all))]
                   /\ round' = <<<<Fd, "FRAMES">>>> \o Tail(round)
                   /\ UNCHANGED <<status, file_events>>
    /\ UNCHANGED <<links, accepted, delivered, requested, forwarded, wire, messages>>

\* There is more than the length, and as much as the length says.
IsRecvProtoReady(buf) == Len(buf) > 1 /\ Len(buf) >= Size

RemoveRecvProto(buf) == SubSeq(buf, Size + 1, Len(buf))

\* A frame goes to gamesvr, or the connection goes.  (Lengths are right: one of
\* 0 or 1 would make msg_len negative, and memcpy would end connsvr.)
ForwardFrame(body) ==
    /\ Flag("FRAMES")
    /\ LET c == conn_map[Fd]
           cmd == IF c.player_idx = 0 THEN "START" ELSE "PROC"
       IN  /\ IsRecvProtoReady(c.recv_buf)
           /\ asked' = Append(asked, [conn |-> c.conn, body |-> body])
           /\ answered' = Append(answered, 0)
           /\ IF Len(c2g) < Hwm
              THEN /\ c2g' = Append(c2g, ToGame(cmd, Fd, c.player_idx,
                                                Len(asked) + 1, c.conn))
                   /\ forwarded' = [forwarded EXCEPT ![c.conn] =
                                       Append(@, SubSeq(c.recv_buf, 1, Size))]
                   /\ conn_map' = [conn_map EXCEPT ![Fd].recv_buf = RemoveRecvProto(@)]
                   /\ UNCHANGED <<round, status, file_events, sockets>>
              ELSE /\ Release(Fd, Arg)
                   /\ round' = Tail(round)
                   /\ UNCHANGED <<c2g, forwarded>>
    /\ UNCHANGED <<g2c, g2d, d2g, accepted, delivered, requested, wire, messages>>

NoFrame == /\ Flag("FRAMES")
           /\ ~IsRecvProtoReady(conn_map[Fd].recv_buf)
           /\ round' = Tail(round)
           /\ UNCHANGED <<links, status, conn_map, file_events, sockets, accepted,
                          delivered, requested, forwarded, wire, messages>>

-----------------------------------------------------------------------------
(* DoTcpWrite *)

Writable == Flag("OUT") \/ Flag("ERR") \/ Flag("HUP")

\* Loop calls write_proc_, which is NULL if fd was never watched for writing.
NoWriteProc == /\ Writable
               /\ ~file_events[Fd].write_proc
               /\ status' = "crashed"
               /\ UNCHANGED <<links, conn_map, file_events, round, sockets, accepted,
                              delivered, requested, forwarded, wire, messages>>

\* An earlier handler of this event has released the connection.
WriteNoConn == /\ Writable
               /\ file_events[Fd].write_proc
               /\ Fd \notin DOMAIN conn_map
               /\ round' = Tail(round)
               /\ UNCHANGED <<links, status, conn_map, file_events, sockets, accepted,
                              delivered, requested, forwarded, wire, messages>>

\* send fails.
WriteFails == /\ Writable
              /\ file_events[Fd].write_proc
              /\ Fd \in DOMAIN conn_map /\ sockets[Fd].end = "reset"
              /\ Release(Fd, Arg)
              /\ round' = Tail(round)
              /\ UNCHANGED <<links, accepted, delivered, requested, forwarded, wire,
                             messages>>

\* Mutant: what was sent stays in the buffer.
MutRemoveSendData(buf, n) == buf
RemoveSendData(buf, n) == SubSeq(buf, n + 1, Len(buf))

\* send takes what there is space for; when that is all, DelEvent.
WriteSends ==
    /\ Writable
    /\ file_events[Fd].write_proc
    /\ Fd \in DOMAIN conn_map /\ sockets[Fd].end # "reset"
    /\ LET c == conn_map[Fd]
           n == Least(Space(Fd), Len(c.send_buf))
       IN  /\ wire' = [wire EXCEPT ![c.conn] = @ \o SubSeq(c.send_buf, 1, n)]
           /\ sockets' = [sockets EXCEPT ![Fd].out = @ + n]
           /\ conn_map' = [conn_map EXCEPT ![Fd].send_buf = RemoveSendData(@, n)]
           /\ IF n < Len(c.send_buf) THEN UNCHANGED <<status, file_events>>
              ELSE IF Arg = "NULL" THEN status' = "crashed" /\ UNCHANGED file_events
              ELSE DelEvent(Fd, {"WRITE"}) /\ UNCHANGED status
    /\ round' = Tail(round)
    /\ UNCHANGED <<links, accepted, delivered, requested, forwarded, messages>>

-----------------------------------------------------------------------------
(* ZmqReadLoop *)

Message == Head(g2c)
To == Message.conn_fd

ZmqReadNoConn == /\ Idle /\ g2c # <<>>
                 /\ To \notin DOMAIN conn_map
                 /\ g2c' = Tail(g2c)
                 /\ UNCHANGED <<c2g, g2d, d2g, asked, answered, io>>

\* send fails; or AddSendData, for want of space.
ZmqReadSendFail ==
    /\ Idle /\ g2c # <<>>
    /\ To \in DOMAIN conn_map
    /\ LET buf == conn_map[To].send_buf
       IN  IF buf = <<>> THEN sockets[To].end = "reset"
           ELSE Len(buf) + Size > PkgBufSize
    /\ Release(To, "epoller")
    /\ g2c' = Tail(g2c)
    /\ UNCHANGED <<c2g, g2d, d2g, asked, answered, round, accepted, delivered,
                   requested, forwarded, wire, messages>>

\* What becomes of the connection behind a message: its player, or its end.
Afterwards(c) ==
    IF Message.cmd = "STOP"
    THEN /\ conn_map' = [f \in DOMAIN conn_map \ {To} |-> conn_map[f]]
         /\ sockets' = [sockets EXCEPT ![To] = NoSocket]
    ELSE conn_map' = [conn_map EXCEPT ![To] =
             IF Message.cmd = "START" \/ c.player_idx = 0
             THEN [c EXCEPT !.player_idx = Message.player_idx] ELSE c]

\* The events of the descriptor behind a message, with AddEvent and without it.
\* Mutant: AddEvent is forgotten.
MutWatch(arg) == IF Message.cmd = "STOP" THEN ClearEvent(To) ELSE UNCHANGED file_events
Watch(arg) ==
    IF Message.cmd = "STOP" /\ To < MaxEvents
    THEN file_events' = [file_events EXCEPT ![To] = [Added(@, "WRITE", arg) EXCEPT !.mask = {}]]
    ELSE AddEvent(To, "WRITE", arg)
Unwatched == IF Message.cmd = "STOP" THEN ClearEvent(To) ELSE UNCHANGED file_events

Taken == /\ Idle /\ g2c # <<>>
         /\ To \in DOMAIN conn_map
         /\ g2c' = Tail(g2c)
         /\ delivered' = IF Message.seq = 0 THEN delivered
                         ELSE delivered \cup {<<conn_map[To].conn, Message.seq>>}
         /\ UNCHANGED <<c2g, g2d, d2g, asked, answered, status, round, accepted,
                        requested, forwarded, messages>>

\* Mutant: the whole frame is kept, not the rest.
MutKept(n) == Frame(Message.n)
\* What send did not take of the frame.
Kept(n) == SubSeq(Frame(Message.n), n + 1, Size)

\* Nothing is left to send: send, and AddSendData and AddEvent for the rest.
ZmqReadSend ==
    /\ Taken
    /\ LET c == conn_map[To]
           n == Least(Space(To), Size)
       IN  /\ c.send_buf = <<>> /\ sockets[To].end # "reset" /\ n > 0
           /\ wire' = [wire EXCEPT ![c.conn] = @ \o SubSeq(Frame(Message.n), 1, n)]
           /\ Afterwards([c EXCEPT !.send_buf = Kept(n)])
           /\ Message.cmd # "STOP" => sockets' = [sockets EXCEPT ![To].out = @ + n]
           /\ IF n < Size THEN Watch("epoller") ELSE Unwatched

\* ... send would block: the message is dropped, and client_data is NULL now.
ZmqReadBlocks ==
    /\ Taken
    /\ LET c == conn_map[To]
       IN  /\ c.send_buf = <<>> /\ sockets[To].end # "reset" /\ Space(To) = 0
           /\ Afterwards(c)
           /\ Message.cmd # "STOP" => UNCHANGED sockets
           /\ Watch("NULL")
    /\ UNCHANGED wire

\* Something is left: AddSendData.
ZmqReadAppend ==
    /\ Taken
    /\ LET c == conn_map[To]
       IN  /\ c.send_buf # <<>> /\ Len(c.send_buf) + Size <= PkgBufSize
           /\ Afterwards([c EXCEPT !.send_buf = @ \o Frame(Message.n)])
           /\ Message.cmd # "STOP" => UNCHANGED sockets
           /\ Unwatched
    /\ UNCHANGED wire

-----------------------------------------------------------------------------
(* gamesvr, and the clients. *)

\* gamesvr sends message n; it answers the last request, or no request.
GameSends(cmd, fd) ==
    /\ Len(g2c) < Hwm /\ messages < MaxMessages
    /\ messages' = messages + 1
    /\ LET seq == IF cmd = "START" THEN Len(asked) ELSE 0
       IN  g2c' = Append(g2c, [cmd |-> cmd, conn_fd |-> fd, player_idx |-> 1,
                               seq |-> seq, ret |-> 0, n |-> messages + 1])
    /\ UNCHANGED <<c2g, g2d, d2g, asked, answered, status, conn_map, file_events,
                   round, sockets, accepted, delivered, requested, forwarded, wire>>

GameTakes == /\ c2g # <<>>
             /\ c2g' = Tail(c2g)
             /\ UNCHANGED <<g2c, g2d, d2g, asked, answered, io>>

\* The frames of all clients: the k-th one of connection c is <<c, k>>.
Requests == UNION {{c} \X (1..requested[c]) : c \in Conns}

\* The client on fd sends a frame; closes its end; is gone; reads.
ClientSends(fd) ==
    /\ fd \in DOMAIN conn_map /\ sockets[fd].end = "open"
    /\ Cardinality(Requests) < MaxRequests
    /\ LET c == conn_map[fd].conn
       IN  /\ requested' = [requested EXCEPT ![c] = @ + 1]
           /\ sockets' = [sockets EXCEPT ![fd].in = @ \o Frame(requested[c] + 1)]
    /\ UNCHANGED <<links, status, conn_map, file_events, round, accepted, delivered,
                   forwarded, wire, messages>>

ClientEnds(fd, end) ==
    /\ fd \in DOMAIN conn_map
    /\ \/ end = "fin" /\ "hangup" \in Faults /\ sockets[fd].end = "open"
       \/ end = "reset" /\ "reset" \in Faults /\ sockets[fd].end \in {"open", "fin"}
    /\ sockets' = [sockets EXCEPT ![fd].end = end]
    /\ UNCHANGED <<links, status, conn_map, file_events, round, accepted, delivered,
                   requested, forwarded, wire, messages>>

ClientReads(fd) ==
    /\ fd \in DOMAIN conn_map /\ sockets[fd].end = "open"
    /\ \E left \in 0..sockets[fd].out - 1 :
           sockets' = [sockets EXCEPT ![fd].out = left]
    /\ UNCHANGED <<links, status, conn_map, file_events, round, accepted, delivered,
                   requested, forwarded, wire, messages>>

-----------------------------------------------------------------------------

Handles == \/ RecvFails \/ RecvEnd \/ NoFrame
           \/ \E n \in 1..PkgBufSize : RecvData(n)
           \/ \E body \in Bodies : ForwardFrame(body)
           \/ NoWriteProc \/ WriteNoConn \/ WriteFails \/ WriteSends
ZmqReadLoop == \/ ZmqReadNoConn \/ ZmqReadSendFail
               \/ ZmqReadSend \/ ZmqReadBlocks \/ ZmqReadAppend

Next == \/ \E fd \in Fds : DoTcpAccept(fd) \/ EpollWait(fd)
        \/ Handles \/ ZmqReadLoop
        \/ \E cmd \in {"START", "PROC", "STOP"}, fd \in Fds : GameSends(cmd, fd)
        \/ GameTakes
        \/ \E fd \in Fds : \/ ClientSends(fd) \/ ClientReads(fd)
                           \/ \E end \in {"fin", "reset"} : ClientEnds(fd, end)

Spec == Init /\ [][Next]_vars

\* A round of Loop comes to every descriptor that is ready; a client that has
\* not closed reads.
FairSpec == /\ Spec
            /\ WF_vars(Handles)
            /\ \A fd \in Fds : WF_vars(EpollWait(fd)) /\ WF_vars(ClientReads(fd))

-----------------------------------------------------------------------------
(* Properties *)

\* Whole frames, of messages that go up in number.
Whole(bytes) ==
    /\ Len(bytes) % Size = 0
    /\ \A j \in DOMAIN bytes :
          /\ bytes[j][2] = ((j - 1) % Size) + 1
          /\ j > 1 => IF bytes[j][2] = 1 THEN bytes[j][1] > bytes[j - 1][1]
                                          ELSE bytes[j][1] = bytes[j - 1][1]

\* Whatever pieces the bytes come and go in: what connsvr forwards for a
\* connection are the frames its client has sent, in their order; what it has
\* sent and still holds for it are whole messages, in their order.
StreamsIntact ==
    /\ \A c \in Conns : \A k \in DOMAIN forwarded[c] : forwarded[c][k] = Frame(k)
    /\ \A fd \in DOMAIN conn_map :
           Whole(wire[conn_map[fd].conn] \o conn_map[fd].send_buf)

\* A socket with bytes to send is watched for writing, and no other is, but one
\* whose last send would have blocked; that has lost its client_data instead.
WatchExact ==
    Idle => \A fd \in DOMAIN conn_map :
        fd < MaxEvents =>
            LET watched == "WRITE" \in file_events[fd].mask
            IN  /\ conn_map[fd].send_buf # <<>> => watched
                /\ watched /\ conn_map[fd].send_buf = <<>>
                     => file_events[fd].client_data = "NULL"

\* The connections without their buffers.
Connected == [fd \in DOMAIN conn_map |-> [player_idx |-> conn_map[fd].player_idx,
                                         conn |-> conn_map[fd].conn]]

\* connsvr is what ConnSvr says it is, frame for frame.
Service == INSTANCE ConnSvr WITH conn_map <- Connected
ImplementsConnSvr == Service!ConnSpec

\* What waits to be sent is sent, while the client reads and connsvr is up.
Waits(c) == \E fd \in DOMAIN conn_map : /\ conn_map[fd].conn = c
                                       /\ fd < MaxEvents
                                       /\ sockets[fd].end = "open"
                                       /\ conn_map[fd].send_buf # <<>>
SendBufDrains == \A c \in Conns : Waits(c) ~> ~Waits(c) \/ status = "crashed"
=============================================================================
