---------------------------- MODULE ConnIoProofs ----------------------------
(***************************************************************************)
(* Theorems about ConnIo: the streams come out as they went in, sockets are  *)
(* watched for writing as long as bytes wait, and connsvr is what ConnSvr    *)
(* says it is.                                                             *)
(***************************************************************************)
EXTENDS ConnIo, LinksProofs

-----------------------------------------------------------------------------
(* The invariants *)

Bytes == Nat \X (1..Size)
Connection == [player_idx : Nat, conn : Conns,
               recv_buf : Seq(Bytes), send_buf : Seq(Bytes)]
Event == [mask : SUBSET {"READ", "WRITE"}, write_proc : BOOLEAN,
          client_data : {"NULL", "epoller"}]
Socket == [in : Seq(Bytes), out : 0..SocketBuf, end : {"none", "open", "fin", "reset"}]
ToClient == [cmd : {"START", "PROC", "STOP"}, conn_fd : Fds, player_idx : Nat,
             seq : Nat, ret : {0}, n : Nat]
Flags == {"IN", "FRAMES", "OUT", "ERR", "HUP"}

\* Every connection has a descriptor and a number of its own.
ConnsOK == /\ DOMAIN conn_map \subseteq Fds
           /\ conn_map \in [DOMAIN conn_map -> Connection]
           /\ \A f \in DOMAIN conn_map : conn_map[f].conn <= accepted
           /\ \A f, g \in DOMAIN conn_map : conn_map[f].conn = conn_map[g].conn => f = g

\* An event is of one descriptor, and reading, which comes first, of a connection.
RoundOK == /\ round \in Seq(Fds \X Flags)
           /\ \A i, j \in DOMAIN round : round[i][1] = round[j][1]
           /\ \A i \in DOMAIN round : round[i][2] \in {"IN", "FRAMES"} =>
                  i = 1 /\ round[i][1] \in DOMAIN conn_map

\* Messages of gamesvr are numbered in their order.
NumbersOK == /\ messages \in Nat
             /\ g2c \in Seq(ToClient)
             /\ \A i \in DOMAIN g2c : g2c[i].n <= messages
             /\ \A i, j \in DOMAIN g2c : i < j => g2c[i].n < g2c[j].n

TypeInv ==
    /\ accepted \in 0..MaxConns /\ ConnsOK
    /\ file_events \in [Fds -> Event]
    /\ sockets \in [Fds -> Socket]
    /\ RoundOK /\ NumbersOK /\ IsSeq(asked)
    /\ requested \in [Conns -> Nat]
    /\ forwarded \in [Conns -> Seq(Seq(Bytes))]
    /\ wire \in [Conns -> Seq(Bytes)]

\* WatchExact during a round too; and who is not connected is not watched.
WatchInv ==
    status = "up" =>
    /\ \A fd \in Fds : fd \notin DOMAIN conn_map \/ fd >= MaxEvents =>
           file_events[fd].mask = {}
    /\ \A fd \in DOMAIN conn_map : fd < MaxEvents =>
           LET watched == "WRITE" \in file_events[fd].mask
           IN  /\ conn_map[fd].send_buf # <<>> => watched
               /\ watched /\ conn_map[fd].send_buf = <<>>
                    => file_events[fd].client_data = "NULL"

\* The parts of n frames.
Parts(n) == n * Size

\* What a client has sent and connsvr has not forwarded yet.
Unread(fd) == conn_map[fd].recv_buf \o sockets[fd].in

\* The frames from the f-th to the r-th, without the f-th.
Frames(bytes, f, r) ==
    /\ f <= r
    /\ Parts(f) + Len(bytes) = Parts(r)
    /\ \A i \in DOMAIN bytes : Parts(bytes[i][1]) + bytes[i][2] = Parts(f + 1) + i

InInv ==
    /\ \A c \in Conns : \A k \in DOMAIN forwarded[c] : forwarded[c][k] = Frame(k)
    /\ \A c \in Conns : c > accepted => requested[c] = 0 /\ forwarded[c] = <<>>
    /\ \A fd \in DOMAIN conn_map :
           LET c == conn_map[fd].conn
           IN  Frames(Unread(fd), Len(forwarded[c]), requested[c])

\* What connsvr has sent and still holds for a client.
Stream(fd) == wire[conn_map[fd].conn] \o conn_map[fd].send_buf
Below(bytes, n) == \A i \in DOMAIN bytes : bytes[i][1] < n

\* Messages on the queue come after those that have left it.
OutInv ==
    /\ \A c \in Conns : c > accepted => wire[c] = <<>>
    /\ \A fd \in DOMAIN conn_map :
           /\ Whole(Stream(fd))
           /\ Below(Stream(fd), messages + 1)
           /\ \A k \in DOMAIN g2c : Below(Stream(fd), g2c[k].n)

\* The frames that are still to come from open connections.
Coming == UNION {{conn_map[fd].conn} \X
                 (Len(forwarded[conn_map[fd].conn]) + 1..requested[conn_map[fd].conn]) :
                 fd \in DOMAIN conn_map}

\* For every request asked there is a frame that is not to come.
AskedInv == /\ IsFiniteSet(Requests) /\ Cardinality(Requests) <= MaxRequests
            /\ Len(asked) <= Cardinality(Requests \ Coming)

-----------------------------------------------------------------------------
(* What a step does to the connections and to the events *)

Drops(fd) == /\ conn_map' = [f \in DOMAIN conn_map \ {fd} |-> conn_map[f]]
             /\ sockets' = [sockets EXCEPT ![fd] = NoSocket]
Changes(fd, c) == fd \in DOMAIN conn_map /\ conn_map' = [conn_map EXCEPT ![fd] = c]

LEMMA Dropped ==
    ASSUME ConnsOK, accepted' = accepted, sockets \in [Fds -> Socket], NEW fd, Drops(fd)
    PROVE  /\ ConnsOK' /\ sockets' \in [Fds -> Socket]
           /\ DOMAIN conn_map' = DOMAIN conn_map \ {fd}
           /\ \A f \in DOMAIN conn_map' : conn_map'[f] = conn_map[f]
           /\ \A f \in DOMAIN conn_map' : sockets'[f] = sockets[f]
<1>1. NoSocket \in Socket
  BY ConnIoAssumption DEF NoSocket, Socket
<1>2. /\ DOMAIN conn_map' = DOMAIN conn_map \ {fd}
      /\ \A f \in DOMAIN conn_map' : conn_map'[f] = conn_map[f]
      /\ conn_map' \in [DOMAIN conn_map' -> Connection]
  BY DEF Drops, ConnsOK
<1>3. ConnsOK'
  BY <1>2 DEF ConnsOK
<1>4. sockets' \in [Fds -> Socket] /\ \A f \in DOMAIN conn_map' : sockets'[f] = sockets[f]
  BY <1>1, <1>2 DEF Drops, ConnsOK
<1> QED
  BY <1>2, <1>3, <1>4

LEMMA Changed ==
    ASSUME ConnsOK, accepted' = accepted, NEW fd, NEW c \in Connection, Changes(fd, c),
           c.conn = conn_map[fd].conn
    PROVE  /\ ConnsOK'
           /\ DOMAIN conn_map' = DOMAIN conn_map /\ conn_map'[fd] = c
           /\ \A f \in DOMAIN conn_map \ {fd} : conn_map'[f] = conn_map[f]
<1>1. /\ DOMAIN conn_map' = DOMAIN conn_map /\ conn_map'[fd] = c
      /\ \A f \in DOMAIN conn_map \ {fd} : conn_map'[f] = conn_map[f]
      /\ conn_map' \in [DOMAIN conn_map' -> Connection]
  BY DEF Changes, ConnsOK
<1>2. \A f \in DOMAIN conn_map : conn_map'[f].conn = conn_map[f].conn
  BY <1>1
<1>3. ConnsOK'
  BY <1>1, <1>2 DEF ConnsOK
<1> QED
  BY <1>1, <1>3

LEMMA Joined ==
    ASSUME ConnsOK, accepted \in 0..MaxConns, sockets \in [Fds -> Socket],
           NEW fd \in Fds, DoTcpAccept(fd)
    PROVE  /\ ConnsOK' /\ sockets' \in [Fds -> Socket] /\ accepted' \in 0..MaxConns
           /\ fd \notin DOMAIN conn_map /\ DOMAIN conn_map' = DOMAIN conn_map \cup {fd}
           /\ conn_map'[fd] = [player_idx |-> 0, conn |-> accepted + 1,
                               recv_buf |-> <<>>, send_buf |-> <<>>]
           /\ sockets'[fd].in = <<>>
           /\ \A f \in DOMAIN conn_map : conn_map'[f] = conn_map[f]
           /\ \A f \in DOMAIN conn_map : sockets'[f] = sockets[f]
           /\ accepted' = accepted + 1
<1> DEFINE c == [player_idx |-> 0, conn |-> accepted + 1, recv_buf |-> <<>>, send_buf |-> <<>>]
           s == [NoSocket EXCEPT !.end = "open"]
<1>1. accepted' = accepted + 1 /\ accepted + 1 \in Conns /\ accepted + 1 \in 0..MaxConns
  BY ConnIoAssumption DEF DoTcpAccept, Conns
<1>2. c \in Connection /\ c.conn = accepted + 1
  BY <1>1 DEF Connection
<1>3. s \in Socket /\ s.in = <<>>
  <2>1. s = [in |-> <<>>, out |-> 0, end |-> "open"]
    BY DEF NoSocket
  <2> HIDE DEF s
  <2> QED
    BY <2>1, ConnIoAssumption DEF Socket
<1>4. /\ fd \notin DOMAIN conn_map
      /\ conn_map' = [f \in DOMAIN conn_map \cup {fd} |-> IF f = fd THEN c ELSE conn_map[f]]
      /\ sockets' = [sockets EXCEPT ![fd] = s]
  BY DEF DoTcpAccept
<1> HIDE DEF c, s
<1>5. /\ DOMAIN conn_map' = DOMAIN conn_map \cup {fd} /\ conn_map'[fd] = c
      /\ \A f \in DOMAIN conn_map : conn_map'[f] = conn_map[f]
      /\ conn_map' \in [DOMAIN conn_map' -> Connection]
  BY <1>2, <1>4 DEF ConnsOK
<1>6. \A f \in DOMAIN conn_map : conn_map'[f].conn <= accepted /\ conn_map'[f].conn \in Nat
  BY <1>5 DEF ConnsOK, Connection, Conns
<1>7. \A f \in DOMAIN conn_map' : conn_map'[f].conn <= accepted'
  BY <1>1, <1>2, <1>5, <1>6
<1>8. \A f, g \in DOMAIN conn_map' : conn_map'[f].conn = conn_map'[g].conn => f = g
  BY <1>1, <1>2, <1>5, <1>6 DEF ConnsOK
<1>9. ConnsOK'
  BY <1>5, <1>7, <1>8 DEF ConnsOK
<1>10. /\ sockets' \in [Fds -> Socket] /\ sockets'[fd].in = <<>>
       /\ \A f \in DOMAIN conn_map : sockets'[f] = sockets[f]
  BY <1>3, <1>4
<1> QED
  BY <1>1, <1>4, <1>5, <1>9, <1>10 DEF c

\* One socket changes.
LEMMA SocketChanged ==
    ASSUME sockets \in [Fds -> Socket], NEW fd, fd \in Fds, NEW s \in Socket,
           sockets' = [sockets EXCEPT ![fd] = s]
    PROVE  /\ sockets' \in [Fds -> Socket] /\ sockets'[fd] = s
           /\ \A f \in Fds \ {fd} : sockets'[f] = sockets[f]
  OBVIOUS

\* The events of one descriptor change; which, and to what.
LEMMA Cleared ==
    ASSUME file_events \in [Fds -> Event], NEW fd, fd \in Fds, ClearEvent(fd)
    PROVE  /\ file_events' \in [Fds -> Event] /\ file_events'[fd].mask = {}
           /\ \A f \in Fds \ {fd} : file_events'[f] = file_events[f]
<1> DEFINE e == [file_events[fd] EXCEPT !.mask = @ \ {"READ", "WRITE"}]
<1>1. file_events' = [file_events EXCEPT ![fd] = e]
  BY DEF ClearEvent, DelEvent
<1>2. file_events[fd] \in Event
  OBVIOUS
<1>3. e \in Event /\ e.mask = {}
  BY <1>2 DEF Event
<1> HIDE DEF e
<1> QED
  BY <1>1, <1>3

LEMMA Unwritten ==
    ASSUME file_events \in [Fds -> Event], NEW fd, fd \in Fds, DelEvent(fd, {"WRITE"})
    PROVE  /\ file_events' \in [Fds -> Event]
           /\ file_events'[fd].mask = file_events[fd].mask \ {"WRITE"}
           /\ \A f \in Fds \ {fd} : file_events'[f] = file_events[f]
<1> DEFINE e == [file_events[fd] EXCEPT !.mask = @ \ {"WRITE"}]
<1>1. file_events' = [file_events EXCEPT ![fd] = e]
  BY DEF DelEvent
<1>2. file_events[fd] \in Event
  OBVIOUS
<1>3. e \in Event /\ e.mask = file_events[fd].mask \ {"WRITE"}
  BY <1>2 DEF Event
<1> HIDE DEF e
<1> QED
  BY <1>1, <1>3

LEMMA EventAdded ==
    ASSUME file_events \in [Fds -> Event], NEW fd, fd \in Fds, NEW flag \in {"READ", "WRITE"},
           NEW arg \in {"NULL", "epoller"}, AddEvent(fd, flag, arg)
    PROVE  /\ file_events' \in [Fds -> Event]
           /\ \A f \in Fds \ {fd} : file_events'[f] = file_events[f]
           /\ fd >= MaxEvents => file_events'[fd] = file_events[fd]
           /\ fd < MaxEvents =>
                  /\ file_events'[fd].mask = file_events[fd].mask \cup {flag}
                  /\ file_events'[fd].client_data = arg
<1> DEFINE e == Added(file_events[fd], flag, arg)
<1>1. file_events' = IF fd >= MaxEvents THEN file_events ELSE [file_events EXCEPT ![fd] = e]
  BY DEF AddEvent
<1>2. file_events[fd] \in Event
  OBVIOUS
<1>3. /\ e \in Event /\ e.mask = file_events[fd].mask \cup {flag}
      /\ e.client_data = arg
  BY <1>2 DEF Event, Added
<1>4. fd \in Int /\ MaxEvents \in Int
  BY ConnIoAssumption DEF Fds
<1> HIDE DEF e
<1> QED
  BY <1>1, <1>3, <1>4

\* Release forgets the connection and its events, or crashes.
LEMMA Released ==
    ASSUME file_events \in [Fds -> Event], NEW fd, fd \in Fds, NEW arg, Release(fd, arg)
    PROVE  /\ Drops(fd)
           /\ \/ status' = "crashed" /\ file_events' = file_events
              \/ status' = status /\ ClearEvent(fd)
           /\ file_events' \in [Fds -> Event]
           /\ \A f \in Fds \ {fd} : file_events'[f] = file_events[f]
           /\ status' = "crashed" \/ (file_events'[fd].mask = {} /\ status' = status)
<1>1. CASE status' = "crashed" /\ file_events' = file_events
  BY <1>1 DEF Release, Drops
<1>2. CASE status' = status /\ ClearEvent(fd)
  BY <1>2, Cleared DEF Release, Drops
<1> QED
  BY <1>1, <1>2 DEF Release

\* Loop goes on with the next flag.
LEMMA RoundFirst ==
    ASSUME RoundOK, round # <<>>, DOMAIN conn_map \subseteq Fds
    PROVE  /\ Head(round) \in Fds \X Flags /\ Fd \in Fds
           /\ Head(round)[2] \in {"IN", "FRAMES"} => Fd \in DOMAIN conn_map
           /\ \A i \in DOMAIN Tail(round) : /\ Tail(round)[i][1] = Fd
                                            /\ Tail(round)[i][2] \notin {"IN", "FRAMES"}
           /\ Tail(round) \in Seq(Fds \X Flags)
<1>1. round \in Seq(Fds \X Flags)
  BY DEF RoundOK
<1>2. Head(round) = round[1] /\ 1 \in DOMAIN round /\ Head(round) \in Fds \X Flags
  BY <1>1
<1>3. Fd \in Fds
  BY <1>2 DEF Fd
<1>4. Head(round)[2] \in {"IN", "FRAMES"} => Fd \in DOMAIN conn_map
  BY <1>2 DEF RoundOK, Fd
<1>5. Tail(round) \in Seq(Fds \X Flags)
  BY <1>1
<1>6. ASSUME NEW i \in DOMAIN Tail(round)
      PROVE  /\ Tail(round)[i][1] = Fd
             /\ Tail(round)[i][2] \notin {"IN", "FRAMES"}
  <2>1. i + 1 \in DOMAIN round /\ i + 1 # 1 /\ Tail(round)[i] = round[i + 1]
    BY <1>1
  <2>2. round[i + 1][1] = round[1][1] /\ round[i + 1][2] \notin {"IN", "FRAMES"}
    BY <1>2, <2>1 DEF RoundOK
  <2> QED
    BY <1>2, <2>1, <2>2 DEF Fd
<1> QED
  BY <1>2, <1>3, <1>4, <1>5, <1>6

LEMMA RoundTail ==
    ASSUME RoundOK, round # <<>>, DOMAIN conn_map \subseteq Fds, round' = Tail(round)
    PROVE  RoundOK'
<1>1. /\ round' \in Seq(Fds \X Flags)
      /\ \A i \in DOMAIN round' : round'[i][1] = Fd /\ round'[i][2] \notin {"IN", "FRAMES"}
  BY RoundFirst
<1> QED
  BY <1>1 DEF RoundOK

\* Reading is followed by a look at what is there.
LEMMA RoundFrames ==
    ASSUME RoundOK, round # <<>>, DOMAIN conn_map \subseteq Fds, Fd \in DOMAIN conn_map,
           DOMAIN conn_map' = DOMAIN conn_map,
           round' = <<<<Fd, "FRAMES">>>> \o Tail(round)
    PROVE  RoundOK'
<1> DEFINE t == Tail(round)
<1>1. /\ t \in Seq(Fds \X Flags)
      /\ \A i \in DOMAIN t : t[i][1] = Fd /\ t[i][2] \notin {"IN", "FRAMES"}
  BY RoundFirst
<1> HIDE DEF t
<1>2. PICK fd : fd = Fd
  OBVIOUS
<1>3. <<fd, "FRAMES">> \in Fds \X Flags
  BY <1>2 DEF Flags
<1> DEFINE r == <<<<fd, "FRAMES">>>> \o t
<1>4. /\ r \in Seq(Fds \X Flags) /\ r[1] = <<fd, "FRAMES">>
      /\ \A i \in DOMAIN r : i # 1 => i - 1 \in DOMAIN t /\ r[i] = t[i - 1]
  BY <1>1, <1>3
<1>5. round' = r
  BY <1>2 DEF t
<1> HIDE DEF r
<1>6. \A i \in DOMAIN r : r[i][1] = fd /\ (r[i][2] \in {"IN", "FRAMES"} => i = 1)
  BY <1>1, <1>2, <1>4
<1>7. fd \in DOMAIN conn_map'
  BY <1>2
<1> QED
  BY <1>4, <1>5, <1>6, <1>7 DEF RoundOK

LEMMA RoundBegins ==
    ASSUME ConnsOK, NEW fd, EpollWait(fd)
    PROVE  RoundOK'
<1>1. PICK in \in BOOLEAN, out \in BOOLEAN, reset \in BOOLEAN :
          round' = (IF in THEN <<<<fd, "IN">>>> ELSE <<>>)
                       \o (IF out THEN <<<<fd, "OUT">>>> ELSE <<>>)
                       \o (IF reset THEN <<<<fd, "ERR">>, <<fd, "HUP">>>> ELSE <<>>)
  BY DEF EpollWait
<1> DEFINE i == IF in THEN <<<<fd, "IN">>>> ELSE <<>>
           o == IF out THEN <<<<fd, "OUT">>>> ELSE <<>>
           e == IF reset THEN <<<<fd, "ERR">>, <<fd, "HUP">>>> ELSE <<>>
           T == {fd} \X {"OUT", "ERR", "HUP"}
<1>2. fd \in DOMAIN conn_map /\ fd \in Fds /\ conn_map' = conn_map
  BY DEF EpollWait, ConnsOK
<1>3. o \in Seq(T) /\ e \in Seq(T)
  OBVIOUS
<1>4. o \o e \in Seq(T)
  BY <1>3
<1>5. i = <<>> \/ i = <<<<fd, "IN">>>>
  OBVIOUS
<1>6. round' = i \o (o \o e)
  BY <1>1
<1> DEFINE t == o \o e
<1>7. t \in Seq(T)
  BY <1>4
<1>8. round' = i \o t
  BY <1>6
<1> HIDE DEF i, t
<1>9. CASE i = <<>>
  <2>1. round' = t
    BY <1>7, <1>8, <1>9
  <2>2. /\ t \in Seq(Fds \X Flags)
        /\ \A k \in DOMAIN t : t[k][1] = fd /\ t[k][2] \notin {"IN", "FRAMES"}
    <3>1. T \subseteq Fds \X Flags
      BY <1>2 DEF Flags
    <3> QED
      BY <1>7, <3>1
  <2> QED
    BY <2>1, <2>2 DEF RoundOK
<1>10. CASE i = <<<<fd, "IN">>>>
  <2> DEFINE r == <<<<fd, "IN">>>> \o t
  <2>1. round' = r
    BY <1>8, <1>10
  <2>2. /\ T \subseteq Fds \X Flags /\ <<fd, "IN">> \in Fds \X Flags
    BY <1>2 DEF Flags
  <2>3. t \in Seq(Fds \X Flags)
    BY <1>7, <2>2
  <2>4. /\ r \in Seq(Fds \X Flags) /\ r[1] = <<fd, "IN">>
        /\ \A k \in DOMAIN r : k # 1 => k - 1 \in DOMAIN t /\ r[k] = t[k - 1]
    BY <2>2, <2>3
  <2> HIDE DEF r
  <2>5. \A k \in DOMAIN t : t[k][1] = fd /\ t[k][2] \notin {"IN", "FRAMES"}
    BY <1>7
  <2>6. \A k \in DOMAIN r : r[k][1] = fd /\ (r[k][2] \in {"IN", "FRAMES"} => k = 1)
    BY <2>4, <2>5
  <2> QED
    BY <1>2, <2>1, <2>4, <2>6 DEF RoundOK
<1> QED
  BY <1>5, <1>9, <1>10

\* The queue to connsvr.
LEMMA NumbersTail ==
    ASSUME NumbersOK, g2c # <<>>, g2c' = Tail(g2c), messages' = messages
    PROVE  /\ NumbersOK' /\ Message \in ToClient /\ Message.n <= messages
           /\ \A i \in DOMAIN g2c' : i + 1 \in DOMAIN g2c /\ g2c'[i] = g2c[i + 1]
           /\ \A i \in DOMAIN g2c' : Message.n < g2c'[i].n
<1>1. g2c \in Seq(ToClient) /\ messages \in Nat
  BY DEF NumbersOK
<1>2. /\ g2c' \in Seq(ToClient)
      /\ \A i \in DOMAIN g2c' : /\ i + 1 \in DOMAIN g2c /\ g2c'[i] = g2c[i + 1]
                                /\ i \in Nat
  BY <1>1
<1>3. Message = g2c[1] /\ 1 \in DOMAIN g2c /\ Message \in ToClient
  BY <1>1 DEF Message
<1>4. \A i \in DOMAIN g2c' : g2c'[i].n <= messages
  BY <1>2 DEF NumbersOK
<1>5. ASSUME NEW i \in DOMAIN g2c', NEW j \in DOMAIN g2c', i < j
      PROVE  g2c'[i].n < g2c'[j].n
  <2>1. i + 1 < j + 1
    BY <1>2, <1>5
  <2> QED
    BY <1>2, <2>1 DEF NumbersOK
<1>6. ASSUME NEW i \in DOMAIN g2c' PROVE Message.n < g2c'[i].n
  <2>1. 1 < i + 1 /\ i + 1 \in DOMAIN g2c
    <3>1. i \in 1..Len(g2c')
      BY <1>2
    <3> QED
      BY <1>2, <3>1
  <2> QED
    BY <1>2, <1>3, <2>1 DEF NumbersOK
<1>7. NumbersOK'
  BY <1>1, <1>2, <1>4, <1>5 DEF NumbersOK
<1>8. Message.n <= messages
  BY <1>3 DEF NumbersOK
<1> QED
  BY <1>2, <1>3, <1>6, <1>7, <1>8

LEMMA NumbersAppend ==
    ASSUME NumbersOK, NEW m \in ToClient, m.n = messages + 1, g2c' = Append(g2c, m),
           messages' = messages + 1
    PROVE  /\ NumbersOK'
           /\ \A i \in DOMAIN g2c' : \/ i \in DOMAIN g2c /\ g2c'[i] = g2c[i]
                                     \/ g2c'[i].n = messages + 1
<1>1. g2c \in Seq(ToClient) /\ messages \in Nat
  BY DEF NumbersOK
<1> DEFINE q == Append(g2c, m)
<1>2. /\ q \in Seq(ToClient) /\ DOMAIN q = 1..Len(g2c) + 1 /\ q[Len(g2c) + 1] = m
      /\ DOMAIN g2c = 1..Len(g2c) /\ Len(g2c) \in Nat
      /\ \A i \in 1..Len(g2c) : q[i] = g2c[i]
  BY <1>1
<1>3. g2c' = q
  OBVIOUS
<1> HIDE DEF q
<1>4. \A i \in DOMAIN q : (i \in DOMAIN g2c /\ q[i] = g2c[i]) \/ (i = Len(g2c) + 1 /\ q[i] = m)
  BY <1>2
<1>5. \A i \in DOMAIN g2c : g2c[i].n <= messages /\ g2c[i].n \in Nat
  <2>1. \A i \in DOMAIN g2c : g2c[i] \in ToClient
    BY <1>1
  <2>2. \A x \in ToClient : x.n \in Nat
    BY DEF ToClient
  <2> QED
    BY <2>1, <2>2 DEF NumbersOK
<1>6. \A i \in DOMAIN q : q[i].n <= messages + 1
  BY <1>1, <1>4, <1>5
<1>7. ASSUME NEW i \in DOMAIN q, NEW j \in DOMAIN q, i < j PROVE q[i].n < q[j].n
  <2>1. i \in DOMAIN g2c
    BY <1>2, <1>7
  <2>2. CASE j \in DOMAIN g2c
    BY <1>2, <1>7, <2>1, <2>2 DEF NumbersOK
  <2>3. CASE q[j] = m
    BY <1>1, <1>2, <1>5, <2>1, <2>3
  <2> QED
    BY <1>4, <2>2, <2>3
<1>8. NumbersOK'
  <2>1. messages' \in Nat
    BY <1>1
  <2> QED
    BY <1>2, <1>3, <1>6, <1>7, <2>1 DEF NumbersOK
<1> QED
  BY <1>3, <1>4, <1>8

-----------------------------------------------------------------------------
(* What the handlers do *)

LEMMA SizePositive == Size \in Nat /\ Size > 0 /\ PkgBufSize \in Nat /\ SocketBuf \in Nat
  BY ConnIoAssumption

LEMMA FrameParts ==
    ASSUME NEW n \in Nat
    PROVE  /\ Frame(n) \in Seq(Bytes) /\ Len(Frame(n)) = Size
           /\ DOMAIN Frame(n) = 1..Size
           /\ \A i \in 1..Size : Frame(n)[i] = <<n, i>>
  BY SizePositive DEF Frame, Bytes

\* A sequence is what it starts with and what follows.
LEMMA CutAndJoin ==
    ASSUME NEW S, NEW s \in Seq(S), NEW n \in 0..Len(s)
    PROVE  /\ SubSeq(s, 1, n) \in Seq(S) /\ SubSeq(s, n + 1, Len(s)) \in Seq(S)
           /\ Len(SubSeq(s, n + 1, Len(s))) = Len(s) - n
           /\ SubSeq(s, 1, n) \o SubSeq(s, n + 1, Len(s)) = s
<1> DEFINE a == SubSeq(s, 1, n)
           b == SubSeq(s, n + 1, Len(s))
<1>1. a \in Seq(S) /\ Len(a) = n /\ \A i \in 1..n : a[i] = s[i]
  OBVIOUS
<1>2. b \in Seq(S) /\ Len(b) = Len(s) - n /\ \A i \in 1..Len(s) - n : b[i] = s[i + n]
  BY Suffix
<1> HIDE DEF a, b
<1> DEFINE t == a \o b
<1>3. /\ t \in Seq(S) /\ Len(t) = Len(s)
      /\ \A i \in 1..Len(s) : t[i] = IF i <= n THEN a[i] ELSE b[i - n]
  BY <1>1, <1>2
<1> HIDE DEF t
<1>4. \A i \in 1..Len(s) : t[i] = s[i]
  <2> TAKE i \in 1..Len(s)
  <2>1. CASE i <= n
    BY <1>1, <1>3, <2>1
  <2>2. CASE ~(i <= n)
    <3>1. i - n \in 1..Len(s) - n /\ (i - n) + n = i
      BY <2>2
    <3> QED
      BY <1>2, <1>3, <2>2, <3>1
  <2> QED
    BY <2>1, <2>2
<1>5. t = s
  BY <1>3, <1>4, SeqEqual
<1> QED
  BY <1>1, <1>2, <1>5 DEF a, b, t

LEMMA JoinAssoc ==
    \A a, b, c \in Seq(Bytes) : (a \o b) \o c = a \o (b \o c)
  BY ConcatAssociative

LEMMA ConnOf ==
    ASSUME TypeInv, NEW fd \in DOMAIN conn_map
    PROVE  /\ fd \in Fds /\ conn_map[fd] \in Connection
           /\ conn_map[fd].conn \in Conns /\ conn_map[fd].conn \in 1..accepted
           /\ conn_map[fd].player_idx \in Nat
           /\ conn_map[fd].recv_buf \in Seq(Bytes) /\ conn_map[fd].send_buf \in Seq(Bytes)
           /\ conn_map[fd] = [player_idx |-> conn_map[fd].player_idx,
                              conn |-> conn_map[fd].conn,
                              recv_buf |-> conn_map[fd].recv_buf,
                              send_buf |-> conn_map[fd].send_buf]
           /\ sockets[fd] \in Socket
           /\ sockets[fd].in \in Seq(Bytes) /\ sockets[fd].out \in 0..SocketBuf
           /\ sockets[fd].end \in {"none", "open", "fin", "reset"}
           /\ Space(fd) \in 0..SocketBuf
           /\ file_events[fd] \in Event
           /\ file_events[fd].client_data \in {"NULL", "epoller"}
<1>1. fd \in Fds /\ conn_map[fd] \in Connection /\ conn_map[fd].conn <= accepted
  BY DEF TypeInv, ConnsOK
<1>2. sockets[fd] \in Socket /\ file_events[fd] \in Event
  BY <1>1 DEF TypeInv
<1>3. /\ conn_map[fd].conn \in Conns /\ conn_map[fd].player_idx \in Nat
      /\ conn_map[fd].recv_buf \in Seq(Bytes) /\ conn_map[fd].send_buf \in Seq(Bytes)
      /\ conn_map[fd] = [player_idx |-> conn_map[fd].player_idx,
                         conn |-> conn_map[fd].conn,
                         recv_buf |-> conn_map[fd].recv_buf,
                         send_buf |-> conn_map[fd].send_buf]
  BY <1>1 DEF Connection
<1>4. /\ sockets[fd].in \in Seq(Bytes) /\ sockets[fd].out \in 0..SocketBuf
      /\ sockets[fd].end \in {"none", "open", "fin", "reset"}
  BY <1>2 DEF Socket
<1>5. Space(fd) \in 0..SocketBuf
  BY <1>4, SizePositive DEF Space
<1>6. file_events[fd].client_data \in {"NULL", "epoller"}
  BY <1>2 DEF Event
<1>7. conn_map[fd].conn \in 1..accepted
  BY <1>1, <1>3 DEF Conns, TypeInv
<1> QED
  BY <1>1, <1>2, <1>3, <1>4, <1>5, <1>6, <1>7

LEMMA WithFields ==
    /\ \A c \in Connection, b \in Seq(Bytes) :
           /\ [c EXCEPT !.recv_buf = b] \in Connection
           /\ [c EXCEPT !.recv_buf = b].recv_buf = b
           /\ [c EXCEPT !.recv_buf = b].send_buf = c.send_buf
           /\ [c EXCEPT !.recv_buf = b].conn = c.conn
           /\ [c EXCEPT !.recv_buf = b].player_idx = c.player_idx
    /\ \A c \in Connection, b \in Seq(Bytes) :
           /\ [c EXCEPT !.send_buf = b] \in Connection
           /\ [c EXCEPT !.send_buf = b].send_buf = b
           /\ [c EXCEPT !.send_buf = b].recv_buf = c.recv_buf
           /\ [c EXCEPT !.send_buf = b].conn = c.conn
           /\ [c EXCEPT !.send_buf = b].player_idx = c.player_idx
    /\ \A c \in Connection, p \in Nat :
           /\ [c EXCEPT !.player_idx = p] \in Connection
           /\ [c EXCEPT !.player_idx = p].send_buf = c.send_buf
           /\ [c EXCEPT !.player_idx = p].recv_buf = c.recv_buf
           /\ [c EXCEPT !.player_idx = p].conn = c.conn
           /\ [c EXCEPT !.player_idx = p].player_idx = p
    /\ \A s \in Socket, b \in Seq(Bytes) :
           [s EXCEPT !.in = b] \in Socket /\ [s EXCEPT !.in = b].in = b
    /\ \A s \in Socket, n \in 0..SocketBuf :
           [s EXCEPT !.out = n] \in Socket /\ [s EXCEPT !.out = n].in = s.in
    /\ \A s \in Socket, e \in {"fin", "reset"} :
           [s EXCEPT !.end = e] \in Socket /\ [s EXCEPT !.end = e].in = s.in
<1>1. \A c \in Connection, b \in Seq(Bytes) :
           /\ [c EXCEPT !.recv_buf = b] \in Connection
           /\ [c EXCEPT !.recv_buf = b].recv_buf = b
           /\ [c EXCEPT !.recv_buf = b].send_buf = c.send_buf
           /\ [c EXCEPT !.recv_buf = b].conn = c.conn
           /\ [c EXCEPT !.recv_buf = b].player_idx = c.player_idx
  BY DEF Connection
<1>2. \A c \in Connection, b \in Seq(Bytes) :
           /\ [c EXCEPT !.send_buf = b] \in Connection
           /\ [c EXCEPT !.send_buf = b].send_buf = b
           /\ [c EXCEPT !.send_buf = b].recv_buf = c.recv_buf
           /\ [c EXCEPT !.send_buf = b].conn = c.conn
           /\ [c EXCEPT !.send_buf = b].player_idx = c.player_idx
  BY DEF Connection
<1>3. \A c \in Connection, p \in Nat :
           /\ [c EXCEPT !.player_idx = p] \in Connection
           /\ [c EXCEPT !.player_idx = p].send_buf = c.send_buf
           /\ [c EXCEPT !.player_idx = p].recv_buf = c.recv_buf
           /\ [c EXCEPT !.player_idx = p].conn = c.conn
           /\ [c EXCEPT !.player_idx = p].player_idx = p
  BY DEF Connection
<1>4. \A s \in Socket, b \in Seq(Bytes) :
           [s EXCEPT !.in = b] \in Socket /\ [s EXCEPT !.in = b].in = b
  BY DEF Socket
<1>5. \A s \in Socket, n \in 0..SocketBuf :
           [s EXCEPT !.out = n] \in Socket /\ [s EXCEPT !.out = n].in = s.in
  BY DEF Socket
<1>6. \A s \in Socket, e \in {"fin", "reset"} :
           [s EXCEPT !.end = e] \in Socket /\ [s EXCEPT !.end = e].in = s.in
  BY DEF Socket
<1> QED
  BY <1>1, <1>2, <1>3, <1>4, <1>5, <1>6

\* The connection on fd becomes c, and its socket s.
Turns(fd, c, s) == /\ Changes(fd, c) /\ c \in Connection /\ c.conn = conn_map[fd].conn
                   /\ sockets' = [sockets EXCEPT ![fd] = s] /\ s \in Socket

LEMMA RecvDataIs ==
    ASSUME TypeInv, NEW n \in 1..PkgBufSize, RecvData(n), NEW fd, fd = Fd
    PROVE  /\ fd \in DOMAIN conn_map /\ round # <<>>
           /\ \/ Release(fd, Arg) /\ round' = Tail(round)
              \/ /\ \E c, s : /\ Turns(fd, c, s)
                              /\ c.player_idx = conn_map[fd].player_idx
                              /\ c.send_buf = conn_map[fd].send_buf
                              /\ c.recv_buf \o s.in = Unread(fd)
                 /\ round' = <<<<Fd, "FRAMES">>>> \o Tail(round)
                 /\ UNCHANGED <<status, file_events>>
<1>1. round # <<>> /\ fd \in DOMAIN conn_map
  BY RoundFirst DEF RecvData, Flag, TypeInv, ConnsOK
<1> DEFINE k == conn_map[fd]
           all == sockets[fd].in
           cut == SubSeq(all, 1, n)
           left == SubSeq(all, n + 1, Len(all))
           buf == k.recv_buf \o cut
<1>2. /\ k \in Connection /\ k.recv_buf \in Seq(Bytes)
      /\ sockets[fd] \in Socket /\ all \in Seq(Bytes)
  BY <1>1, ConnOf
<1>3. n \in 0..Len(all)
  <2>1. n \in 1..Least(Len(all), PkgBufSize) /\ Len(all) \in Nat
    BY <1>2 DEF RecvData
  <2> QED
    BY <2>1, SizePositive DEF Least
<1>4. cut \in Seq(Bytes) /\ left \in Seq(Bytes) /\ cut \o left = all
  BY <1>2, <1>3, CutAndJoin
<1>5. \/ Release(fd, Arg) /\ round' = Tail(round)
      \/ /\ conn_map' = [conn_map EXCEPT ![fd].recv_buf = buf]
         /\ sockets' = [sockets EXCEPT ![fd].in = left]
         /\ round' = <<<<Fd, "FRAMES">>>> \o Tail(round)
         /\ UNCHANGED <<status, file_events>>
  BY DEF RecvData
<1> HIDE DEF cut, left
<1>6. buf \in Seq(Bytes)
  BY <1>2, <1>4
<1>9. buf \o left = Unread(fd)
  <2>1. (k.recv_buf \o cut) \o left = k.recv_buf \o (cut \o left)
    BY <1>2, <1>4, JoinAssoc, Zenon
  <2> QED
    BY <1>4, <2>1 DEF Unread
<1> HIDE DEF buf
<1> DEFINE c == [k EXCEPT !.recv_buf = buf]
           s == [sockets[fd] EXCEPT !.in = left]
<1>7. /\ c \in Connection /\ c.recv_buf = buf /\ c.send_buf = k.send_buf
      /\ c.conn = k.conn /\ c.player_idx = k.player_idx
  <2> HIDE DEF k
  <2> QED
    BY <1>2, <1>6, WithFields
<1>8. s \in Socket /\ s.in = left
  BY <1>2, <1>4, WithFields
<1>10. CASE conn_map' = [conn_map EXCEPT ![fd].recv_buf = buf] /\ sockets' = [sockets EXCEPT ![fd].in = left]
  <2>1. conn_map' = [conn_map EXCEPT ![fd] = c] /\ sockets' = [sockets EXCEPT ![fd] = s]
    BY <1>10
  <2> HIDE DEF c, s, k
  <2>2. Turns(fd, c, s)
    BY <1>1, <1>7, <1>8, <2>1 DEF Turns, Changes, k
  <2> QED
    BY <1>1, <1>5, <1>7, <1>8, <1>9, <2>2 DEF k
<1> QED
  BY <1>1, <1>5, <1>10

LEMMA ForwardFrameIs ==
    ASSUME TypeInv, NEW body, ForwardFrame(body), NEW fd, fd = Fd
    PROVE  /\ fd \in DOMAIN conn_map /\ round # <<>>
           /\ Len(conn_map[fd].recv_buf) >= Size
           /\ \/ Release(fd, Arg) /\ round' = Tail(round) /\ forwarded' = forwarded
              \/ /\ \E c : /\ Turns(fd, c, sockets[fd])
                           /\ c.player_idx = conn_map[fd].player_idx
                           /\ c.send_buf = conn_map[fd].send_buf
                           /\ c.recv_buf = SubSeq(conn_map[fd].recv_buf, Size + 1,
                                                  Len(conn_map[fd].recv_buf))
                 /\ forwarded' = [forwarded EXCEPT ![conn_map[fd].conn] =
                                     Append(@, SubSeq(conn_map[fd].recv_buf, 1, Size))]
                 /\ UNCHANGED <<round, status, file_events, sockets>>
<1>1. round # <<>> /\ fd \in DOMAIN conn_map
  BY RoundFirst DEF ForwardFrame, Flag, TypeInv, ConnsOK
<1> DEFINE k == conn_map[fd]
           left == SubSeq(k.recv_buf, Size + 1, Len(k.recv_buf))
<1>2. k \in Connection /\ k.recv_buf \in Seq(Bytes) /\ sockets[fd] \in Socket /\ fd \in Fds
  BY <1>1, ConnOf
<1>3. Len(k.recv_buf) >= Size
  BY DEF ForwardFrame, IsRecvProtoReady
<1>4. left \in Seq(Bytes)
  <2>1. Size \in 0..Len(k.recv_buf)
    BY <1>2, <1>3, SizePositive
  <2> QED
    BY <1>2, <2>1, CutAndJoin
<1>5. \/ Release(fd, Arg) /\ round' = Tail(round) /\ forwarded' = forwarded
      \/ /\ conn_map' = [conn_map EXCEPT ![fd].recv_buf = left]
         /\ forwarded' = [forwarded EXCEPT ![k.conn] = Append(@, SubSeq(k.recv_buf, 1, Size))]
         /\ UNCHANGED <<round, status, file_events, sockets>>
  BY <1>1 DEF ForwardFrame, RemoveRecvProto
<1> HIDE DEF left
<1> DEFINE c == [k EXCEPT !.recv_buf = left]
<1>6. /\ c \in Connection /\ c.recv_buf = left /\ c.send_buf = k.send_buf
      /\ c.conn = k.conn /\ c.player_idx = k.player_idx
  BY <1>2, <1>4, WithFields
<1>7. CASE conn_map' = [conn_map EXCEPT ![fd].recv_buf = left] /\ sockets' = sockets
  <2>1. conn_map' = [conn_map EXCEPT ![fd] = c]
    BY <1>7
  <2>2. sockets' = [sockets EXCEPT ![fd] = sockets[fd]]
    BY <1>2, <1>7 DEF TypeInv
  <2> HIDE DEF c, k
  <2>3. Turns(fd, c, sockets[fd])
    BY <1>1, <1>2, <1>6, <2>1, <2>2 DEF Turns, Changes, k
  <2> QED
    BY <1>1, <1>3, <1>5, <1>6, <2>3 DEF k, left
<1> QED
  BY <1>1, <1>3, <1>5, <1>7

LEMMA WriteSendsIs ==
    ASSUME TypeInv, WriteSends, NEW fd, fd = Fd
    PROVE  /\ fd \in DOMAIN conn_map /\ round # <<>>
           /\ \E c, s, w :
                  /\ Turns(fd, c, s) /\ s.in = sockets[fd].in
                  /\ c.player_idx = conn_map[fd].player_idx
                  /\ c.recv_buf = conn_map[fd].recv_buf
                  /\ w \in Seq(Bytes) /\ wire' = [wire EXCEPT ![c.conn] = w]
                  /\ w \o c.send_buf = Stream(fd)
                  /\ \/ /\ conn_map[fd].send_buf # <<>> /\ c.send_buf # <<>>
                        /\ UNCHANGED <<status, file_events>>
                     \/ status' = "crashed" /\ file_events' = file_events
                     \/ /\ c.send_buf = <<>>
                        /\ status' = status /\ DelEvent(fd, {"WRITE"})
<1>1. round # <<>> /\ fd \in DOMAIN conn_map
  BY DEF WriteSends, Writable, Flag
<1> DEFINE k == conn_map[fd]
           all == k.send_buf
           n == Least(Space(fd), Len(all))
           cut == SubSeq(all, 1, n)
           left == SubSeq(all, n + 1, Len(all))
           old == wire[k.conn]
           w == old \o cut
<1>2. /\ k \in Connection /\ all \in Seq(Bytes) /\ k.conn \in Conns
      /\ sockets[fd] \in Socket /\ Space(fd) \in 0..SocketBuf /\ sockets[fd].out \in 0..SocketBuf
  BY <1>1, ConnOf
<1>3. old \in Seq(Bytes)
  BY <1>2 DEF TypeInv
<1>4. n \in 0..Len(all) /\ n <= Space(fd)
  <2>1. Len(all) \in Nat /\ Space(fd) \in Nat
    BY <1>2, SizePositive
  <2> QED
    BY <2>1 DEF Least
<1>5. /\ cut \in Seq(Bytes) /\ left \in Seq(Bytes) /\ cut \o left = all
      /\ Len(left) = Len(all) - n
  <2> HIDE DEF n
  <2> QED
    BY <1>2, <1>4, CutAndJoin
<1>6. /\ wire' = [wire EXCEPT ![k.conn] = w]
      /\ sockets' = [sockets EXCEPT ![fd].out = @ + n]
      /\ conn_map' = [conn_map EXCEPT ![fd].send_buf = left]
      /\ \/ n < Len(all) /\ UNCHANGED <<status, file_events>>
         \/ status' = "crashed" /\ file_events' = file_events
         \/ ~(n < Len(all)) /\ status' = status /\ DelEvent(fd, {"WRITE"})
  BY DEF WriteSends, RemoveSendData
<1>7. sockets[fd].out + n \in 0..SocketBuf
  <2> HIDE DEF n
  <2>1. Len(all) \in Nat /\ n \in Int
    BY <1>2, <1>4
  <2>2. 0 <= n /\ n <= SocketBuf - sockets[fd].out
    BY <1>4 DEF Space
  <2> QED
    BY <1>2, <2>1, <2>2, SizePositive
<1> HIDE DEF n, cut, left
<1>8. w \in Seq(Bytes) /\ w \o left = Stream(fd)
  <2>1. (old \o cut) \o left = old \o (cut \o left)
    <3> HIDE DEF old
    <3> QED
      BY <1>3, <1>5, JoinAssoc, Zenon
  <2>2. w \in Seq(Bytes)
    BY <1>3, <1>5
  <2> QED
    BY <1>5, <2>1, <2>2 DEF Stream
<1> HIDE DEF w
<1> DEFINE c == [k EXCEPT !.send_buf = left]
           s == [sockets[fd] EXCEPT !.out = @ + n]
<1>9. /\ c \in Connection /\ c.send_buf = left /\ c.recv_buf = k.recv_buf
      /\ c.conn = k.conn /\ c.player_idx = k.player_idx
  BY <1>2, <1>5, WithFields
<1>10. s \in Socket /\ s.in = sockets[fd].in
  BY <1>2, <1>7, WithFields
<1>11. conn_map' = [conn_map EXCEPT ![fd] = c] /\ sockets' = [sockets EXCEPT ![fd] = s]
  BY <1>6
<1> HIDE DEF c, s
<1>12. Turns(fd, c, s)
  BY <1>1, <1>9, <1>10, <1>11 DEF Turns, Changes
<1>13. /\ n < Len(all) => all # <<>> /\ left # <<>>
       /\ ~(n < Len(all)) => left = <<>>
  <2>1. Len(all) \in Nat /\ n \in 0..Len(all) /\ Len(left) = Len(all) - n /\ left \in Seq(Bytes)
    BY <1>2, <1>4, <1>5
  <2> QED
    BY <1>2, <2>1
<1>14. wire' = [wire EXCEPT ![c.conn] = w]
  BY <1>6, <1>9
<1> QED
  BY <1>1, <1>6, <1>8, <1>9, <1>10, <1>12, <1>13, <1>14

\* Afterwards, with sb for send_buf.
LEMMA AfterwardsIs ==
    ASSUME TypeInv, NEW fd, fd = To, fd \in DOMAIN conn_map, g2c # <<>>,
           NEW sb \in Seq(Bytes), NEW s \in Socket,
           Afterwards([conn_map[fd] EXCEPT !.send_buf = sb]),
           Message.cmd # "STOP" => sockets' = [sockets EXCEPT ![fd] = s]
    PROVE  \/ Message.cmd = "STOP" /\ Drops(fd)
           \/ /\ Message.cmd # "STOP"
              /\ \E c : /\ Turns(fd, c, s)
                        /\ c.player_idx = IF Message.cmd = "START" \/ conn_map[fd].player_idx = 0
                                          THEN Message.player_idx ELSE conn_map[fd].player_idx
                        /\ c.recv_buf = conn_map[fd].recv_buf
                        /\ c.send_buf = sb
<1> DEFINE k == [conn_map[fd] EXCEPT !.send_buf = sb]
           p == Message.player_idx
           named == Message.cmd = "START" \/ conn_map[fd].player_idx = 0
           c == IF named THEN [k EXCEPT !.player_idx = p] ELSE k
<1>1. conn_map[fd] \in Connection
  BY ConnOf
<1>2. /\ k \in Connection /\ k.send_buf = sb /\ k.recv_buf = conn_map[fd].recv_buf
      /\ k.conn = conn_map[fd].conn /\ k.player_idx = conn_map[fd].player_idx
  BY <1>1, WithFields
<1>3. p \in Nat
  <2>1. Message \in ToClient
    BY DEF TypeInv, NumbersOK, Message
  <2> QED
    BY <2>1 DEF ToClient
<1>4. \/ Message.cmd = "STOP" /\ Drops(fd)
      \/ /\ Message.cmd # "STOP" /\ conn_map' = [conn_map EXCEPT ![fd] = c]
         /\ sockets' = [sockets EXCEPT ![fd] = s]
  <2>1. k.player_idx = 0 <=> conn_map[fd].player_idx = 0
    BY <1>2
  <2> HIDE DEF k, p
  <2>2. Afterwards(k)
    BY DEF k
  <2>3. CASE Message.cmd = "STOP"
    BY <2>2, <2>3 DEF Afterwards, Drops
  <2>4. CASE Message.cmd # "STOP"
    BY <2>1, <2>2, <2>4 DEF Afterwards, p
  <2> QED
    BY <2>3, <2>4
<1> HIDE DEF k
<1>5. /\ [k EXCEPT !.player_idx = p] \in Connection
      /\ [k EXCEPT !.player_idx = p].send_buf = k.send_buf
      /\ [k EXCEPT !.player_idx = p].recv_buf = k.recv_buf
      /\ [k EXCEPT !.player_idx = p].conn = k.conn
      /\ [k EXCEPT !.player_idx = p].player_idx = p
  <2> HIDE DEF p
  <2> QED
    BY <1>2, <1>3, WithFields
<1>6. /\ c \in Connection /\ c.send_buf = sb /\ c.recv_buf = conn_map[fd].recv_buf
      /\ c.conn = conn_map[fd].conn
      /\ c.player_idx = IF named THEN p ELSE conn_map[fd].player_idx
  BY <1>2, <1>5
<1> HIDE DEF c
<1>7. CASE conn_map' = [conn_map EXCEPT ![fd] = c] /\ sockets' = [sockets EXCEPT ![fd] = s]
  <2>1. Turns(fd, c, s)
    BY <1>6, <1>7 DEF Turns, Changes
  <2> QED
    BY <1>4, <1>6, <2>1
<1> QED
  BY <1>4, <1>7

Replies == ZmqReadSend \/ ZmqReadBlocks \/ ZmqReadAppend

\* What becomes of a message for descriptor fd: w is then on its wire and sb in its send
\* buffer.
Answered(fd, w, sb) ==
    /\ wire' = [wire EXCEPT ![conn_map[fd].conn] = w]
    /\ \/ w \o sb = Stream(fd)
       \/ w \o sb = Stream(fd) \o Frame(Message.n)
    /\ \/ Message.cmd = "STOP" /\ Drops(fd)
       \/ /\ Message.cmd # "STOP"
          /\ \E c, s :
                /\ Turns(fd, c, s) /\ s.in = sockets[fd].in
                /\ c.player_idx =
                      IF Message.cmd = "START" \/ conn_map[fd].player_idx = 0
                      THEN Message.player_idx ELSE conn_map[fd].player_idx
                /\ c.recv_buf = conn_map[fd].recv_buf /\ c.send_buf = sb
    /\ \/ sb = <<>> /\ conn_map[fd].send_buf = <<>> /\ Unwatched
       \/ sb = <<>> /\ Watch("NULL")
       \/ sb # <<>> /\ conn_map[fd].send_buf # <<>> /\ Unwatched
       \/ sb # <<>> /\ Watch("epoller")

\* A message for a client: it is sent or kept, or dropped where send would block.
LEMMA RepliesIs ==
    ASSUME TypeInv, Replies, NEW fd, fd = To
    PROVE  /\ Taken /\ fd \in DOMAIN conn_map
           /\ \E w, sb \in Seq(Bytes) : Answered(fd, w, sb)
<1>1. Taken /\ fd \in DOMAIN conn_map /\ g2c # <<>>
  BY DEF Replies, ZmqReadSend, ZmqReadBlocks, ZmqReadAppend, Taken
<1> DEFINE k == conn_map[fd]
           x == k.conn
           old == wire[x]
           m == Message
<1>2. /\ k \in Connection /\ k.send_buf \in Seq(Bytes) /\ x \in Conns
      /\ sockets[fd] \in Socket /\ Space(fd) \in 0..SocketBuf /\ sockets[fd].out \in 0..SocketBuf
  BY <1>1, ConnOf
<1>3. old \in Seq(Bytes) /\ wire \in [Conns -> Seq(Bytes)]
  BY <1>2 DEF TypeInv
<1>4. m.n \in Nat
  <2>1. m \in ToClient
    BY <1>1 DEF TypeInv, NumbersOK, Message
  <2> QED
    BY <2>1 DEF ToClient
<1>5. PICK f : f = Frame(m.n)
  OBVIOUS
<1>6. f \in Seq(Bytes) /\ Len(f) = Size
  BY <1>4, <1>5, FrameParts
<1>7. CASE ZmqReadSend
  <2> DEFINE n == Least(Space(fd), Size)
             cut == SubSeq(f, 1, n)
             sb == SubSeq(f, n + 1, Size)
             w == old \o cut
             s == [sockets[fd] EXCEPT !.out = @ + n]
  <2>1. n \in 0..Len(f) /\ n <= Space(fd) /\ n > 0
    BY <1>2, <1>6, <1>7, SizePositive DEF Least, ZmqReadSend
  <2>2. /\ cut \in Seq(Bytes) /\ sb \in Seq(Bytes) /\ cut \o sb = f /\ Len(sb) = Size - n
    <3> HIDE DEF n
    <3> QED
      BY <1>6, <2>1, CutAndJoin
  <2>3. /\ k.send_buf = <<>>
        /\ wire' = [wire EXCEPT ![x] = w]
        /\ Afterwards([k EXCEPT !.send_buf = sb])
        /\ Message.cmd # "STOP" => sockets' = [sockets EXCEPT ![fd] = s]
        /\ IF n < Size THEN Watch("epoller") ELSE Unwatched
    BY <1>5, <1>7 DEF ZmqReadSend, Kept
  <2>4. sockets[fd].out + n \in 0..SocketBuf
    <3> HIDE DEF n
    <3>1. 0 <= n /\ n <= SocketBuf - sockets[fd].out /\ n \in Int
      BY <1>6, <2>1, SizePositive DEF Space
    <3> QED
      BY <1>2, <3>1, SizePositive
  <2>5. n < Size <=> sb # <<>>
    <3> HIDE DEF n
    <3>1. n \in Int /\ n <= Size /\ Size \in Nat
      BY <1>6, <2>1, SizePositive
    <3> HIDE DEF sb
    <3> QED
      BY <2>2, <3>1
  <2> HIDE DEF n, cut, sb
  <2>6. s \in Socket /\ s.in = sockets[fd].in
    BY <1>2, <2>4, WithFields
  <2>7. w \in Seq(Bytes) /\ w \o sb = Stream(fd) \o f
    <3>1. (old \o cut) \o sb = old \o (cut \o sb)
      <4> HIDE DEF old
      <4> QED
        BY <1>3, <2>2, JoinAssoc, Zenon
    <3>2. Stream(fd) = old \o <<>>
      BY <2>3 DEF Stream
    <3>3. old \o <<>> = old /\ w \in Seq(Bytes)
      BY <1>3, <2>2
    <3> QED
      BY <2>2, <3>1, <3>2, <3>3
  <2> HIDE DEF w, s
  <2>8. \/ Message.cmd = "STOP" /\ Drops(fd)
        \/ /\ Message.cmd # "STOP"
           /\ \E c : /\ Turns(fd, c, s)
                     /\ c.player_idx = IF Message.cmd = "START" \/ conn_map[fd].player_idx = 0
                                       THEN Message.player_idx ELSE conn_map[fd].player_idx
                     /\ c.recv_buf = conn_map[fd].recv_buf
                     /\ c.send_buf = sb
    <3>1. /\ Afterwards([conn_map[fd] EXCEPT !.send_buf = sb])
          /\ Message.cmd # "STOP" => sockets' = [sockets EXCEPT ![fd] = s]
      BY <2>3 DEF s
    <3> HIDE DEF k, m
    <3>2. g2c # <<>> /\ fd \in DOMAIN conn_map /\ sb \in Seq(Bytes) /\ s \in Socket
      BY <1>1, <2>2, <2>6
    <3> QED
      BY <3>1, <3>2, AfterwardsIs
  <2>9. \/ Message.cmd = "STOP" /\ Drops(fd)
        \/ /\ Message.cmd # "STOP"
           /\ \E c, t :
                 /\ Turns(fd, c, t) /\ t.in = sockets[fd].in
                 /\ c.player_idx = IF Message.cmd = "START" \/ conn_map[fd].player_idx = 0
                                   THEN Message.player_idx ELSE conn_map[fd].player_idx
                 /\ c.recv_buf = conn_map[fd].recv_buf /\ c.send_buf = sb
    BY <2>6, <2>8
  <2>10. \/ sb = <<>> /\ k.send_buf = <<>> /\ Unwatched
         \/ sb # <<>> /\ Watch("epoller")
    BY <2>3, <2>5
  <2>11. w \o sb = Stream(fd) \o Frame(Message.n) /\ wire' = [wire EXCEPT ![x] = w]
    BY <1>5, <2>3, <2>7
  <2> QED
    BY <1>1, <2>2, <2>7, <2>9, <2>10, <2>11 DEF Answered
<1>8. CASE ZmqReadBlocks \/ ZmqReadAppend
  <2> DEFINE s == sockets[fd]
  <2>1. wire' = [wire EXCEPT ![x] = old]
    BY <1>2, <1>3, <1>8 DEF ZmqReadBlocks, ZmqReadAppend
  <2>2. ASSUME NEW sb \in Seq(Bytes), Afterwards([k EXCEPT !.send_buf = sb]),
               Message.cmd # "STOP" => UNCHANGED sockets
        PROVE  \/ Message.cmd = "STOP" /\ Drops(fd)
               \/ /\ Message.cmd # "STOP"
                  /\ \E c : /\ Turns(fd, c, s)
                            /\ c.player_idx = IF Message.cmd = "START" \/ conn_map[fd].player_idx = 0
                                              THEN Message.player_idx ELSE conn_map[fd].player_idx
                            /\ c.recv_buf = conn_map[fd].recv_buf
                            /\ c.send_buf = sb
    <3>1. Message.cmd # "STOP" => sockets' = [sockets EXCEPT ![fd] = s]
      BY <2>2 DEF TypeInv
    <3> QED
      BY <1>1, <1>2, <2>2, <3>1, AfterwardsIs
  <2>3. CASE ZmqReadBlocks
    <3> DEFINE sb == k.send_buf
    <3>1. /\ sb = <<>> /\ Afterwards(k) /\ Watch("NULL")
          /\ Message.cmd # "STOP" => UNCHANGED sockets
      BY <2>3 DEF ZmqReadBlocks
    <3>2. [k EXCEPT !.send_buf = sb] = k
      BY <1>2 DEF Connection
    <3>3. \/ Message.cmd = "STOP" /\ Drops(fd)
          \/ /\ Message.cmd # "STOP"
             /\ \E c : /\ Turns(fd, c, s)
                       /\ c.player_idx = IF Message.cmd = "START" \/ conn_map[fd].player_idx = 0
                                         THEN Message.player_idx ELSE conn_map[fd].player_idx
                       /\ c.recv_buf = conn_map[fd].recv_buf
                       /\ c.send_buf = sb
      BY <1>2, <2>2, <3>1, <3>2
    <3>4. old \o sb = Stream(fd)
      BY DEF Stream
    <3> HIDE DEF old
    <3> QED
      BY <1>1, <1>2, <1>3, <2>1, <3>1, <3>3, <3>4 DEF Answered
  <2>4. CASE ZmqReadAppend
    <3> DEFINE sb == k.send_buf \o f
    <3>1. /\ k.send_buf # <<>> /\ Afterwards([k EXCEPT !.send_buf = sb]) /\ Unwatched
          /\ Message.cmd # "STOP" => UNCHANGED sockets
      BY <1>5, <2>4 DEF ZmqReadAppend
    <3>2. sb \in Seq(Bytes) /\ sb # <<>>
      <4>1. sb \in Seq(Bytes) /\ Len(sb) = Len(k.send_buf) + Size /\ Len(k.send_buf) \in Nat
        BY <1>2, <1>6
      <4> HIDE DEF sb
      <4> QED
        BY <4>1, SizePositive
    <3>3. old \o sb = Stream(fd) \o f
      <4>1. (old \o k.send_buf) \o f = old \o (k.send_buf \o f)
        <5> HIDE DEF old, k
        <5> QED
          BY <1>2, <1>3, <1>6, JoinAssoc, Zenon
      <4> QED
        BY <4>1 DEF Stream
    <3> HIDE DEF sb, old
    <3>4. \/ Message.cmd = "STOP" /\ Drops(fd)
          \/ /\ Message.cmd # "STOP"
             /\ \E c : /\ Turns(fd, c, s)
                       /\ c.player_idx = IF Message.cmd = "START" \/ conn_map[fd].player_idx = 0
                                         THEN Message.player_idx ELSE conn_map[fd].player_idx
                       /\ c.recv_buf = conn_map[fd].recv_buf
                       /\ c.send_buf = sb
      BY <2>2, <3>1, <3>2
    <3> QED
      BY <1>1, <1>3, <1>5, <2>1, <3>1, <3>2, <3>3, <3>4 DEF Answered
  <2> QED
    BY <1>8, <2>3, <2>4
<1> QED
  BY <1>7, <1>8 DEF Replies

\* The events behind it.
LEMMA RepliesEvents ==
    ASSUME TypeInv, NEW fd, fd = To, fd \in Fds, NEW arg \in {"NULL", "epoller"},
           Watch(arg) \/ Unwatched
    PROVE  /\ file_events' \in [Fds -> Event]
           /\ \A f \in Fds \ {fd} : file_events'[f] = file_events[f]
           /\ Message.cmd = "STOP" => \/ file_events'[fd].mask = {}
                                      \/ fd >= MaxEvents /\ file_events'[fd] = file_events[fd]
           /\ Message.cmd # "STOP" /\ Watch(arg) => AddEvent(fd, "WRITE", arg)
           /\ Message.cmd # "STOP" /\ Unwatched => file_events' = file_events
<1>1. file_events \in [Fds -> Event]
  BY DEF TypeInv
<1>2. CASE Unwatched /\ Message.cmd = "STOP"
  BY <1>1, <1>2, Cleared DEF Unwatched
<1>3. CASE Unwatched /\ Message.cmd # "STOP"
  <2>1. file_events' = file_events
    BY <1>3 DEF Unwatched
  <2>2. ASSUME Watch(arg) PROVE AddEvent(fd, "WRITE", arg)
    BY <1>3, <2>2 DEF Watch
  <2> QED
    BY <1>1, <1>3, <2>1, <2>2
<1>4. CASE Watch(arg) /\ Message.cmd = "STOP" /\ fd < MaxEvents
  <2> DEFINE e == [Added(file_events[fd], "WRITE", arg) EXCEPT !.mask = {}]
  <2>1. file_events' = [file_events EXCEPT ![fd] = e]
    BY <1>4 DEF Watch
  <2>2. file_events[fd] \in Event
    BY <1>1
  <2>3. e \in Event /\ e.mask = {}
    <3>1. Added(file_events[fd], "WRITE", arg) \in Event
      BY <2>2 DEF Added, Event
    <3> QED
      BY <3>1 DEF Event
  <2> HIDE DEF e
  <2> QED
    BY <1>1, <1>4, <2>1, <2>3
<1>5. CASE Watch(arg) /\ (Message.cmd # "STOP" \/ ~(fd < MaxEvents))
  <2>1. AddEvent(fd, "WRITE", arg)
    BY <1>5 DEF Watch
  <2>2. fd \in Int /\ MaxEvents \in Int
    BY ConnIoAssumption DEF Fds
  <2>3. Message.cmd # "STOP" /\ Unwatched => file_events' = file_events
    BY DEF Unwatched
  <2> QED
    BY <1>1, <1>5, <2>1, <2>2, <2>3, EventAdded
<1> QED
  BY <1>2, <1>3, <1>4, <1>5

-----------------------------------------------------------------------------
(* Types *)

LEMMA TypesBegin == Init => TypeInv
<1> SUFFICES ASSUME Init PROVE TypeInv
  OBVIOUS
<1>1. NoEvent \in Event
  BY DEF NoEvent, Event
<1>2. NoSocket \in Socket
  BY ConnIoAssumption DEF NoSocket, Socket
<1>3. ConnsOK
  BY DEF Init, ConnsOK
<1>4. RoundOK
  BY DEF Init, RoundOK
<1>5. NumbersOK
  BY DEF Init, LinksInit, NumbersOK
<1>6. /\ accepted \in 0..MaxConns
      /\ requested \in [Conns -> Nat] /\ forwarded \in [Conns -> Seq(Seq(Bytes))]
      /\ wire \in [Conns -> Seq(Bytes)]
  BY ConnIoAssumption DEF Init
<1>8. IsSeq(asked)
  <2>1. asked = <<>> /\ <<>> \in Seq({})
    BY DEF Init, LinksInit
  <2> QED
    BY <2>1 DEF IsSeq
<1>7. file_events \in [Fds -> Event] /\ sockets \in [Fds -> Socket]
  BY <1>1, <1>2 DEF Init
<1> QED
  BY <1>3, <1>4, <1>5, <1>6, <1>7, <1>8 DEF TypeInv

\* Requests are added to those asked.
LEMMA AskedGrows ==
    ASSUME [Next]_vars
    PROVE  asked' = asked \/ \E r : asked' = Append(asked, r)
  BY DEF Next, Handles, ZmqReadLoop, DoTcpAccept, EpollWait, RecvFails, RecvEnd, RecvData,
         ForwardFrame, NoFrame, NoWriteProc, WriteNoConn, WriteFails, WriteSends,
         ZmqReadNoConn, ZmqReadSendFail, ZmqReadSend, ZmqReadBlocks, ZmqReadAppend, Taken,
         GameSends, GameTakes, ClientSends, ClientEnds, ClientReads, vars, links

\* One connection and its socket change.
LEMMA Turned ==
    ASSUME TypeInv, accepted' = accepted, NEW fd, NEW c, NEW s, Turns(fd, c, s)
    PROVE  /\ ConnsOK' /\ sockets' \in [Fds -> Socket] /\ fd \in DOMAIN conn_map
           /\ DOMAIN conn_map' = DOMAIN conn_map
           /\ conn_map'[fd] = c /\ sockets'[fd] = s
           /\ \A f \in DOMAIN conn_map \ {fd} :
                  conn_map'[f] = conn_map[f] /\ sockets'[f] = sockets[f]
<1>1. fd \in DOMAIN conn_map /\ fd \in Fds
  BY DEF Turns, Changes, TypeInv, ConnsOK
<1>2. /\ ConnsOK' /\ DOMAIN conn_map' = DOMAIN conn_map /\ conn_map'[fd] = c
      /\ \A f \in DOMAIN conn_map \ {fd} : conn_map'[f] = conn_map[f]
  BY Changed DEF Turns, TypeInv
<1>3. /\ sockets' \in [Fds -> Socket] /\ sockets'[fd] = s
      /\ \A f \in Fds \ {fd} : sockets'[f] = sockets[f]
  BY <1>1, SocketChanged DEF Turns, TypeInv
<1> QED
  BY <1>1, <1>2, <1>3 DEF TypeInv, ConnsOK

\* A handler of an event ends with the connection.
Gone == \/ RecvFails \/ RecvEnd \/ WriteFails
        \/ \E n \in 1..PkgBufSize : RecvData(n) /\ Release(Fd, Arg)
        \/ \E body \in Bodies : ForwardFrame(body) /\ Release(Fd, Arg)

LEMMA GoneIs ==
    ASSUME TypeInv, Gone
    PROVE  /\ Release(Fd, Arg) /\ Fd \in DOMAIN conn_map
           /\ status = "up" /\ round # <<>> /\ round' = Tail(round)
           /\ UNCHANGED <<g2c, accepted, requested, forwarded, wire, messages>>
<1> USE DEF Flag
<1>1. CASE RecvFails
  BY <1>1, RoundFirst DEF RecvFails, TypeInv, ConnsOK, links
<1>2. CASE RecvEnd
  BY <1>2, RoundFirst DEF RecvEnd, TypeInv, ConnsOK, links
<1>3. CASE WriteFails
  BY <1>3 DEF WriteFails, Writable, links
<1>4. ASSUME NEW n \in 1..PkgBufSize, RecvData(n), Release(Fd, Arg)
      PROVE  /\ Fd \in DOMAIN conn_map /\ status = "up" /\ round # <<>> /\ round' = Tail(round)
             /\ UNCHANGED <<g2c, accepted, requested, forwarded, wire, messages>>
  <2>1. /\ Fd \in DOMAIN conn_map /\ status = "up" /\ round # <<>>
    BY <1>4, RoundFirst DEF RecvData, TypeInv, ConnsOK
  <2>2. UNCHANGED <<g2c, accepted, requested, forwarded, wire, messages>>
    BY <1>4 DEF RecvData, links
  <2>3. DOMAIN conn_map' = DOMAIN conn_map \ {Fd}
    BY <1>4 DEF Release
  <2>4. round' = Tail(round)
    <3>1. ASSUME conn_map' = [conn_map EXCEPT ![Fd].recv_buf =
                                  conn_map[Fd].recv_buf \o SubSeq(sockets[Fd].in, 1, n)]
          PROVE  FALSE
      BY <2>1, <2>3, <3>1
    <3> QED
      BY <1>4, <3>1 DEF RecvData
  <2> QED
    BY <2>1, <2>2, <2>4
<1>5. ASSUME NEW body \in Bodies, ForwardFrame(body), Release(Fd, Arg)
      PROVE  /\ Fd \in DOMAIN conn_map /\ status = "up" /\ round # <<>> /\ round' = Tail(round)
             /\ UNCHANGED <<g2c, accepted, requested, forwarded, wire, messages>>
  <2>1. /\ Fd \in DOMAIN conn_map /\ status = "up" /\ round # <<>>
    BY <1>5, RoundFirst DEF ForwardFrame, TypeInv, ConnsOK
  <2>2. UNCHANGED <<g2c, accepted, requested, wire, messages>>
    BY <1>5 DEF ForwardFrame, links
  <2>3. DOMAIN conn_map' = DOMAIN conn_map \ {Fd}
    BY <1>5 DEF Release
  <2>4. round' = Tail(round) /\ forwarded' = forwarded
    <3>1. ASSUME conn_map' = [conn_map EXCEPT ![Fd].recv_buf = RemoveRecvProto(@)]
          PROVE  FALSE
      BY <2>1, <2>3, <3>1
    <3> QED
      BY <1>5, <3>1 DEF ForwardFrame
  <2> QED
    BY <2>1, <2>2, <2>4
<1> QED
  BY <1>1, <1>2, <1>3, <1>4, <1>5 DEF Gone, RecvFails, RecvEnd, WriteFails

\* The steps, with those that end a connection in one.
LEMMA Steps ==
    ASSUME TypeInv, [Next]_vars
    PROVE  \/ \E fd \in Fds : DoTcpAccept(fd) \/ EpollWait(fd)
           \/ Gone
           \/ \E n \in 1..PkgBufSize : RecvData(n) /\ ~Release(Fd, Arg)
           \/ \E body \in Bodies : ForwardFrame(body) /\ ~Release(Fd, Arg)
           \/ NoFrame \/ NoWriteProc \/ WriteNoConn \/ WriteSends
           \/ ZmqReadNoConn \/ ZmqReadSendFail \/ Replies
           \/ \E cmd \in {"START", "PROC", "STOP"}, fd \in Fds : GameSends(cmd, fd)
           \/ GameTakes
           \/ \E fd \in Fds : \/ ClientSends(fd) \/ ClientReads(fd)
                              \/ \E end \in {"fin", "reset"} : ClientEnds(fd, end)
           \/ UNCHANGED vars
  BY DEF Next, Handles, ZmqReadLoop, Gone, Replies

LEMMA ClientSendsIs ==
    ASSUME TypeInv, NEW fd \in Fds, ClientSends(fd)
    PROVE  /\ fd \in DOMAIN conn_map /\ conn_map' = conn_map
           /\ \E s \in Socket :
                 /\ sockets' = [sockets EXCEPT ![fd] = s]
                 /\ s.in = sockets[fd].in \o Frame(requested[conn_map[fd].conn] + 1)
           /\ requested' = [requested EXCEPT ![conn_map[fd].conn] =
                                requested[conn_map[fd].conn] + 1]
           /\ requested' \in [Conns -> Nat]
<1> DEFINE c == conn_map[fd].conn
           in == sockets[fd].in \o Frame(requested[c] + 1)
           s == [sockets[fd] EXCEPT !.in = in]
<1>1. fd \in DOMAIN conn_map /\ conn_map' = conn_map
  BY DEF ClientSends
<1>2. c \in Conns /\ sockets[fd].in \in Seq(Bytes) /\ sockets[fd] \in Socket
  BY <1>1, ConnOf
<1>3. requested[c] \in Nat /\ requested[c] + 1 \in Nat
  BY <1>2 DEF TypeInv
<1>4. Frame(requested[c] + 1) \in Seq(Bytes)
  BY <1>3, FrameParts
<1>5. in \in Seq(Bytes)
  BY <1>2, <1>4
<1>6. /\ requested' = [requested EXCEPT ![c] = requested[c] + 1]
      /\ sockets' = [sockets EXCEPT ![fd] = s]
  BY DEF ClientSends
<1> HIDE DEF in, c
<1>7. s \in Socket /\ s.in = in
  BY <1>2, <1>5, WithFields
<1>8. requested' \in [Conns -> Nat]
  BY <1>2, <1>3, <1>6 DEF TypeInv
<1> QED
  BY <1>1, <1>6, <1>7, <1>8 DEF in, c

\* The client reads, or closes: what it has sent is still there.
LEMMA ClientIs ==
    ASSUME TypeInv, NEW fd \in Fds,
           ClientReads(fd) \/ \E end \in {"fin", "reset"} : ClientEnds(fd, end)
    PROVE  /\ fd \in DOMAIN conn_map /\ conn_map' = conn_map
           /\ \E s \in Socket : /\ sockets' = [sockets EXCEPT ![fd] = s]
                                /\ s.in = sockets[fd].in
           /\ UNCHANGED <<links, status, conn_map, file_events, round, accepted, delivered,
                          requested, forwarded, wire, messages>>
<1>1. /\ fd \in DOMAIN conn_map
      /\ UNCHANGED <<links, status, conn_map, file_events, round, accepted, delivered,
                     requested, forwarded, wire, messages>>
  BY DEF ClientReads, ClientEnds
<1>2. sockets[fd] \in Socket /\ sockets[fd].out \in 0..SocketBuf
  BY <1>1, ConnOf
<1>3. CASE ClientReads(fd)
  <2>1. PICK left \in 0..sockets[fd].out - 1 : sockets' = [sockets EXCEPT ![fd].out = left]
    BY <1>3 DEF ClientReads
  <2> DEFINE s == [sockets[fd] EXCEPT !.out = left]
  <2>2. left \in 0..SocketBuf
    BY <1>2, SizePositive
  <2>3. s \in Socket /\ s.in = sockets[fd].in
    BY <1>2, <2>2, WithFields
  <2>4. sockets' = [sockets EXCEPT ![fd] = s]
    BY <2>1
  <2> QED
    BY <1>1, <2>3, <2>4
<1>4. ASSUME NEW end \in {"fin", "reset"}, ClientEnds(fd, end)
      PROVE  \E s \in Socket : /\ sockets' = [sockets EXCEPT ![fd] = s]
                               /\ s.in = sockets[fd].in
  <2> DEFINE s == [sockets[fd] EXCEPT !.end = end]
  <2>1. s \in Socket /\ s.in = sockets[fd].in
    BY <1>2, WithFields
  <2>2. sockets' = [sockets EXCEPT ![fd] = s]
    BY <1>4 DEF ClientEnds
  <2> QED
    BY <2>1, <2>2
<1> QED
  BY <1>1, <1>3, <1>4

LEMMA TypesStep == TypeInv /\ [Next]_vars => TypeInv'
<1> SUFFICES ASSUME TypeInv, [Next]_vars PROVE TypeInv'
  OBVIOUS
<1> DEFINE Others == UNCHANGED <<accepted, requested, forwarded, wire>>
           Streams == /\ accepted \in 0..MaxConns /\ requested \in [Conns -> Nat]
                      /\ forwarded \in [Conns -> Seq(Seq(Bytes))]
                      /\ wire \in [Conns -> Seq(Bytes)]
<1>asked. IsSeq(asked')
  <2>1. PICK S : asked \in Seq(S)
    BY DEF TypeInv, IsSeq
  <2>2. ASSUME NEW r PROVE Append(asked, r) \in Seq(S \cup {r})
    BY <2>1
  <2> QED
    BY <2>1, <2>2, AskedGrows DEF IsSeq
<1>0. /\ Streams /\ ConnsOK /\ RoundOK /\ NumbersOK /\ DOMAIN conn_map \subseteq Fds
      /\ file_events \in [Fds -> Event] /\ sockets \in [Fds -> Socket]
  BY DEF TypeInv, ConnsOK
<1>goal. SUFFICES Streams' /\ ConnsOK' /\ RoundOK' /\ NumbersOK'
                /\ file_events' \in [Fds -> Event] /\ sockets' \in [Fds -> Socket]
  BY <1>asked DEF TypeInv
<1>streams. Others => Streams'
  BY <1>0
<1>conns. UNCHANGED <<conn_map, accepted>> => ConnsOK'
  BY <1>0 DEF ConnsOK
<1>round. UNCHANGED <<round, conn_map>> => RoundOK'
  BY <1>0 DEF RoundOK
<1>numbers. UNCHANGED <<g2c, messages>> => NumbersOK'
  BY <1>0 DEF NumbersOK
<1> HIDE DEF Streams
<1>1. ASSUME NEW fd \in Fds, DoTcpAccept(fd) PROVE TypeInv'
  <2>1. ConnsOK' /\ sockets' \in [Fds -> Socket] /\ accepted' \in 0..MaxConns
    BY <1>0, <1>1, Joined DEF Streams
  <2>2. round = <<>> /\ round' = round /\ UNCHANGED <<g2c, messages, requested, forwarded, wire>>
    BY <1>1 DEF DoTcpAccept, Idle, links
  <2>3. RoundOK'
    BY <2>2 DEF RoundOK
  <2>4. file_events' \in [Fds -> Event]
    BY <1>0, <1>1, EventAdded DEF DoTcpAccept
  <2> QED
    BY <1>asked, <1>0, <1>numbers, <2>1, <2>2, <2>3, <2>4 DEF Streams, TypeInv
<1>2. ASSUME NEW fd \in Fds, EpollWait(fd) PROVE TypeInv'
  <2>1. RoundOK'
    BY <1>0, <1>2, RoundBegins
  <2>2. UNCHANGED <<conn_map, g2c, messages, file_events, sockets, accepted, requested, forwarded, wire>>
    BY <1>2 DEF EpollWait, links
  <2> QED
    BY <1>asked, <1>0, <1>streams, <1>conns, <1>numbers, <2>1, <2>2 DEF Streams, TypeInv
<1>3. CASE Gone
  <2>1. /\ Release(Fd, Arg) /\ Fd \in DOMAIN conn_map /\ round # <<>> /\ round' = Tail(round)
        /\ UNCHANGED <<g2c, messages>> /\ Others
    BY <1>3, GoneIs
  <2>2. RoundOK'
    BY <1>0, <2>1, RoundTail
  <2>3. PICK fd, arg : fd = Fd /\ arg = Arg
    OBVIOUS
  <2>4. Drops(fd) /\ file_events' \in [Fds -> Event]
    BY <1>0, <2>1, <2>3, Released
  <2>5. ConnsOK' /\ sockets' \in [Fds -> Socket]
    BY <1>0, <2>1, <2>4, Dropped
  <2> QED
    BY <1>asked, <1>streams, <1>numbers, <2>1, <2>2, <2>4, <2>5 DEF TypeInv, Streams
<1>4. ASSUME NEW n \in 1..PkgBufSize, RecvData(n), ~Release(Fd, Arg) PROVE TypeInv'
  <2>1. PICK fd : fd = Fd
    OBVIOUS
  <2>2. /\ fd \in DOMAIN conn_map /\ round # <<>>
        /\ round' = <<<<Fd, "FRAMES">>>> \o Tail(round)
        /\ UNCHANGED <<status, file_events>>
        /\ \E c, s : Turns(fd, c, s)
    BY <1>4, <2>1, RecvDataIs
  <2>3. UNCHANGED <<g2c, messages>> /\ Others
    BY <1>4 DEF RecvData, links
  <2>4. ConnsOK' /\ sockets' \in [Fds -> Socket] /\ DOMAIN conn_map' = DOMAIN conn_map
    BY <2>2, <2>3, Turned
  <2>5. RoundOK'
    BY <1>0, <2>1, <2>2, <2>4, RoundFrames
  <2> QED
    BY <1>asked, <1>0, <1>streams, <1>numbers, <2>2, <2>3, <2>4, <2>5 DEF TypeInv, Streams
<1>5. ASSUME NEW body \in Bodies, ForwardFrame(body), ~Release(Fd, Arg) PROVE TypeInv'
  <2>1. PICK fd : fd = Fd
    OBVIOUS
  <2>2. /\ fd \in DOMAIN conn_map /\ Len(conn_map[fd].recv_buf) >= Size
        /\ forwarded' = [forwarded EXCEPT ![conn_map[fd].conn] =
                            Append(@, SubSeq(conn_map[fd].recv_buf, 1, Size))]
        /\ UNCHANGED <<round, status, file_events, sockets>>
        /\ \E c : Turns(fd, c, sockets[fd])
    BY <1>5, <2>1, ForwardFrameIs
  <2>3. UNCHANGED <<g2c, messages, accepted, requested, wire>>
    BY <1>5 DEF ForwardFrame, links
  <2>4. ConnsOK' /\ sockets' \in [Fds -> Socket] /\ DOMAIN conn_map' = DOMAIN conn_map
    BY <2>2, <2>3, Turned
  <2>5. RoundOK'
    BY <1>0, <2>2, <2>4 DEF RoundOK
  <2>6. SubSeq(conn_map[fd].recv_buf, 1, Size) \in Seq(Bytes)
    <3>1. conn_map[fd].recv_buf \in Seq(Bytes)
      BY <2>2, ConnOf
    <3>2. Size \in 0..Len(conn_map[fd].recv_buf)
      BY <2>2, <3>1, SizePositive
    <3> QED
      BY <3>1, <3>2, CutAndJoin
  <2>7. forwarded' \in [Conns -> Seq(Seq(Bytes))]
    <3>1. conn_map[fd].conn \in Conns
      BY <2>2, ConnOf
    <3> QED
      BY <1>0, <2>2, <2>6, <3>1 DEF Streams
  <2> QED
    BY <1>asked, <1>0, <1>numbers, <2>2, <2>3, <2>4, <2>5, <2>7 DEF TypeInv, Streams
<1>6. CASE NoFrame \/ NoWriteProc \/ WriteNoConn
  <2>1. /\ UNCHANGED <<conn_map, g2c, messages, file_events, sockets>> /\ Others
        /\ round # <<>> /\ (round' = Tail(round) \/ round' = round)
    BY <1>6 DEF NoFrame, NoWriteProc, WriteNoConn, Flag, Writable, links
  <2>2. RoundOK'
    BY <1>0, <1>round, <2>1, RoundTail
  <2> QED
    BY <1>asked, <1>0, <1>streams, <1>conns, <1>numbers, <2>1, <2>2 DEF TypeInv, Streams
<1>7. CASE WriteSends
  <2>1. PICK fd : fd = Fd
    OBVIOUS
  <2>2. PICK c, s, w :
            /\ Turns(fd, c, s)
            /\ w \in Seq(Bytes) /\ wire' = [wire EXCEPT ![c.conn] = w]
            /\ file_events' = file_events \/ DelEvent(fd, {"WRITE"})
    BY <1>7, <2>1, WriteSendsIs
  <2>3. /\ UNCHANGED <<g2c, messages, accepted, requested, forwarded>>
        /\ round # <<>> /\ round' = Tail(round)
    BY <1>7 DEF WriteSends, Writable, Flag, links
  <2>4. ConnsOK' /\ sockets' \in [Fds -> Socket] /\ fd \in Fds
    BY <1>0, <2>2, <2>3, Turned
  <2>5. RoundOK'
    BY <1>0, <2>3, RoundTail
  <2>6. file_events' \in [Fds -> Event]
    BY <1>0, <2>2, <2>4, Unwritten
  <2>7. wire' \in [Conns -> Seq(Bytes)]
    BY <1>0, <2>2 DEF Streams
  <2> QED
    BY <1>asked, <1>0, <1>numbers, <2>3, <2>4, <2>5, <2>6, <2>7 DEF TypeInv, Streams
<1>8. CASE ZmqReadNoConn
  <2>1. g2c # <<>> /\ g2c' = Tail(g2c) /\ UNCHANGED io
    BY <1>8 DEF ZmqReadNoConn
  <2>2. NumbersOK' 
    BY <1>0, <2>1, NumbersTail DEF io
  <2> QED
    BY <1>asked, <1>0, <1>streams, <1>conns, <1>round, <2>1, <2>2 DEF io, TypeInv, Streams
<1>9. CASE ZmqReadSendFail
  <2>1. PICK fd : fd = To
    OBVIOUS
  <2>2. /\ Release(fd, "epoller") /\ fd \in DOMAIN conn_map /\ round = <<>> /\ round' = round
        /\ g2c # <<>> /\ g2c' = Tail(g2c) /\ messages' = messages /\ Others
    BY <1>9, <2>1 DEF ZmqReadSendFail, Idle
  <2>3. Drops(fd) /\ file_events' \in [Fds -> Event]
    BY <1>0, <2>2, Released
  <2>4. ConnsOK' /\ sockets' \in [Fds -> Socket]
    BY <1>0, <2>2, <2>3, Dropped
  <2>5. RoundOK' /\ NumbersOK'
    BY <1>0, <2>2, NumbersTail DEF RoundOK
  <2> QED
    BY <1>asked, <1>streams, <2>2, <2>3, <2>4, <2>5 DEF TypeInv, Streams
<1>10. CASE Replies
  <2>1. PICK fd : fd = To
    OBVIOUS
  <2>2. /\ Taken /\ fd \in DOMAIN conn_map
        /\ \E w \in Seq(Bytes) : wire' = [wire EXCEPT ![conn_map[fd].conn] = w]
        /\ Drops(fd) \/ \E c, s : Turns(fd, c, s)
        /\ Watch("NULL") \/ Watch("epoller") \/ Unwatched
    BY <1>10, <2>1, RepliesIs DEF Answered
  <2>3. /\ UNCHANGED <<accepted, requested, forwarded, messages>>
        /\ round = <<>> /\ round' = round /\ g2c # <<>> /\ g2c' = Tail(g2c)
    BY <2>2 DEF Taken, Idle
  <2>4. ConnsOK' /\ sockets' \in [Fds -> Socket]
    BY <1>0, <2>2, <2>3, Dropped, Turned
  <2>5. RoundOK' /\ NumbersOK'
    BY <1>0, <2>3, NumbersTail DEF RoundOK
  <2>6. file_events' \in [Fds -> Event]
    <3>1. fd \in Fds
      BY <1>0, <2>2
    <3> QED
      BY <2>1, <2>2, <3>1, RepliesEvents
  <2>7. wire' \in [Conns -> Seq(Bytes)]
    BY <1>0, <2>2 DEF Streams
  <2> QED
    BY <1>asked, <1>0, <2>3, <2>4, <2>5, <2>6, <2>7 DEF TypeInv, Streams
<1>11. ASSUME NEW cmd \in {"START", "PROC", "STOP"}, NEW fd \in Fds, GameSends(cmd, fd)
       PROVE  TypeInv'
  <2> DEFINE seq == IF cmd = "START" THEN Len(asked) ELSE 0
             m == [cmd |-> cmd, conn_fd |-> fd, player_idx |-> 1,
                   seq |-> seq, ret |-> 0, n |-> messages + 1]
  <2>1. /\ g2c' = Append(g2c, m) /\ messages' = messages + 1
        /\ UNCHANGED <<conn_map, file_events, round, sockets>> /\ Others
    BY <1>11 DEF GameSends
  <2>2. Len(asked) \in Nat
    <3>1. PICK S : asked \in Seq(S)
      BY DEF TypeInv, IsSeq
    <3> QED
      BY <3>1
  <2>3. m \in ToClient /\ m.n = messages + 1
    BY <1>0, <2>2 DEF ToClient, NumbersOK
  <2>4. NumbersOK'
    <3> HIDE DEF m
    <3> QED
      BY <1>0, <2>1, <2>3, NumbersAppend
  <2> QED
    BY <1>asked, <1>0, <1>streams, <1>conns, <1>round, <2>1, <2>4 DEF TypeInv, Streams
<1>12. CASE GameTakes \/ UNCHANGED vars
  <2>1. UNCHANGED <<g2c, io>>
    BY <1>12 DEF GameTakes, vars, links
  <2> QED
    BY <1>asked, <1>0, <1>streams, <1>conns, <1>round, <1>numbers, <2>1 DEF io, TypeInv, Streams
<1>13. ASSUME NEW fd \in Fds, ClientSends(fd) PROVE TypeInv'
  <2>1. PICK s \in Socket : sockets' = [sockets EXCEPT ![fd] = s]
    BY <1>13, ClientSendsIs
  <2>2. conn_map' = conn_map /\ requested' \in [Conns -> Nat]
    BY <1>13, ClientSendsIs
  <2>3. UNCHANGED <<g2c, messages, file_events, round, accepted, forwarded, wire>>
    BY <1>13 DEF ClientSends, links
  <2> QED
    BY <1>asked, <1>0, <1>conns, <1>round, <1>numbers, <2>1, <2>2, <2>3 DEF TypeInv, Streams
<1>14. ASSUME NEW fd \in Fds,
              ClientReads(fd) \/ \E end \in {"fin", "reset"} : ClientEnds(fd, end)
       PROVE  TypeInv'
  <2>1. PICK s \in Socket : sockets' = [sockets EXCEPT ![fd] = s]
    BY <1>14, ClientIs
  <2>2. /\ UNCHANGED <<conn_map, g2c, messages, file_events, round>> /\ Others
    BY <1>14, ClientIs DEF links
  <2> QED
    BY <1>asked, <1>0, <1>streams, <1>conns, <1>round, <1>numbers, <2>1, <2>2 DEF TypeInv, Streams
<1> QED
  BY <1>1, <1>2, <1>3, <1>4, <1>5, <1>6, <1>7, <1>8, <1>9, <1>10, <1>11, <1>12, <1>13,
     <1>14, Steps DEF TypeInv, Streams

LEMMA ConnIoTyped == Spec => []TypeInv
  BY TypesBegin, TypesStep, PTL DEF Spec

-----------------------------------------------------------------------------
(* Who is watched *)

\* WatchInv of one descriptor: the conjuncts, for a connection and for none.
Watched(fd) ==
    fd < MaxEvents =>
        LET watched == "WRITE" \in file_events[fd].mask
        IN  /\ conn_map[fd].send_buf # <<>> => watched
            /\ watched /\ conn_map[fd].send_buf = <<>> => file_events[fd].client_data = "NULL"
Unseen(fd) == file_events[fd].mask = {}

LEMMA WatchParts ==
    ASSUME TypeInv
    PROVE  WatchInv <=> (status = "up" =>
               /\ \A fd \in Fds : fd \notin DOMAIN conn_map \/ fd >= MaxEvents => Unseen(fd)
               /\ \A fd \in DOMAIN conn_map : Watched(fd))
  BY DEF WatchInv, Watched, Unseen

\* A step about one descriptor.
LEMMA WatchOne ==
    ASSUME TypeInv, TypeInv', WatchInv, status = "up" \/ status' # "up", NEW fd \in Fds,
           DOMAIN conn_map' \ {fd} = DOMAIN conn_map \ {fd},
           \A f \in DOMAIN conn_map \ {fd} : conn_map'[f] = conn_map[f],
           \A f \in Fds \ {fd} : file_events'[f] = file_events[f],
           status' = "up" => /\ fd \notin DOMAIN conn_map' \/ fd >= MaxEvents => Unseen(fd)'
                             /\ fd \in DOMAIN conn_map' => Watched(fd)'
    PROVE  WatchInv'
<1> SUFFICES ASSUME status' = "up" PROVE WatchInv'
  BY DEF WatchInv
<1>1. /\ \A f \in Fds : f \notin DOMAIN conn_map \/ f >= MaxEvents => Unseen(f)
      /\ \A f \in DOMAIN conn_map : Watched(f)
  BY WatchParts
<1>2. ASSUME NEW f \in Fds, f \notin DOMAIN conn_map' \/ f >= MaxEvents PROVE Unseen(f)'
  <2>1. CASE f = fd
    BY <1>2, <2>1
  <2>2. CASE f # fd
    <3>1. f \notin DOMAIN conn_map \/ f >= MaxEvents
      BY <1>2, <2>2
    <3>2. file_events'[f] = file_events[f]
      BY <2>2
    <3> QED
      BY <1>1, <3>1, <3>2 DEF Unseen
  <2> QED
    BY <2>1, <2>2
<1>3. ASSUME NEW f \in DOMAIN conn_map' PROVE Watched(f)'
  <2>1. CASE f = fd
    BY <2>1
  <2>2. CASE f # fd
    <3>1. f \in DOMAIN conn_map /\ f \in Fds
      BY <2>2 DEF TypeInv, ConnsOK
    <3>2. file_events'[f] = file_events[f] /\ conn_map'[f] = conn_map[f]
      BY <2>2, <3>1
    <3> QED
      BY <1>1, <3>1, <3>2 DEF Watched
  <2> QED
    BY <2>1, <2>2
<1> QED
  BY <1>2, <1>3 DEF WatchInv, Watched, Unseen

\* A step that does not concern it.
LEMMA WatchSame ==
    ASSUME WatchInv, UNCHANGED <<conn_map, file_events>>, status' = status \/ status' # "up"
    PROVE  WatchInv'
  BY DEF WatchInv

LEMMA WatchBegin == Init => WatchInv
<1> SUFFICES ASSUME Init PROVE WatchInv
  OBVIOUS
<1>1. DOMAIN conn_map = {} /\ \A fd \in Fds : file_events[fd].mask = {}
  BY DEF Init, NoEvent
<1> QED
  BY <1>1 DEF WatchInv

LEMMA WatchStep == TypeInv /\ TypeInv' /\ WatchInv /\ [Next]_vars => WatchInv'
<1> SUFFICES ASSUME TypeInv, TypeInv', WatchInv, [Next]_vars PROVE WatchInv'
  OBVIOUS
<1>0. /\ file_events \in [Fds -> Event] /\ sockets \in [Fds -> Socket] /\ ConnsOK
      /\ DOMAIN conn_map \subseteq Fds /\ accepted \in 0..MaxConns
  BY DEF TypeInv, ConnsOK
<1>bounds. MaxEvents \in Int /\ \A f \in Fds : f \in Int
  BY ConnIoAssumption DEF Fds
<1>parts. status = "up" =>
              /\ \A f \in Fds : f \notin DOMAIN conn_map \/ f >= MaxEvents => Unseen(f)
              /\ \A f \in DOMAIN conn_map : Watched(f)
  BY WatchParts
<1>gone. ASSUME NEW fd \in DOMAIN conn_map, NEW arg, Release(fd, arg), status = "up",
                accepted' = accepted
         PROVE  WatchInv'
  <2>1. /\ Drops(fd)
        /\ \A f \in Fds \ {fd} : file_events'[f] = file_events[f]
        /\ status' = "crashed" \/ (file_events'[fd].mask = {} /\ status' = status)
    BY <1>0, <1>gone, Released
  <2>2. /\ DOMAIN conn_map' = DOMAIN conn_map \ {fd}
        /\ \A f \in DOMAIN conn_map' : conn_map'[f] = conn_map[f]
    BY <1>0, <1>gone, <2>1, Dropped
  <2> QED
    BY <1>0, <1>gone, <2>1, <2>2, WatchOne DEF Unseen
<1>1. ASSUME NEW fd \in Fds, DoTcpAccept(fd) PROVE WatchInv'
  <2>1. /\ fd \notin DOMAIN conn_map /\ DOMAIN conn_map' = DOMAIN conn_map \cup {fd}
        /\ conn_map'[fd].send_buf = <<>>
        /\ \A f \in DOMAIN conn_map : conn_map'[f] = conn_map[f]
    <3>1. /\ fd \notin DOMAIN conn_map /\ DOMAIN conn_map' = DOMAIN conn_map \cup {fd}
          /\ conn_map'[fd] = [player_idx |-> 0, conn |-> accepted + 1,
                              recv_buf |-> <<>>, send_buf |-> <<>>]
          /\ \A f \in DOMAIN conn_map : conn_map'[f] = conn_map[f]
      BY <1>0, <1>1, Joined, Zenon
    <3> QED
      BY <3>1
  <2>2. /\ status = "up" /\ status' = status /\ AddEvent(fd, "READ", "epoller")
    BY <1>1 DEF DoTcpAccept, Idle
  <2>3. Unseen(fd)
    BY <1>parts, <2>1, <2>2
  <2>4. /\ \A f \in Fds \ {fd} : file_events'[f] = file_events[f]
        /\ fd >= MaxEvents => file_events'[fd] = file_events[fd]
        /\ fd < MaxEvents => file_events'[fd].mask = file_events[fd].mask \cup {"READ"}
    BY <1>0, <2>2, EventAdded
  <2>5. Watched(fd)' /\ (fd >= MaxEvents => Unseen(fd)')
    BY <2>1, <2>3, <2>4 DEF Watched, Unseen
  <2> QED
    BY <2>1, <2>2, <2>4, <2>5, WatchOne
<1>2. CASE Gone
  <2>1. PICK fd, arg : fd = Fd /\ arg = Arg
    OBVIOUS
  <2>2. Release(fd, arg) /\ fd \in DOMAIN conn_map /\ status = "up" /\ accepted' = accepted
    BY <1>2, <2>1, GoneIs
  <2> QED
    BY <1>gone, <2>2
<1>3. ASSUME NEW fd, NEW c, NEW s, Turns(fd, c, s), status = "up",
             accepted' = accepted,
             c.send_buf = conn_map[fd].send_buf, UNCHANGED <<status, file_events>>
      PROVE  WatchInv'
  <2>1. /\ fd \in DOMAIN conn_map /\ DOMAIN conn_map' = DOMAIN conn_map /\ conn_map'[fd] = c
        /\ \A f \in DOMAIN conn_map \ {fd} : conn_map'[f] = conn_map[f]
    BY <1>3, Turned
  <2>2. Watched(fd) /\ (fd >= MaxEvents => Unseen(fd))
    BY <1>0, <1>3, <1>parts, <2>1
  <2>3. Watched(fd)' /\ (fd >= MaxEvents => Unseen(fd)')
    BY <1>3, <2>1, <2>2 DEF Watched, Unseen
  <2> QED
    BY <1>0, <1>3, <2>1, <2>3, WatchOne
<1>4. ASSUME NEW n \in 1..PkgBufSize, RecvData(n), ~Release(Fd, Arg) PROVE WatchInv'
  <2>1. PICK fd : fd = Fd
    OBVIOUS
  <2>2. \E c, s : Turns(fd, c, s) /\ c.send_buf = conn_map[fd].send_buf
                  /\ UNCHANGED <<status, file_events>>
    BY <1>4, <2>1, RecvDataIs
  <2>3. status = "up" /\ accepted' = accepted
    BY <1>4 DEF RecvData, Flag
  <2> QED
    BY <1>3, <2>2, <2>3
<1>5. ASSUME NEW body \in Bodies, ForwardFrame(body), ~Release(Fd, Arg) PROVE WatchInv'
  <2>1. PICK fd : fd = Fd
    OBVIOUS
  <2>2. \E c : Turns(fd, c, sockets[fd]) /\ c.send_buf = conn_map[fd].send_buf
               /\ UNCHANGED <<status, file_events>>
    BY <1>5, <2>1, ForwardFrameIs
  <2>3. status = "up" /\ accepted' = accepted
    BY <1>5 DEF ForwardFrame, Flag
  <2> QED
    BY <1>3, <2>2, <2>3
<1>6. CASE WriteSends
  <2>1. PICK fd : fd = Fd
    OBVIOUS
  <2>2. PICK c, s :
            /\ Turns(fd, c, s)
            /\ \/ /\ conn_map[fd].send_buf # <<>> /\ c.send_buf # <<>>
                  /\ UNCHANGED <<status, file_events>>
               \/ status' = "crashed" /\ file_events' = file_events
               \/ /\ c.send_buf = <<>>
                  /\ status' = status /\ DelEvent(fd, {"WRITE"})
    BY <1>6, <2>1, WriteSendsIs
  <2>3. status = "up" /\ accepted' = accepted
    BY <1>6 DEF WriteSends, Writable, Flag
  <2>4. /\ fd \in DOMAIN conn_map /\ DOMAIN conn_map' = DOMAIN conn_map /\ conn_map'[fd] = c
        /\ \A f \in DOMAIN conn_map \ {fd} : conn_map'[f] = conn_map[f]
    BY <2>2, <2>3, Turned
  <2>5. Watched(fd) /\ (fd >= MaxEvents => Unseen(fd))
    BY <1>0, <1>parts, <2>3, <2>4
  <2>6. CASE /\ conn_map[fd].send_buf # <<>> /\ c.send_buf # <<>>
             /\ UNCHANGED <<status, file_events>>
    <3>1. Watched(fd)' /\ (fd >= MaxEvents => Unseen(fd)')
      BY <2>4, <2>5, <2>6 DEF Watched, Unseen
    <3> QED
      BY <1>0, <2>3, <2>4, <2>6, <3>1, WatchOne
  <2>7. CASE status' = "crashed"
    BY <2>7 DEF WatchInv
  <2>8. CASE c.send_buf = <<>> /\ status' = status /\ DelEvent(fd, {"WRITE"})
    <3>1. /\ file_events'[fd].mask = file_events[fd].mask \ {"WRITE"}
          /\ \A f \in Fds \ {fd} : file_events'[f] = file_events[f]
      BY <1>0, <2>4, <2>8, Unwritten
    <3>2. Watched(fd)' /\ (fd >= MaxEvents => Unseen(fd)')
      BY <2>4, <2>5, <2>8, <3>1 DEF Watched, Unseen
    <3> QED
      BY <1>0, <2>3, <2>4, <2>8, <3>1, <3>2, WatchOne
  <2> QED
    BY <2>2, <2>6, <2>7, <2>8
<1>7. CASE ZmqReadSendFail
  <2>1. PICK fd : fd = To
    OBVIOUS
  <2>2. /\ Release(fd, "epoller") /\ fd \in DOMAIN conn_map /\ status = "up"
        /\ accepted' = accepted
    BY <1>7, <2>1 DEF ZmqReadSendFail, Idle
  <2> QED
    BY <1>gone, <2>2
<1>8. CASE Replies
  <2>1. PICK fd : fd = To
    OBVIOUS
  <2>2. PICK sb \in Seq(Bytes) :
            /\ \/ Message.cmd = "STOP" /\ Drops(fd)
               \/ /\ Message.cmd # "STOP"
                  /\ \E c, s : Turns(fd, c, s) /\ c.send_buf = sb
            /\ \/ sb = <<>> /\ conn_map[fd].send_buf = <<>> /\ Unwatched
               \/ sb = <<>> /\ Watch("NULL")
               \/ sb # <<>> /\ conn_map[fd].send_buf # <<>> /\ Unwatched
               \/ sb # <<>> /\ Watch("epoller")
    BY <1>8, <2>1, RepliesIs DEF Answered
  <2>3. Taken /\ fd \in DOMAIN conn_map /\ fd \in Fds
    BY <1>0, <1>8, <2>1, RepliesIs DEF Answered
  <2>4. status = "up" /\ status' = "up" /\ accepted' = accepted
    BY <2>3 DEF Taken, Idle
  <2>5. Watched(fd) /\ (fd >= MaxEvents => Unseen(fd))
    BY <1>parts, <2>3, <2>4
  <2>6. \A f \in Fds \ {fd} : file_events'[f] = file_events[f]
    BY <2>1, <2>2, <2>3, RepliesEvents
  <2>7. CASE Message.cmd = "STOP"
    <3>1. Drops(fd)
      BY <2>2, <2>7
    <3>2. /\ DOMAIN conn_map' = DOMAIN conn_map \ {fd}
          /\ \A f \in DOMAIN conn_map' : conn_map'[f] = conn_map[f]
      BY <1>0, <2>4, <3>1, Dropped
    <3>3. file_events'[fd].mask = {} \/ (fd >= MaxEvents /\ file_events'[fd] = file_events[fd])
      BY <2>1, <2>2, <2>3, <2>7, RepliesEvents
    <3>4. Unseen(fd)'
      BY <2>5, <3>3 DEF Unseen
    <3> QED
      BY <2>3, <2>4, <2>6, <3>2, <3>4, WatchOne
  <2>8. CASE Message.cmd # "STOP"
    <3>1. PICK c, s : Turns(fd, c, s) /\ c.send_buf = sb
      BY <2>2, <2>8
    <3>2. /\ DOMAIN conn_map' = DOMAIN conn_map /\ conn_map'[fd] = c
          /\ \A f \in DOMAIN conn_map \ {fd} : conn_map'[f] = conn_map[f]
      BY <2>4, <3>1, Turned
    <3>3. \/ sb = <<>> /\ conn_map[fd].send_buf = <<>> /\ file_events' = file_events
          \/ sb = <<>> /\ AddEvent(fd, "WRITE", "NULL")
          \/ sb # <<>> /\ conn_map[fd].send_buf # <<>> /\ file_events' = file_events
          \/ sb # <<>> /\ AddEvent(fd, "WRITE", "epoller")
      BY <2>1, <2>2, <2>3, <2>8, RepliesEvents
    <3>4. ASSUME file_events' = file_events, conn_map[fd].send_buf = <<>> <=> sb = <<>>
          PROVE  Watched(fd)' /\ (fd >= MaxEvents => Unseen(fd)')
      BY <2>5, <3>1, <3>2, <3>4 DEF Watched, Unseen
    <3>5. ASSUME NEW arg \in {"NULL", "epoller"}, AddEvent(fd, "WRITE", arg),
                 sb = <<>> => arg = "NULL"
          PROVE  Watched(fd)' /\ (fd >= MaxEvents => Unseen(fd)')
      <4>1. /\ fd >= MaxEvents => file_events'[fd] = file_events[fd]
            /\ fd < MaxEvents =>
                  /\ file_events'[fd].mask = file_events[fd].mask \cup {"WRITE"}
                  /\ file_events'[fd].client_data = arg
        BY <1>0, <2>3, <3>5, EventAdded
      <4> QED
        BY <2>3, <2>5, <3>1, <3>2, <3>5, <4>1 DEF Watched, Unseen
    <3>6. Watched(fd)' /\ (fd >= MaxEvents => Unseen(fd)')
      BY <3>3, <3>4, <3>5
    <3> QED
      BY <2>3, <2>4, <2>6, <3>2, <3>6, WatchOne
  <2> QED
    BY <2>7, <2>8
<1>9. ASSUME NEW fd \in Fds,
             \/ EpollWait(fd) \/ ClientSends(fd) \/ ClientReads(fd)
             \/ \E end \in {"fin", "reset"} : ClientEnds(fd, end)
             \/ \E cmd \in {"START", "PROC", "STOP"} : GameSends(cmd, fd)
      PROVE  WatchInv'
  BY <1>9, WatchSame DEF EpollWait, ClientSends, ClientReads, ClientEnds, GameSends
<1>10. CASE NoFrame \/ NoWriteProc \/ WriteNoConn \/ ZmqReadNoConn \/ GameTakes
            \/ UNCHANGED vars
  BY <1>10, WatchSame DEF NoFrame, NoWriteProc, WriteNoConn, ZmqReadNoConn, GameTakes, io, vars
<1> QED
  BY <1>1, <1>2, <1>4, <1>5, <1>6, <1>7, <1>8, <1>9, <1>10, Steps

\* What waits to be sent is watched for, and nothing else is, but where send
\* would have blocked.
THEOREM WatchCorrect == Spec => []WatchExact
<1>1. WatchInv => WatchExact
  BY DEF WatchInv, WatchExact, Idle
<1> QED
  BY <1>1, TypesBegin, TypesStep, WatchBegin, WatchStep, PTL DEF Spec

-----------------------------------------------------------------------------
(* Frames and their parts *)

LEMMA PartsNext ==
    /\ \A n \in Nat : Parts(n) \in Nat /\ Parts(n + 1) = Parts(n) + Size
    /\ \A m, n \in Nat : m < n => Parts(m) + Size <= Parts(n)
<1>1. Size \in Nat \ {0}
  BY ConnIoAssumption
<1>2. ASSUME NEW n \in Nat PROVE Parts(n) \in Nat /\ Parts(n + 1) = Parts(n) + Size
  BY <1>1, SMT DEF Parts
<1>3. ASSUME NEW m \in Nat, NEW n \in Nat, m < n PROVE Parts(m) + Size <= Parts(n)
  BY <1>1, <1>3, SMT DEF Parts
<1> QED
  BY <1>2, <1>3

\* No two parts have one place.
LEMMA PartsApart ==
    ASSUME NEW m \in Nat, NEW n \in Nat, NEW i \in 1..Size, NEW j \in 1..Size,
           Parts(m) + i = Parts(n) + j
    PROVE  m = n /\ i = j
<1>1. Parts(m) \in Nat /\ Parts(n) \in Nat /\ Size \in Nat
  BY PartsNext, SizePositive
<1>2. ~(m < n) /\ ~(n < m)
  <2>1. ASSUME m < n PROVE FALSE
    <3>1. Parts(m) + Size <= Parts(n)
      BY <2>1, PartsNext
    <3> QED
      BY <1>1, <3>1
  <2>2. ASSUME n < m PROVE FALSE
    <3>1. Parts(n) + Size <= Parts(m)
      BY <2>2, PartsNext
    <3> QED
      BY <1>1, <3>1
  <2> QED
    BY <2>1, <2>2
<1>3. m = n
  BY <1>2
<1> QED
  BY <1>1, <1>3

\* What two sequences are together.
LEMMA Joint ==
    \A a, b \in Seq(Bytes) :
        /\ a \o b \in Seq(Bytes)
        /\ Len(a \o b) = Len(a) + Len(b) /\ DOMAIN (a \o b) = 1..Len(a) + Len(b)
        /\ \A i \in 1..Len(a) : (a \o b)[i] = a[i]
        /\ \A i \in Len(a) + 1..Len(a) + Len(b) : (a \o b)[i] = b[i - Len(a)]
  OBVIOUS

LEMMA Remainders ==
    ASSUME NEW k \in Nat, NEW s \in Nat \ {0}, k % s = 0
    PROVE  (k + s) % s = 0 /\ \A i \in 0..s - 1 : (k + i) % s = i
<1>1. ASSUME NEW i \in 0..s - 1 PROVE (k + i) % s = i
  BY SMT
<1>2. (k + s) % s = 0
  <2>1. PICK q : q = k \div s
    OBVIOUS
  <2>2. q \in Nat /\ k = q * s
    BY <2>1, SMT
  <2>3. k + s = (q + 1) * s + 0 /\ q + 1 \in Nat
    BY <2>2, SMT
  <2>4. ((q + 1) * s + 0) % s = 0
    <3>1. PICK p \in Nat : p = q + 1
      BY <2>3
    <3>2. (p * s + 0) % s = 0
      BY SMT
    <3> QED
      BY <3>1, <3>2
  <2> QED
    BY <2>3, <2>4
<1> QED
  BY <1>1, <1>2

\* One more frame is sent.
LEMMA FramesJoin ==
    ASSUME NEW bytes \in Seq(Bytes), NEW f \in Nat, NEW r \in Nat, Frames(bytes, f, r)
    PROVE  Frames(bytes \o Frame(r + 1), f, r + 1)
<1> DEFINE all == bytes \o Frame(r + 1)
<1>1. /\ Frame(r + 1) \in Seq(Bytes) /\ Len(Frame(r + 1)) = Size
      /\ \A i \in 1..Size : Frame(r + 1)[i] = <<r + 1, i>>
  BY FrameParts
<1>2. /\ all \in Seq(Bytes) /\ Len(all) = Len(bytes) + Size /\ DOMAIN all = 1..Len(all)
      /\ \A i \in 1..Len(bytes) : all[i] = bytes[i]
      /\ \A i \in Len(bytes) + 1..Len(bytes) + Size : all[i] = <<r + 1, i - Len(bytes)>>
  BY <1>1, SizePositive
<1>3. Len(bytes) \in Nat /\ DOMAIN bytes = 1..Len(bytes) /\ Size \in Nat
  BY SizePositive
<1> HIDE DEF all
<1>4. /\ Parts(f) \in Nat /\ Parts(r) \in Nat
      /\ Parts(f + 1) = Parts(f) + Size /\ Parts(r + 1) = Parts(r) + Size
  BY PartsNext
<1>5. f <= r /\ Parts(f) + Len(bytes) = Parts(r)
  BY DEF Frames
<1>6. f <= r + 1 /\ Parts(f) + Len(all) = Parts(r + 1)
  BY <1>2, <1>3, <1>4, <1>5
<1>7. ASSUME NEW i \in DOMAIN all
      PROVE  Parts(all[i][1]) + all[i][2] = Parts(f + 1) + i
  <2>1. CASE i \in 1..Len(bytes)
    BY <1>2, <1>3, <2>1 DEF Frames
  <2>2. CASE i \in Len(bytes) + 1..Len(bytes) + Size
    <3>1. Parts(all[i][1]) = Parts(r + 1) /\ all[i][2] = i - Len(bytes)
      BY <1>2, <2>2
    <3> QED
      BY <1>3, <1>4, <1>5, <2>2, <3>1
  <2> QED
    BY <1>2, <1>3, <2>1, <2>2
<1> QED
  BY <1>6, <1>7 DEF Frames, all

\* The first one of those that wait is taken.
LEMMA FramesCut ==
    ASSUME NEW bytes \in Seq(Bytes), NEW f \in Nat, NEW r \in Nat, Frames(bytes, f, r),
           Len(bytes) >= Size
    PROVE  /\ f + 1 <= r
           /\ SubSeq(bytes, 1, Size) = Frame(f + 1)
           /\ Frames(SubSeq(bytes, Size + 1, Len(bytes)), f + 1, r)
<1> DEFINE first == SubSeq(bytes, 1, Size)
           left == SubSeq(bytes, Size + 1, Len(bytes))
<1>1. Size \in 0..Len(bytes) /\ Len(bytes) \in Nat /\ Size \in Nat /\ Size > 0
      /\ DOMAIN bytes = 1..Len(bytes)
  BY SizePositive
<1>2. /\ first \in Seq(Bytes) /\ Len(first) = Size
      /\ \A i \in 1..Size : first[i] = bytes[i]
  BY <1>1
<1>3. /\ left \in Seq(Bytes) /\ Len(left) = Len(bytes) - Size
      /\ DOMAIN left = 1..Len(bytes) - Size
      /\ \A i \in 1..Len(bytes) - Size : left[i] = bytes[i + Size]
  BY <1>1, Suffix
<1> HIDE DEF first, left
<1>4. /\ Parts(f) \in Nat /\ Parts(r) \in Nat
      /\ Parts(f + 1) = Parts(f) + Size /\ Parts(f + 1 + 1) = Parts(f + 1) + Size
  BY PartsNext
<1>5. f <= r /\ Parts(f) + Len(bytes) = Parts(r)
  BY DEF Frames
<1>6. f + 1 <= r
  <2>1. f # r
    BY <1>1, <1>4, <1>5
  <2> QED
    BY <1>5, <2>1
<1>7. first = Frame(f + 1)
  <2>1. /\ Frame(f + 1) \in Seq(Bytes) /\ Len(Frame(f + 1)) = Size
        /\ \A i \in 1..Size : Frame(f + 1)[i] = <<f + 1, i>>
    BY FrameParts
  <2>2. ASSUME NEW i \in 1..Size PROVE first[i] = <<f + 1, i>>
    <3>1. i \in DOMAIN bytes /\ first[i] = bytes[i]
      BY <1>1, <1>2
    <3>2. bytes[i] \in Nat \X (1..Size)
      BY <3>1 DEF Bytes
    <3>3. Parts(bytes[i][1]) + bytes[i][2] = Parts(f + 1) + i
      BY <3>1 DEF Frames
    <3>4. bytes[i][1] = f + 1 /\ bytes[i][2] = i
      BY <3>2, <3>3, PartsApart
    <3> QED
      BY <3>1, <3>2, <3>4
  <2> HIDE DEF Frame
  <2> QED
    BY <1>2, <2>1, <2>2, SeqEqual
<1>8. Parts(f + 1) + Len(left) = Parts(r)
  BY <1>1, <1>3, <1>4, <1>5
<1>9. ASSUME NEW i \in DOMAIN left
      PROVE  Parts(left[i][1]) + left[i][2] = Parts(f + 1 + 1) + i
  <2>1. i + Size \in DOMAIN bytes /\ left[i] = bytes[i + Size] /\ i \in Nat
    BY <1>1, <1>3
  <2>2. Parts(bytes[i + Size][1]) + bytes[i + Size][2] = Parts(f + 1) + (i + Size)
    BY <2>1 DEF Frames
  <2> QED
    BY <1>1, <1>4, <2>1, <2>2
<1> QED
  BY <1>6, <1>7, <1>8, <1>9 DEF Frames, first, left

\* What is cut off the front does not depend on what follows.
LEMMA CutFront ==
    ASSUME NEW a \in Seq(Bytes), NEW b \in Seq(Bytes), NEW n \in 0..Len(a)
    PROVE  /\ SubSeq(a, 1, n) = SubSeq(a \o b, 1, n)
           /\ SubSeq(a, n + 1, Len(a)) \o b = SubSeq(a \o b, n + 1, Len(a \o b))
<1> DEFINE t == a \o b
           r == SubSeq(a, n + 1, Len(a))
           u == SubSeq(t, n + 1, Len(t))
<1>1. /\ t \in Seq(Bytes) /\ Len(t) = Len(a) + Len(b)
      /\ \A i \in 1..Len(a) : t[i] = a[i]
      /\ \A i \in Len(a) + 1..Len(a) + Len(b) : t[i] = b[i - Len(a)]
  OBVIOUS
<1>2. Len(a) \in Nat /\ Len(b) \in Nat /\ n \in Nat /\ n <= Len(a)
  OBVIOUS
<1>3. /\ r \in Seq(Bytes) /\ Len(r) = Len(a) - n
      /\ \A i \in 1..Len(a) - n : r[i] = a[i + n]
  BY Suffix
<1> HIDE DEF t, r
<1>4. n \in 0..Len(t)
  BY <1>1, <1>2
<1>5. /\ u \in Seq(Bytes) /\ Len(u) = Len(t) - n
      /\ \A i \in 1..Len(t) - n : u[i] = t[i + n]
  BY <1>1, <1>4, Suffix
<1> HIDE DEF u
<1>6. SubSeq(a, 1, n) = SubSeq(t, 1, n)
  <2>1. /\ SubSeq(a, 1, n) \in Seq(Bytes) /\ Len(SubSeq(a, 1, n)) = n
        /\ \A i \in 1..n : SubSeq(a, 1, n)[i] = a[i]
    BY <1>2
  <2>2. /\ SubSeq(t, 1, n) \in Seq(Bytes) /\ Len(SubSeq(t, 1, n)) = n
        /\ \A i \in 1..n : SubSeq(t, 1, n)[i] = t[i]
    BY <1>1, <1>2, <1>4
  <2>3. \A i \in 1..n : a[i] = t[i]
    BY <1>1, <1>2
  <2> QED
    BY <2>1, <2>2, <2>3, SeqEqual
<1>7. r \o b = u
  <2> DEFINE v == r \o b
  <2>1. /\ v \in Seq(Bytes) /\ Len(v) = Len(a) - n + Len(b)
        /\ \A i \in 1..Len(a) - n : v[i] = r[i]
        /\ \A i \in Len(a) - n + 1..Len(a) - n + Len(b) : v[i] = b[i - (Len(a) - n)]
    <3>1. /\ v \in Seq(Bytes) /\ Len(v) = Len(r) + Len(b)
          /\ \A i \in 1..Len(r) : v[i] = r[i]
          /\ \A i \in Len(r) + 1..Len(r) + Len(b) : v[i] = b[i - Len(r)]
      BY <1>3, Joint, Zenon
    <3> HIDE DEF v
    <3> QED
      BY <1>3, <3>1
  <2> HIDE DEF v
  <2>2. ASSUME NEW i \in 1..Len(a) - n + Len(b) PROVE v[i] = u[i]
    <3>1. i \in 1..Len(t) - n /\ u[i] = t[i + n]
      BY <1>1, <1>2, <1>5
    <3>2. CASE i \in 1..Len(a) - n
      <4>1. i + n \in 1..Len(a)
        BY <1>2, <3>2
      <4> QED
        BY <1>1, <1>3, <2>1, <3>1, <3>2, <4>1
    <3>3. CASE i \in Len(a) - n + 1..Len(a) - n + Len(b)
      <4>1. i + n \in Len(a) + 1..Len(a) + Len(b) /\ i + n - Len(a) = i - (Len(a) - n)
        BY <1>2, <3>3
      <4> QED
        BY <1>1, <2>1, <3>1, <3>3, <4>1
    <3> QED
      BY <1>2, <3>2, <3>3
  <2>3. Len(u) = Len(a) - n + Len(b)
    BY <1>1, <1>2, <1>5
  <2>4. v = u
    BY <1>5, <2>1, <2>2, <2>3, SeqEqual
  <2> QED
    BY <2>4 DEF v
<1> QED
  BY <1>6, <1>7 DEF t, r, u

\* One more message follows those that have left the queue.
LEMMA WholeJoin ==
    ASSUME NEW bytes \in Seq(Bytes), Whole(bytes), NEW n \in Nat, Below(bytes, n)
    PROVE  /\ Whole(bytes \o Frame(n))
           /\ \A m \in Nat : n < m => Below(bytes \o Frame(n), m)
<1> DEFINE all == bytes \o Frame(n)
           L == Len(bytes)
<1>1. /\ Frame(n) \in Seq(Bytes) /\ Len(Frame(n)) = Size
      /\ \A i \in 1..Size : Frame(n)[i] = <<n, i>>
  BY FrameParts
<1>2. /\ all \in Seq(Bytes) /\ Len(all) = L + Size /\ DOMAIN all = 1..L + Size
      /\ \A i \in 1..L : all[i] = bytes[i]
      /\ \A i \in L + 1..L + Size : all[i] = <<n, i - L>>
  <2>1. L \in Nat /\ Size \in Nat
    BY SizePositive
  <2>2. /\ all \in Seq(Bytes) /\ Len(all) = L + Size /\ DOMAIN all = 1..L + Size
        /\ \A i \in 1..L : all[i] = bytes[i]
        /\ \A i \in L + 1..L + Size : all[i] = Frame(n)[i - L]
    <3> HIDE DEF L
    <3>1. PICK f : f = Frame(n)
      OBVIOUS
    <3>2. f \in Seq(Bytes) /\ Len(f) = Size /\ all = bytes \o f
      BY <1>1, <3>1
    <3> HIDE DEF all
    <3> DEFINE t == bytes \o f
    <3>3. /\ t \in Seq(Bytes) /\ Len(t) = Len(bytes) + Len(f)
          /\ DOMAIN t = 1..Len(bytes) + Len(f)
          /\ \A i \in 1..Len(bytes) : t[i] = bytes[i]
          /\ \A i \in Len(bytes) + 1..Len(bytes) + Len(f) : t[i] = f[i - Len(bytes)]
      BY <3>2, Joint, Zenon
    <3> HIDE DEF t
    <3>4. all = t
      BY <3>2 DEF t
    <3> QED
      BY <3>1, <3>2, <3>3, <3>4 DEF L
  <2>3. \A i \in L + 1..L + Size : i - L \in 1..Size
    BY <2>1
  <2> QED
    BY <1>1, <2>2, <2>3
<1>3. L \in Nat /\ DOMAIN bytes = 1..L /\ Size \in Nat \ {0}
  BY ConnIoAssumption
<1>4. L % Size = 0
  BY DEF Whole
<1> HIDE DEF all, L
<1>5. (L + Size) % Size = 0 /\ \A i \in 0..Size - 1 : (L + i) % Size = i
  BY <1>3, <1>4, Remainders
<1>6. ASSUME NEW j \in 1..L
      PROVE  /\ all[j][2] = ((j - 1) % Size) + 1
             /\ j > 1 => IF all[j][2] = 1 THEN all[j][1] > all[j - 1][1]
                                           ELSE all[j][1] = all[j - 1][1]
  <2>1. all[j] = bytes[j] /\ (j > 1 => all[j - 1] = bytes[j - 1])
    BY <1>2, <1>3
  <2>2. /\ bytes[j][2] = ((j - 1) % Size) + 1
        /\ j > 1 => IF bytes[j][2] = 1 THEN bytes[j][1] > bytes[j - 1][1]
                                        ELSE bytes[j][1] = bytes[j - 1][1]
    BY <1>3 DEF Whole
  <2> QED
    BY <2>1, <2>2
<1>7. ASSUME NEW j \in L + 1..L + Size
      PROVE  /\ all[j][2] = ((j - 1) % Size) + 1
             /\ j > 1 => IF all[j][2] = 1 THEN all[j][1] > all[j - 1][1]
                                           ELSE all[j][1] = all[j - 1][1]
  <2>1. all[j] = <<n, j - L>> /\ all[j][1] = n /\ all[j][2] = j - L
    BY <1>2
  <2>2. j - 1 - L \in 0..Size - 1 /\ j - 1 = L + (j - 1 - L)
    BY <1>3
  <2>3. (j - 1) % Size = j - 1 - L
    BY <1>5, <2>2
  <2>4. CASE j = L + 1
    <3>1. all[j][2] = 1
      BY <1>3, <2>1, <2>4
    <3>2. ASSUME j > 1 PROVE all[j][1] > all[j - 1][1]
      <4>1. L \in DOMAIN bytes /\ j - 1 = L /\ all[L] = bytes[L]
        BY <1>2, <1>3, <2>4, <3>2
      <4>2. bytes[L][1] < n /\ bytes[L][1] \in Nat
        BY <4>1 DEF Below, Bytes
      <4> QED
        BY <2>1, <4>1, <4>2
    <3> QED
      BY <1>3, <2>1, <2>3, <3>1, <3>2
  <2>5. CASE j # L + 1
    <3>1. j - 1 \in L + 1..L + Size /\ all[j][2] # 1
      BY <1>3, <2>1, <2>5
    <3>2. all[j - 1][1] = n
      BY <1>2, <3>1
    <3> QED
      BY <1>3, <2>1, <2>3, <3>1, <3>2
  <2> QED
    BY <2>4, <2>5
<1>8. 1..L + Size = 1..L \cup L + 1..L + Size
  BY <1>3
<1>9. Whole(all)
  <2>1. Len(all) % Size = 0
    BY <1>2, <1>5
  <2> QED
    BY <1>2, <1>6, <1>7, <1>8, <2>1 DEF Whole
<1>10. ASSUME NEW m \in Nat, n < m PROVE Below(all, m)
  <2>1. ASSUME NEW i \in 1..L PROVE all[i][1] < m
    <3>1. i \in DOMAIN bytes /\ bytes[i] \in Nat \X (1..Size)
      BY <1>3 DEF Bytes
    <3>2. bytes[i][1] < n /\ bytes[i][1] \in Nat
      BY <3>1 DEF Below
    <3> QED
      BY <1>2, <1>10, <3>2
  <2>2. ASSUME NEW i \in L + 1..L + Size PROVE all[i][1] < m
    BY <1>2, <1>10
  <2> QED
    BY <1>2, <1>8, <2>1, <2>2 DEF Below
<1> QED
  BY <1>9, <1>10 DEF all

-----------------------------------------------------------------------------
(* From the clients *)

LEMMA InBegin == Init => InInv
<1> SUFFICES ASSUME Init PROVE InInv
  OBVIOUS
<1>1. /\ DOMAIN conn_map = {}
      /\ \A c \in Conns : requested[c] = 0 /\ forwarded[c] = <<>>
  BY DEF Init
<1> QED
  BY <1>1 DEF InInv

\* What is there for one connection.
LEMMA UnreadOf ==
    ASSUME TypeInv, InInv, NEW fd \in DOMAIN conn_map, NEW c, c = conn_map[fd].conn
    PROVE  /\ Unread(fd) \in Seq(Bytes) /\ c \in Conns
           /\ forwarded[c] \in Seq(Seq(Bytes))
           /\ Len(forwarded[c]) \in Nat /\ requested[c] \in Nat
           /\ Frames(Unread(fd), Len(forwarded[c]), requested[c])
<1>1. /\ conn_map[fd].recv_buf \in Seq(Bytes) /\ sockets[fd].in \in Seq(Bytes)
      /\ c \in Conns
  BY ConnOf
<1>2. Unread(fd) \in Seq(Bytes)
  BY <1>1 DEF Unread
<1>3. forwarded[c] \in Seq(Seq(Bytes)) /\ requested[c] \in Nat
  BY <1>1 DEF TypeInv
<1>4. Len(forwarded[c]) \in Nat
  BY <1>3
<1> QED
  BY <1>1, <1>2, <1>3, <1>4 DEF InInv

\* Nothing is read, or no more than moved; connections may go.
LEMMA InKeeps ==
    ASSUME InInv, UNCHANGED <<accepted, requested, forwarded>>,
           \A f \in DOMAIN conn_map' : /\ f \in DOMAIN conn_map
                                       /\ conn_map'[f].conn = conn_map[f].conn
                                       /\ Unread(f)' = Unread(f)
    PROVE  InInv'
<1>1. ASSUME NEW fd \in DOMAIN conn_map'
      PROVE  Frames(Unread(fd)', Len(forwarded'[conn_map'[fd].conn]), requested'[conn_map'[fd].conn])
  BY <1>1 DEF InInv
<1> QED
  BY <1>1 DEF InInv, Frames, Parts

\* One connection has other frames to come.
LEMMA InOne ==
    ASSUME TypeInv, InInv, accepted' = accepted,
           NEW fd \in DOMAIN conn_map, DOMAIN conn_map' = DOMAIN conn_map,
           NEW c, c = conn_map[fd].conn, conn_map'[fd].conn = c,
           \A f \in DOMAIN conn_map \ {fd} : /\ conn_map'[f].conn = conn_map[f].conn
                                             /\ Unread(f)' = Unread(f),
           \A d \in Conns \ {c} : forwarded'[d] = forwarded[d] /\ requested'[d] = requested[d],
           \A k \in DOMAIN forwarded'[c] : forwarded'[c][k] = Frame(k),
           NEW u, u = Unread(fd)', NEW f, f = Len(forwarded'[c]), NEW r, r = requested'[c],
           Frames(u, f, r)
    PROVE  InInv'
<1>1. c \in Conns /\ c <= accepted /\ accepted \in Nat /\ c \in Nat
  BY ConnOf, ConnIoAssumption DEF TypeInv, ConnsOK, Conns
<1>2. \A d \in Conns : \A k \in DOMAIN forwarded'[d] : forwarded'[d][k] = Frame(k)
  BY DEF InInv
<1>3. \A d \in Conns : d > accepted' => requested'[d] = 0 /\ forwarded'[d] = <<>>
  <2> TAKE d \in Conns
  <2> HAVE d > accepted'
  <2>1. d # c /\ d > accepted
    BY <1>1
  <2> QED
    BY <2>1 DEF InInv
<1>4. ASSUME NEW g \in DOMAIN conn_map'
      PROVE  Frames(Unread(g)', Len(forwarded'[conn_map'[g].conn]), requested'[conn_map'[g].conn])
  <2>1. CASE g = fd
    BY <2>1
  <2>2. CASE g # fd
    <3>1. PICK d : d = conn_map[g].conn
      OBVIOUS
    <3>2. d # c /\ d \in Conns
      BY <2>2, <3>1, ConnOf DEF TypeInv, ConnsOK
    <3>3. conn_map'[g].conn = d /\ Unread(g)' = Unread(g)
      BY <2>2, <3>1
    <3>4. Frames(Unread(g), Len(forwarded[d]), requested[d])
      BY <3>1 DEF InInv
    <3> QED
      BY <3>2, <3>3, <3>4
  <2> QED
    BY <2>1, <2>2
<1> QED
  BY <1>2, <1>3, <1>4 DEF InInv, Frame, Frames, Parts

LEMMA InStep == TypeInv /\ TypeInv' /\ InInv /\ [Next]_vars => InInv'
<1> SUFFICES ASSUME TypeInv, TypeInv', InInv, [Next]_vars PROVE InInv'
  OBVIOUS
<1>0. /\ ConnsOK /\ sockets \in [Fds -> Socket] /\ file_events \in [Fds -> Event]
      /\ accepted \in 0..MaxConns /\ DOMAIN conn_map \subseteq Fds
  BY DEF TypeInv, ConnsOK
<1>drops. ASSUME NEW fd, Drops(fd), UNCHANGED <<accepted, requested, forwarded>>
          PROVE  InInv'
  <2>1. /\ DOMAIN conn_map' = DOMAIN conn_map \ {fd}
        /\ \A f \in DOMAIN conn_map' : conn_map'[f] = conn_map[f] /\ sockets'[f] = sockets[f]
    BY <1>0, <1>drops, Dropped
  <2> QED
    BY <1>drops, <2>1, InKeeps DEF Unread
<1>turns. ASSUME NEW fd, NEW c, NEW s, Turns(fd, c, s),
                 UNCHANGED <<accepted, requested, forwarded>>,
                 c.recv_buf \o s.in = Unread(fd)
          PROVE  InInv'
  <2>1. /\ DOMAIN conn_map' = DOMAIN conn_map /\ conn_map'[fd] = c /\ sockets'[fd] = s
        /\ \A f \in DOMAIN conn_map \ {fd} :
               conn_map'[f] = conn_map[f] /\ sockets'[f] = sockets[f]
    BY <1>turns, Turned
  <2>2. c.conn = conn_map[fd].conn
    BY <1>turns DEF Turns
  <2>3. ASSUME NEW f \in DOMAIN conn_map'
        PROVE  /\ f \in DOMAIN conn_map
               /\ conn_map'[f].conn = conn_map[f].conn
               /\ Unread(f)' = Unread(f)
    <3>1. CASE f = fd
      BY <1>turns, <2>1, <2>2, <3>1 DEF Unread
    <3>2. CASE f # fd
      BY <2>1, <3>2 DEF Unread
    <3> QED
      BY <3>1, <3>2
  <2> QED
    BY <1>turns, <2>3, InKeeps
<1>same. ASSUME UNCHANGED <<conn_map, sockets, accepted, requested, forwarded>>
         PROVE  InInv'
  BY <1>same, InKeeps DEF Unread
<1>1. ASSUME NEW fd \in Fds, DoTcpAccept(fd) PROVE InInv'
  <2>1. /\ fd \notin DOMAIN conn_map /\ DOMAIN conn_map' = DOMAIN conn_map \cup {fd}
        /\ conn_map'[fd] = [player_idx |-> 0, conn |-> accepted + 1,
                            recv_buf |-> <<>>, send_buf |-> <<>>]
        /\ sockets'[fd].in = <<>>
        /\ \A f \in DOMAIN conn_map : conn_map'[f] = conn_map[f]
        /\ \A f \in DOMAIN conn_map : sockets'[f] = sockets[f]
        /\ accepted' = accepted + 1 /\ accepted' \in 0..MaxConns
    BY <1>0, <1>1, Joined, Zenon
  <2>2. requested' = requested /\ forwarded' = forwarded
    BY <1>1 DEF DoTcpAccept
  <2>3. accepted + 1 \in Conns /\ accepted \in Nat
    BY <1>0, <2>1, ConnIoAssumption DEF Conns
  <2>4. requested[accepted + 1] = 0 /\ forwarded[accepted + 1] = <<>>
    BY <2>3 DEF InInv, Conns
  <2>5. Frames(Unread(fd)', 0, 0)
    <3>1. Unread(fd)' = <<>> \o <<>>
      BY <2>1 DEF Unread
    <3>2. <<>> \o <<>> = <<>> /\ Len(<<>>) = 0 /\ DOMAIN <<>> = {}
      OBVIOUS
    <3>3. Parts(0) \in Nat
      BY PartsNext
    <3>4. Frames(<<>>, 0, 0)
      BY <3>2, <3>3 DEF Frames
    <3> QED
      BY <3>1, <3>2, <3>4
  <2>6. ASSUME NEW g \in DOMAIN conn_map'
        PROVE  Frames(Unread(g)', Len(forwarded'[conn_map'[g].conn]), requested'[conn_map'[g].conn])
    <3>1. CASE g = fd
      <4>1. conn_map'[g].conn = accepted + 1 /\ Len(<<>>) = 0
        BY <2>1, <3>1
      <4> QED
        BY <2>2, <2>4, <2>5, <3>1, <4>1
    <3>2. CASE g # fd
      BY <2>1, <2>2, <3>2 DEF InInv, Unread
    <3> QED
      BY <3>1, <3>2
  <2>7. \A c \in Conns : c > accepted' => requested'[c] = 0 /\ forwarded'[c] = <<>>
    <3> TAKE c \in Conns
    <3> HAVE c > accepted'
    <3>1. c > accepted
      BY <2>1, <2>3 DEF Conns
    <3> QED
      BY <2>2, <3>1 DEF InInv
  <2> QED
    BY <2>2, <2>6, <2>7 DEF InInv, Frame, Frames, Parts
<1>2. CASE Gone
  <2>1. PICK fd, arg : fd = Fd /\ arg = Arg
    OBVIOUS
  <2>2. /\ Release(fd, arg) /\ UNCHANGED <<accepted, requested, forwarded>>
    BY <1>2, <2>1, GoneIs
  <2> QED
    BY <1>drops, <2>2 DEF Release, Drops
<1>3. ASSUME NEW n \in 1..PkgBufSize, RecvData(n), ~Release(Fd, Arg) PROVE InInv'
  <2>1. PICK fd : fd = Fd
    OBVIOUS
  <2>2. PICK c, s : Turns(fd, c, s) /\ c.recv_buf \o s.in = Unread(fd)
    BY <1>3, <2>1, RecvDataIs
  <2>3. UNCHANGED <<accepted, requested, forwarded>>
    BY <1>3 DEF RecvData
  <2> QED
    BY <1>turns, <2>2, <2>3
<1>4. ASSUME NEW body \in Bodies, ForwardFrame(body), ~Release(Fd, Arg) PROVE InInv'
  <2>1. PICK fd : fd = Fd
    OBVIOUS
  <2> DEFINE buf == conn_map[fd].recv_buf
             in == sockets[fd].in
  <2>2. PICK k :
            /\ Turns(fd, k, sockets[fd])
            /\ k.recv_buf = SubSeq(buf, Size + 1, Len(buf))
            /\ Len(buf) >= Size /\ fd \in DOMAIN conn_map
            /\ forwarded' = [forwarded EXCEPT ![conn_map[fd].conn] =
                                Append(@, SubSeq(buf, 1, Size))]
    BY <1>4, <2>1, ForwardFrameIs
  <2>3. UNCHANGED <<accepted, requested>>
    BY <1>4 DEF ForwardFrame
  <2>4. PICK c : c = conn_map[fd].conn
    OBVIOUS
  <2>5. PICK f, r, u : f = Len(forwarded[c]) /\ r = requested[c] /\ u = Unread(fd)
    OBVIOUS
  <2>6. /\ u \in Seq(Bytes) /\ c \in Conns /\ f \in Nat /\ r \in Nat /\ Frames(u, f, r)
        /\ forwarded[c] \in Seq(Seq(Bytes))
    BY <2>2, <2>4, <2>5, UnreadOf
  <2>7. buf \in Seq(Bytes) /\ in \in Seq(Bytes) /\ Size \in 0..Len(buf)
    <3>1. buf \in Seq(Bytes) /\ in \in Seq(Bytes)
      BY <2>2, ConnOf
    <3> QED
      BY <2>2, <3>1, SizePositive
  <2>8. /\ SubSeq(buf, 1, Size) = SubSeq(u, 1, Size)
        /\ SubSeq(buf, Size + 1, Len(buf)) \o in = SubSeq(u, Size + 1, Len(u))
        /\ Len(u) >= Size
    <3>1. u = buf \o in
      BY <2>5 DEF Unread
    <3>2. Len(u) = Len(buf) + Len(in) /\ Len(buf) \in Nat /\ Len(in) \in Nat
      BY <2>7, <3>1
    <3> HIDE DEF buf, in
    <3>3. Len(u) >= Size
      BY <2>2, <3>2, SizePositive DEF buf
    <3> QED
      BY <2>7, <3>1, <3>3, CutFront
  <2>9. /\ SubSeq(u, 1, Size) = Frame(f + 1)
        /\ Frames(SubSeq(u, Size + 1, Len(u)), f + 1, r)
    BY <2>6, <2>8, FramesCut
  <2>10. /\ DOMAIN conn_map' = DOMAIN conn_map /\ conn_map'[fd] = k /\ sockets'[fd] = sockets[fd]
         /\ \A g \in DOMAIN conn_map \ {fd} :
                conn_map'[g] = conn_map[g] /\ sockets'[g] = sockets[g]
         /\ k.conn = c
    <3>1. k.conn = c
      BY <2>2, <2>4 DEF Turns
    <3> QED
      BY <2>2, <2>3, <3>1, Turned
  <2>11. /\ forwarded'[c] = Append(forwarded[c], Frame(f + 1))
         /\ \A d \in Conns \ {c} : forwarded'[d] = forwarded[d] /\ requested'[d] = requested[d]
    BY <2>2, <2>3, <2>4, <2>6, <2>8, <2>9 DEF TypeInv
  <2>12. /\ Len(forwarded'[c]) = f + 1
         /\ \A i \in DOMAIN forwarded'[c] : forwarded'[c][i] = Frame(i)
    <3>1. PICK q : q = forwarded[c]
      OBVIOUS
    <3>2. PICK x : x = Frame(f + 1)
      OBVIOUS
    <3>3. q \in Seq(Seq(Bytes)) /\ Len(q) = f /\ \A i \in DOMAIN q : q[i] = Frame(i)
      BY <2>5, <2>6, <3>1 DEF InInv
    <3>4. x \in Seq(Bytes)
      BY <2>6, <3>2, FrameParts
    <3>5. /\ Len(Append(q, x)) = f + 1 /\ DOMAIN Append(q, x) = 1..f + 1
          /\ \A i \in 1..f : Append(q, x)[i] = q[i]
          /\ Append(q, x)[f + 1] = x
      BY <2>6, <3>3, <3>4
    <3>6. DOMAIN q = 1..f /\ \A i \in 1..f + 1 : i \in 1..f \/ i = f + 1
      BY <2>6, <3>3
    <3> HIDE DEF Frame
    <3>7. \A i \in 1..f + 1 : Append(q, x)[i] = Frame(i)
      BY <3>2, <3>3, <3>5, <3>6
    <3> QED
      BY <2>11, <3>1, <3>2, <3>5, <3>7
  <2>13. Unread(fd)' = SubSeq(u, Size + 1, Len(u))
    BY <2>2, <2>8, <2>10 DEF Unread
  <2>14. \A g \in DOMAIN conn_map \ {fd} : /\ conn_map'[g].conn = conn_map[g].conn
                                           /\ Unread(g)' = Unread(g)
    BY <2>10 DEF Unread
  <2>15. PICK v, e, q : v = Unread(fd)' /\ e = Len(forwarded'[c]) /\ q = requested'[c]
    OBVIOUS
  <2>16. Frames(v, e, q)
    BY <2>3, <2>5, <2>9, <2>12, <2>13, <2>15
  <2> HIDE DEF buf, in
  <2> QED
    BY <2>2, <2>3, <2>4, <2>10, <2>11, <2>12, <2>14, <2>15, <2>16, InOne
<1>5. CASE WriteSends
  <2>1. PICK fd : fd = Fd
    OBVIOUS
  <2>2. PICK c, s : Turns(fd, c, s) /\ s.in = sockets[fd].in /\ c.recv_buf = conn_map[fd].recv_buf
    BY <1>5, <2>1, WriteSendsIs
  <2>3. UNCHANGED <<accepted, requested, forwarded>> /\ c.recv_buf \o s.in = Unread(fd)
    BY <1>5, <2>2 DEF WriteSends, Unread
  <2> QED
    BY <1>turns, <2>2, <2>3
<1>6. CASE ZmqReadSendFail
  <2>1. PICK fd : fd = To
    OBVIOUS
  <2>2. Release(fd, "epoller") /\ UNCHANGED <<accepted, requested, forwarded>>
    BY <1>6, <2>1 DEF ZmqReadSendFail
  <2> QED
    BY <1>drops, <2>2 DEF Release, Drops
<1>7. CASE Replies
  <2>1. PICK fd : fd = To
    OBVIOUS
  <2>2. \/ Drops(fd)
        \/ \E c, s : Turns(fd, c, s) /\ s.in = sockets[fd].in /\ c.recv_buf = conn_map[fd].recv_buf
    BY <1>7, <2>1, RepliesIs DEF Answered
  <2>3. Taken
    BY <1>7, <2>1, RepliesIs DEF Answered
  <2>4. UNCHANGED <<accepted, requested, forwarded>>
    BY <2>3 DEF Taken
  <2>5. CASE Drops(fd)
    BY <1>drops, <2>4, <2>5
  <2>6. ASSUME NEW c, NEW s, Turns(fd, c, s), s.in = sockets[fd].in,
               c.recv_buf = conn_map[fd].recv_buf
        PROVE  InInv'
    <3>1. c.recv_buf \o s.in = Unread(fd)
      BY <2>6 DEF Unread
    <3> QED
      BY <1>turns, <2>4, <2>6, <3>1
  <2> QED
    BY <2>2, <2>5, <2>6
<1>8. ASSUME NEW fd \in Fds, ClientSends(fd) PROVE InInv'
  <2>1. fd \in DOMAIN conn_map /\ conn_map' = conn_map
    BY <1>8, ClientSendsIs
  <2>2. PICK c : c = conn_map[fd].conn
    OBVIOUS
  <2>3. PICK s \in Socket :
            /\ sockets' = [sockets EXCEPT ![fd] = s]
            /\ s.in = sockets[fd].in \o Frame(requested[c] + 1)
    BY <1>8, <2>2, ClientSendsIs
  <2>4. requested' = [requested EXCEPT ![c] = requested[c] + 1]
    BY <1>8, <2>2, ClientSendsIs
  <2>5. UNCHANGED <<accepted, forwarded>>
    BY <1>8 DEF ClientSends
  <2>6. PICK f, r, u : f = Len(forwarded[c]) /\ r = requested[c] /\ u = Unread(fd)
    OBVIOUS
  <2>7. u \in Seq(Bytes) /\ c \in Conns /\ f \in Nat /\ r \in Nat /\ Frames(u, f, r)
    BY <2>1, <2>2, <2>6, UnreadOf
  <2>8. Frames(u \o Frame(r + 1), f, r + 1)
    BY <2>7, FramesJoin
  <2>9. Unread(fd)' = u \o Frame(r + 1)
    <3>1. sockets'[fd].in = sockets[fd].in \o Frame(r + 1)
      BY <1>0, <2>3, <2>6
    <3>2. conn_map[fd].recv_buf \in Seq(Bytes) /\ sockets[fd].in \in Seq(Bytes)
      BY <2>1, ConnOf
    <3>3. Frame(r + 1) \in Seq(Bytes)
      BY <2>7, FrameParts
    <3>4. PICK a, b, d : a = conn_map[fd].recv_buf /\ b = sockets[fd].in /\ d = Frame(r + 1)
      OBVIOUS
    <3>5. (a \o b) \o d = a \o (b \o d)
      BY <3>2, <3>3, <3>4, JoinAssoc
    <3> QED
      BY <2>1, <2>6, <3>1, <3>4, <3>5 DEF Unread
  <2>10. \A g \in DOMAIN conn_map \ {fd} : /\ conn_map'[g].conn = conn_map[g].conn
                                           /\ Unread(g)' = Unread(g)
    <3>1. \A g \in DOMAIN conn_map \ {fd} : sockets'[g] = sockets[g]
      BY <1>0, <2>3
    <3> QED
      BY <2>1, <3>1 DEF Unread
  <2>11. /\ requested'[c] = r + 1
         /\ \A d \in Conns \ {c} : forwarded'[d] = forwarded[d] /\ requested'[d] = requested[d]
    BY <2>4, <2>5, <2>6, <2>7 DEF TypeInv
  <2>12. PICK v, e, q : v = Unread(fd)' /\ e = Len(forwarded'[c]) /\ q = requested'[c]
    OBVIOUS
  <2>13. Frames(v, e, q)
    BY <2>5, <2>6, <2>8, <2>9, <2>11, <2>12
  <2>14. \A k \in DOMAIN forwarded'[c] : forwarded'[c][k] = Frame(k)
    BY <2>5, <2>7 DEF InInv
  <2>15. DOMAIN conn_map' = DOMAIN conn_map /\ conn_map'[fd].conn = c
    BY <2>1, <2>2
  <2> QED
    BY <2>1, <2>2, <2>5, <2>10, <2>11, <2>12, <2>13, <2>14, <2>15, InOne
<1>9. ASSUME NEW fd \in Fds,
             ClientReads(fd) \/ \E end \in {"fin", "reset"} : ClientEnds(fd, end)
      PROVE  InInv'
  <2>1. PICK s \in Socket : sockets' = [sockets EXCEPT ![fd] = s] /\ s.in = sockets[fd].in
    BY <1>9, ClientIs
  <2>2. UNCHANGED <<conn_map, accepted, requested, forwarded>>
    BY <1>9, ClientIs
  <2>3. \A f \in DOMAIN conn_map : sockets'[f].in = sockets[f].in
    BY <1>0, <2>1
  <2> QED
    BY <2>2, <2>3, InKeeps DEF Unread
<1>10. ASSUME NEW fd \in Fds,
              EpollWait(fd) \/ \E cmd \in {"START", "PROC", "STOP"} : GameSends(cmd, fd)
       PROVE  InInv'
  BY <1>10, <1>same DEF EpollWait, GameSends
<1>11. CASE NoFrame \/ NoWriteProc \/ WriteNoConn \/ ZmqReadNoConn \/ GameTakes
            \/ UNCHANGED vars
  BY <1>11, <1>same DEF NoFrame, NoWriteProc, WriteNoConn, ZmqReadNoConn, GameTakes, io, vars
<1> QED
  BY <1>1, <1>2, <1>3, <1>4, <1>5, <1>6, <1>7, <1>8, <1>9, <1>10, <1>11, Steps

-----------------------------------------------------------------------------
(* To the clients *)

LEMMA OutBegin == Init => OutInv
<1> SUFFICES ASSUME Init PROVE OutInv
  OBVIOUS
<1>1. DOMAIN conn_map = {} /\ \A c \in Conns : wire[c] = <<>>
  BY DEF Init
<1> QED
  BY <1>1 DEF OutInv

LEMMA StreamOf ==
    ASSUME TypeInv, NEW fd \in DOMAIN conn_map
    PROVE  Stream(fd) \in Seq(Bytes)
<1>1. conn_map[fd].send_buf \in Seq(Bytes) /\ conn_map[fd].conn \in Conns
  BY ConnOf
<1>2. wire[conn_map[fd].conn] \in Seq(Bytes)
  BY <1>1 DEF TypeInv
<1> QED
  BY <1>1, <1>2 DEF Stream

\* What OutInv says of one stream.
OutOf(bytes, n, queue) == /\ Whole(bytes) /\ Below(bytes, n + 1)
                          /\ \A k \in DOMAIN queue : Below(bytes, queue[k].n)

\* No message is taken for a client; connections may go, and messages.
LEMMA OutKeeps ==
    ASSUME OutInv, UNCHANGED <<accepted, messages>>,
           \A k \in DOMAIN g2c' : \E l \in DOMAIN g2c : g2c'[k] = g2c[l],
           \A c \in Conns : c > accepted => wire'[c] = wire[c],
           \A f \in DOMAIN conn_map' : f \in DOMAIN conn_map /\ Stream(f)' = Stream(f)
    PROVE  OutInv'
<1>1. ASSUME NEW f \in DOMAIN conn_map'
      PROVE  OutOf(Stream(f)', messages', g2c')
  <2>1. PICK w : w = Stream(f)
    OBVIOUS
  <2>2. /\ Whole(w) /\ Below(w, messages + 1)
        /\ \A k \in DOMAIN g2c : Below(w, g2c[k].n)
    BY <2>1 DEF OutInv
  <2>3. \A k \in DOMAIN g2c' : Below(w, g2c'[k].n)
    BY <2>2
  <2> QED
    BY <2>1, <2>2, <2>3 DEF OutOf
<1> QED
  BY <1>1 DEF OutInv, OutOf, Whole, Below

\* What is written to the socket of one descriptor is on no other client's stream.
LEMMA WireOne ==
    ASSUME TypeInv, NEW fd \in DOMAIN conn_map, NEW w, accepted' = accepted,
           wire' = [wire EXCEPT ![conn_map[fd].conn] = w],
           DOMAIN conn_map' \subseteq DOMAIN conn_map,
           \A f \in DOMAIN conn_map' \ {fd} : conn_map'[f] = conn_map[f]
    PROVE  /\ \A c \in Conns : c > accepted => wire'[c] = wire[c]
           /\ wire'[conn_map[fd].conn] = w
           /\ \A f \in DOMAIN conn_map' \ {fd} : Stream(f)' = Stream(f)
<1>0. ConnsOK /\ wire \in [Conns -> Seq(Bytes)] /\ accepted \in 0..MaxConns
  BY DEF TypeInv
<1>1. PICK c : c = conn_map[fd].conn
  OBVIOUS
<1>2. c \in Conns /\ c <= accepted /\ accepted \in Int /\ \A d \in Conns : d \in Int
  BY <1>0, <1>1, ConnOf DEF ConnsOK, Conns
<1>3. wire'[c] = w /\ \A d \in Conns \ {c} : wire'[d] = wire[d]
  BY <1>0, <1>1, <1>2
<1>4. \A d \in Conns : d > accepted => d # c
  BY <1>2
<1>5. \A f \in DOMAIN conn_map \ {fd} : conn_map[f].conn \in Conns \ {c}
  BY <1>0, <1>1, ConnOf DEF ConnsOK
<1> QED
  BY <1>1, <1>3, <1>4, <1>5 DEF Stream

LEMMA OutStep == TypeInv /\ TypeInv' /\ OutInv /\ [Next]_vars => OutInv'
<1> SUFFICES ASSUME TypeInv, TypeInv', OutInv, [Next]_vars PROVE OutInv'
  OBVIOUS
<1>0. /\ ConnsOK /\ sockets \in [Fds -> Socket] /\ file_events \in [Fds -> Event]
      /\ accepted \in 0..MaxConns /\ DOMAIN conn_map \subseteq Fds /\ NumbersOK
      /\ wire \in [Conns -> Seq(Bytes)]
  BY DEF TypeInv, ConnsOK
<1>tail. g2c # <<>> /\ g2c' = Tail(g2c) /\ messages' = messages =>
             \A k \in DOMAIN g2c' : \E l \in DOMAIN g2c : g2c'[k] = g2c[l]
  BY <1>0, NumbersTail
<1>drops. ASSUME NEW fd, Drops(fd), UNCHANGED <<accepted, messages, wire>>,
                 \A k \in DOMAIN g2c' : \E l \in DOMAIN g2c : g2c'[k] = g2c[l]
          PROVE  OutInv'
  <2>1. /\ DOMAIN conn_map' = DOMAIN conn_map \ {fd}
        /\ \A f \in DOMAIN conn_map' : conn_map'[f] = conn_map[f]
    BY <1>0, <1>drops, Dropped
  <2> QED
    BY <1>drops, <2>1, OutKeeps DEF Stream
<1>turns. ASSUME NEW fd, NEW c, NEW s, Turns(fd, c, s), c.send_buf = conn_map[fd].send_buf,
                 UNCHANGED <<accepted, messages, wire, g2c>>
          PROVE  OutInv'
  <2>1. /\ DOMAIN conn_map' = DOMAIN conn_map /\ conn_map'[fd] = c
        /\ \A f \in DOMAIN conn_map \ {fd} : conn_map'[f] = conn_map[f]
    BY <1>turns, Turned
  <2>2. c.conn = conn_map[fd].conn
    BY <1>turns DEF Turns
  <2>3. \A f \in DOMAIN conn_map' : f \in DOMAIN conn_map /\ Stream(f)' = Stream(f)
    BY <1>turns, <2>1, <2>2 DEF Stream
  <2> QED
    BY <1>turns, <2>3, OutKeeps
<1>same. ASSUME UNCHANGED <<conn_map, accepted, messages, wire>>,
                \A k \in DOMAIN g2c' : \E l \in DOMAIN g2c : g2c'[k] = g2c[l]
         PROVE  OutInv'
  BY <1>same, OutKeeps DEF Stream
<1>1. ASSUME NEW fd \in Fds, DoTcpAccept(fd) PROVE OutInv'
  <2>1. /\ fd \notin DOMAIN conn_map /\ DOMAIN conn_map' = DOMAIN conn_map \cup {fd}
        /\ conn_map'[fd] = [player_idx |-> 0, conn |-> accepted + 1,
                            recv_buf |-> <<>>, send_buf |-> <<>>]
        /\ \A f \in DOMAIN conn_map : conn_map'[f] = conn_map[f]
        /\ accepted' = accepted + 1 /\ accepted' \in 0..MaxConns
    BY <1>0, <1>1, Joined, Zenon
  <2>2. UNCHANGED <<wire, messages, g2c>>
    BY <1>1 DEF DoTcpAccept, links
  <2>3. accepted + 1 \in Conns /\ accepted \in Nat
    BY <1>0, <2>1, ConnIoAssumption DEF Conns
  <2>4. wire[accepted + 1] = <<>>
    BY <2>3 DEF OutInv, Conns
  <2>5. Stream(fd)' = <<>>
    <3>1. Stream(fd)' = <<>> \o <<>>
      BY <2>1, <2>2, <2>4 DEF Stream
    <3> QED
      BY <3>1
  <2>6. ASSUME NEW f \in DOMAIN conn_map'
        PROVE  OutOf(Stream(f)', messages', g2c')
    <3>1. CASE f = fd
      <4>1. Len(<<>>) = 0 /\ DOMAIN <<>> = {} /\ 0 % Size = 0
        BY ConnIoAssumption
      <4>2. Whole(<<>>) /\ \A n : Below(<<>>, n)
        BY <4>1 DEF Whole, Below
      <4> QED
        BY <2>5, <3>1, <4>2 DEF OutOf
    <3>2. CASE f # fd
      <4>1. Stream(f)' = Stream(f) /\ f \in DOMAIN conn_map
        BY <2>1, <2>2, <3>2 DEF Stream
      <4> QED
        BY <2>2, <4>1 DEF OutInv, OutOf
    <3> QED
      BY <3>1, <3>2
  <2>7. \A c \in Conns : c > accepted' => wire'[c] = <<>>
    <3> TAKE c \in Conns
    <3> HAVE c > accepted'
    <3>1. c > accepted
      BY <2>1, <2>3 DEF Conns
    <3> QED
      BY <2>2, <3>1 DEF OutInv
  <2> QED
    BY <2>6, <2>7 DEF OutInv, OutOf, Whole, Below
<1>2. CASE Gone
  <2>1. PICK fd, arg : fd = Fd /\ arg = Arg
    OBVIOUS
  <2>2. /\ Release(fd, arg) /\ UNCHANGED <<accepted, messages, wire, g2c>>
    BY <1>2, <2>1, GoneIs
  <2> QED
    BY <1>drops, <2>2 DEF Release, Drops
<1>3. ASSUME NEW n \in 1..PkgBufSize, RecvData(n), ~Release(Fd, Arg) PROVE OutInv'
  <2>1. PICK fd : fd = Fd
    OBVIOUS
  <2>2. PICK c, s : Turns(fd, c, s) /\ c.send_buf = conn_map[fd].send_buf
    BY <1>3, <2>1, RecvDataIs
  <2>3. UNCHANGED <<accepted, messages, wire, g2c>>
    BY <1>3 DEF RecvData, links
  <2> QED
    BY <1>turns, <2>2, <2>3
<1>4. ASSUME NEW body \in Bodies, ForwardFrame(body), ~Release(Fd, Arg) PROVE OutInv'
  <2>1. PICK fd : fd = Fd
    OBVIOUS
  <2>2. PICK c : Turns(fd, c, sockets[fd]) /\ c.send_buf = conn_map[fd].send_buf
    BY <1>4, <2>1, ForwardFrameIs
  <2>3. UNCHANGED <<accepted, messages, wire, g2c>>
    BY <1>4 DEF ForwardFrame
  <2> QED
    BY <1>turns, <2>2, <2>3
<1>5. CASE WriteSends
  <2>1. PICK fd : fd = Fd
    OBVIOUS
  <2>2. PICK c, s, w : /\ Turns(fd, c, s)
                       /\ wire' = [wire EXCEPT ![c.conn] = w]
                       /\ w \o c.send_buf = Stream(fd)
    <3>1. /\ fd \in DOMAIN conn_map /\ round # <<>>
          /\ \E c, s, w :
                  /\ Turns(fd, c, s) /\ s.in = sockets[fd].in
                  /\ c.player_idx = conn_map[fd].player_idx
                  /\ c.recv_buf = conn_map[fd].recv_buf
                  /\ w \in Seq(Bytes) /\ wire' = [wire EXCEPT ![c.conn] = w]
                  /\ w \o c.send_buf = Stream(fd)
                  /\ \/ /\ conn_map[fd].send_buf # <<>> /\ c.send_buf # <<>>
                        /\ UNCHANGED <<status, file_events>>
                     \/ status' = "crashed" /\ file_events' = file_events
                     \/ /\ c.send_buf = <<>>
                        /\ status' = status /\ DelEvent(fd, {"WRITE"})
      BY <1>5, <2>1, WriteSendsIs, Zenon
    <3> QED
      BY <3>1, Zenon
  <2>3. UNCHANGED <<accepted, messages, g2c>>
    BY <1>5 DEF WriteSends, links
  <2>4. /\ DOMAIN conn_map' = DOMAIN conn_map /\ conn_map'[fd] = c /\ fd \in DOMAIN conn_map
        /\ \A f \in DOMAIN conn_map \ {fd} : conn_map'[f] = conn_map[f]
    BY <2>2, <2>3, Turned
  <2>5. c.conn = conn_map[fd].conn
    BY <2>2 DEF Turns
  <2>6. /\ \A k \in Conns : k > accepted => wire'[k] = wire[k]
        /\ wire'[c.conn] = w
        /\ \A f \in DOMAIN conn_map' \ {fd} : Stream(f)' = Stream(f)
    <3>1. wire' = [wire EXCEPT ![conn_map[fd].conn] = w]
      BY <2>2, <2>5, Zenon
    <3>2. DOMAIN conn_map' \subseteq DOMAIN conn_map /\ fd \in DOMAIN conn_map
      BY <2>4
    <3>3. \A f \in DOMAIN conn_map' \ {fd} : conn_map'[f] = conn_map[f]
      BY <2>4
    <3>4. accepted' = accepted
      BY <2>3
    <3>5. /\ \A k \in Conns : k > accepted => wire'[k] = wire[k]
          /\ wire'[conn_map[fd].conn] = w
          /\ \A f \in DOMAIN conn_map' \ {fd} : Stream(f)' = Stream(f)
      BY <3>1, <3>2, <3>3, <3>4, WireOne
    <3> QED
      BY <2>5, <3>5
  <2>7. Stream(fd)' = Stream(fd)
    BY <2>2, <2>4, <2>6 DEF Stream
  <2> QED
    BY <2>3, <2>4, <2>6, <2>7, OutKeeps
<1>6. CASE ZmqReadSendFail
  <2>1. PICK fd : fd = To
    OBVIOUS
  <2>2. /\ Release(fd, "epoller") /\ UNCHANGED <<accepted, messages, wire>>
        /\ g2c # <<>> /\ g2c' = Tail(g2c)
    BY <1>6, <2>1 DEF ZmqReadSendFail
  <2> QED
    BY <1>drops, <1>tail, <2>2 DEF Release, Drops
<1>7. CASE Replies
  <2>1. PICK fd : fd = To
    OBVIOUS
  <2>2. /\ Taken /\ fd \in DOMAIN conn_map
        /\ \E w, sb \in Seq(Bytes) :
               /\ wire' = [wire EXCEPT ![conn_map[fd].conn] = w]
               /\ \/ w \o sb = Stream(fd)
                  \/ w \o sb = Stream(fd) \o Frame(Message.n)
               /\ Drops(fd) \/ \E c, s : Turns(fd, c, s) /\ c.send_buf = sb
    <3>1. /\ Taken /\ fd \in DOMAIN conn_map
          /\ \E w, sb \in Seq(Bytes) : Answered(fd, w, sb)
      BY <1>7, <2>1, RepliesIs, Zenon
    <3>2. PICK w, sb \in Seq(Bytes) : Answered(fd, w, sb)
      BY <3>1
    <3>3. Drops(fd) \/ \E c, s : Turns(fd, c, s) /\ c.send_buf = sb
      BY <3>2 DEF Answered
    <3> QED
      BY <3>1, <3>2, <3>3 DEF Answered
  <2>3. PICK w, sb \in Seq(Bytes) :
            /\ wire' = [wire EXCEPT ![conn_map[fd].conn] = w]
            /\ \/ w \o sb = Stream(fd)
               \/ w \o sb = Stream(fd) \o Frame(Message.n)
            /\ Drops(fd) \/ \E c, s : Turns(fd, c, s) /\ c.send_buf = sb
    BY <2>2, Zenon
  <2>4. /\ UNCHANGED <<accepted, messages>> /\ g2c # <<>> /\ g2c' = Tail(g2c)
    BY <2>2 DEF Taken
  <2>5. /\ DOMAIN conn_map' \subseteq DOMAIN conn_map
        /\ \A f \in DOMAIN conn_map' \ {fd} : conn_map'[f] = conn_map[f]
        /\ fd \in DOMAIN conn_map' => /\ conn_map'[fd].conn = conn_map[fd].conn
                                      /\ conn_map'[fd].send_buf = sb
    <3>1. CASE Drops(fd)
      BY <1>0, <2>4, <3>1, Dropped
    <3>2. ASSUME NEW c, NEW s, Turns(fd, c, s), c.send_buf = sb
          PROVE  /\ DOMAIN conn_map' \subseteq DOMAIN conn_map
                 /\ \A f \in DOMAIN conn_map' \ {fd} : conn_map'[f] = conn_map[f]
                 /\ fd \in DOMAIN conn_map' => /\ conn_map'[fd].conn = conn_map[fd].conn
                                               /\ conn_map'[fd].send_buf = sb
      BY <2>4, <3>2, Turned DEF Turns
    <3> QED
      BY <2>3, <3>1, <3>2
  <2>6. /\ \A k \in Conns : k > accepted => wire'[k] = wire[k]
        /\ wire'[conn_map[fd].conn] = w
        /\ \A f \in DOMAIN conn_map' \ {fd} : Stream(f)' = Stream(f)
    <3>1. /\ fd \in DOMAIN conn_map /\ accepted' = accepted
          /\ wire' = [wire EXCEPT ![conn_map[fd].conn] = w]
          /\ DOMAIN conn_map' \subseteq DOMAIN conn_map
          /\ \A f \in DOMAIN conn_map' \ {fd} : conn_map'[f] = conn_map[f]
      BY <2>2, <2>3, <2>4, <2>5
    <3> QED
      BY <3>1, WireOne
  <2>7. fd \in DOMAIN conn_map' => Stream(fd)' = w \o sb
    BY <2>5, <2>6 DEF Stream
  <2>8. CASE w \o sb = Stream(fd)
    <3>1. \A f \in DOMAIN conn_map' : f \in DOMAIN conn_map /\ Stream(f)' = Stream(f)
      BY <2>5, <2>6, <2>7, <2>8
    <3> QED
      BY <1>tail, <2>4, <2>6, <3>1, OutKeeps
  <2>9. CASE w \o sb = Stream(fd) \o Frame(Message.n)
    <3>1. PICK u, n : u = Stream(fd) /\ n = Message.n
      OBVIOUS
    <3>2. /\ Message \in ToClient /\ n <= messages /\ messages \in Nat
          /\ \A i \in DOMAIN g2c' : n < g2c'[i].n /\ g2c'[i] \in ToClient
      <4>1. g2c' \in Seq(ToClient)
        BY DEF TypeInv, NumbersOK
      <4> QED
        BY <1>0, <2>4, <3>1, <4>1, NumbersTail DEF NumbersOK
    <3>3. n \in Nat /\ \A m \in ToClient : m.n \in Nat
      BY <3>1, <3>2 DEF ToClient
    <3>4. u \in Seq(Bytes) /\ Whole(u) /\ Below(u, n)
      <4>1. Message = g2c[1] /\ 1 \in DOMAIN g2c
        BY <1>0, <2>4 DEF NumbersOK, Message
      <4> QED
        BY <2>2, <3>1, <4>1, StreamOf DEF OutInv
    <3>5. /\ Whole(u \o Frame(n))
          /\ \A m \in Nat : n < m => Below(u \o Frame(n), m)
      BY <3>3, <3>4, WholeJoin
    <3>6. n < messages + 1 /\ messages + 1 \in Nat
      BY <3>2, <3>3
    <3>7. OutOf(u \o Frame(n), messages', g2c')
      BY <2>4, <3>2, <3>3, <3>5, <3>6 DEF OutOf
    <3>8. ASSUME NEW f \in DOMAIN conn_map'
          PROVE  OutOf(Stream(f)', messages', g2c')
      <4>1. CASE f = fd
        <5>1. Stream(f)' = u \o Frame(n)
          BY <2>7, <2>9, <3>1, <4>1
        <5> QED
          BY <3>7, <5>1
      <4>2. CASE f # fd
        <5>1. f \in DOMAIN conn_map /\ Stream(f)' = Stream(f)
          BY <2>5, <2>6, <4>2
        <5>2. \A k \in DOMAIN g2c' : \E l \in DOMAIN g2c : g2c'[k] = g2c[l]
          BY <1>tail, <2>4
        <5>3. PICK v : v = Stream(f)
          OBVIOUS
        <5>4. OutOf(v, messages, g2c)
          BY <5>1, <5>3 DEF OutInv, OutOf
        <5>5. OutOf(v, messages', g2c')
          BY <2>4, <5>2, <5>4 DEF OutOf
        <5> QED
          BY <5>1, <5>3, <5>5
      <4> QED
        BY <4>1, <4>2
    <3>9. \A c \in Conns : c > accepted' => wire'[c] = <<>>
      BY <2>4, <2>6 DEF OutInv
    <3> QED
      BY <3>8, <3>9 DEF OutInv, OutOf, Whole, Below
  <2> QED
    BY <2>3, <2>8, <2>9
<1>8. ASSUME NEW cmd \in {"START", "PROC", "STOP"}, NEW fd \in Fds, GameSends(cmd, fd)
      PROVE  OutInv'
  <2> DEFINE seq == IF cmd = "START" THEN Len(asked) ELSE 0
             m == [cmd |-> cmd, conn_fd |-> fd, player_idx |-> 1,
                   seq |-> seq, ret |-> 0, n |-> messages + 1]
  <2>1. /\ g2c' = Append(g2c, m) /\ messages' = messages + 1
        /\ UNCHANGED <<conn_map, wire, accepted>>
    BY <1>8 DEF GameSends
  <2>2. m \in ToClient /\ m.n = messages + 1 /\ messages \in Nat
    <3>1. PICK S : asked \in Seq(S)
      BY DEF TypeInv, IsSeq
    <3>2. Len(asked) \in Nat
      BY <3>1
    <3> QED
      BY <1>0, <3>2 DEF ToClient, NumbersOK
  <2> HIDE DEF m
  <2>3. \A i \in DOMAIN g2c' : \/ i \in DOMAIN g2c /\ g2c'[i] = g2c[i]
                               \/ g2c'[i].n = messages + 1
    BY <1>0, <2>1, <2>2, NumbersAppend
  <2>4. ASSUME NEW f \in DOMAIN conn_map'
        PROVE  OutOf(Stream(f)', messages', g2c')
    <3>1. PICK v : v = Stream(f)
      OBVIOUS
    <3>2. f \in DOMAIN conn_map /\ Stream(f)' = v
      BY <2>1, <3>1 DEF Stream
    <3>3. v \in Seq(Bytes)
      BY <3>1, <3>2, StreamOf
    <3>4. /\ Whole(v) /\ Below(v, messages + 1)
          /\ \A k \in DOMAIN g2c : Below(v, g2c[k].n)
      BY <3>1, <3>2 DEF OutInv
    <3>5. Below(v, messages + 1 + 1)
      <4>1. ASSUME NEW i \in DOMAIN v PROVE v[i][1] < messages + 1 + 1
        <5>1. v[i] \in Nat \X (1..Size)
          BY <3>3 DEF Bytes
        <5>2. v[i][1] < messages + 1 /\ v[i][1] \in Nat
          BY <3>4, <5>1 DEF Below
        <5> QED
          BY <2>2, <5>2
      <4> QED
        BY <4>1 DEF Below
    <3>6. \A k \in DOMAIN g2c' : Below(v, g2c'[k].n)
      BY <2>3, <3>4
    <3> QED
      BY <2>1, <3>2, <3>4, <3>5, <3>6 DEF OutOf
  <2> QED
    BY <2>1, <2>4 DEF OutInv, OutOf, Whole, Below
<1>9. ASSUME NEW fd \in Fds,
             \/ EpollWait(fd) \/ ClientSends(fd) \/ ClientReads(fd)
             \/ \E end \in {"fin", "reset"} : ClientEnds(fd, end)
      PROVE  OutInv'
  BY <1>9, <1>same DEF EpollWait, ClientSends, ClientReads, ClientEnds, links
<1>10. CASE ZmqReadNoConn
  <2>1. UNCHANGED <<conn_map, accepted, messages, wire>> /\ g2c # <<>> /\ g2c' = Tail(g2c)
    BY <1>10 DEF ZmqReadNoConn, io
  <2> QED
    BY <1>same, <1>tail, <2>1
<1>11. CASE NoFrame \/ NoWriteProc \/ WriteNoConn \/ GameTakes \/ UNCHANGED vars
  BY <1>11, <1>same DEF NoFrame, NoWriteProc, WriteNoConn, GameTakes, io, links, vars
<1> QED
  BY <1>1, <1>2, <1>3, <1>4, <1>5, <1>6, <1>7, <1>8, <1>9, <1>10, <1>11, Steps

\* The frames a client sent are what connsvr takes for frames, and what it sends
\* to a client are whole messages in their order, in whatever pieces the bytes
\* come and go.
THEOREM StreamsCorrect == Spec => []StreamsIntact
<1>1. InInv /\ OutInv => StreamsIntact
  BY DEF InInv, OutInv, Stream, StreamsIntact
<1> QED
  BY <1>1, TypesBegin, TypesStep, InBegin, InStep, OutBegin, OutStep, PTL DEF Spec

-----------------------------------------------------------------------------
(* Requests are bounded by what clients have sent *)

\* The frame <<c, k>> is on its way, from a client with an open connection.
IsComing(c, k) == /\ \E fd \in DOMAIN conn_map : conn_map[fd].conn = c
                  /\ k \in Len(forwarded[c]) + 1..requested[c]

LEMMA ComingIs ==
    /\ \A x : x \in Coming <=> \E c, k : x = <<c, k>> /\ IsComing(c, k)
    /\ \A x : x \in Coming' <=> \E c, k : x = <<c, k>> /\ IsComing(c, k)'
  BY DEF Coming, IsComing

LEMMA RequestsAre ==
    /\ \A x : x \in Requests <=> \E c \in Conns : \E k \in 1..requested[c] : x = <<c, k>>
    /\ \A x : x \in Requests' <=> \E c \in Conns : \E k \in 1..requested'[c] : x = <<c, k>>
  BY DEF Requests

\* No fewer elements are left of a set when less is taken away.
LEMMA LeftOver ==
    ASSUME NEW R, IsFiniteSet(R), NEW C, NEW D, D \subseteq C
    PROVE  /\ Cardinality(R \ C) \in Nat /\ Cardinality(R \ D) \in Nat
           /\ Cardinality(R \ C) <= Cardinality(R \ D)
           /\ \A x \in R : x \in C /\ x \notin D =>
                  /\ Cardinality(R \ C) + 1 <= Cardinality(R \ D)
                  /\ Cardinality(R \ C) < Cardinality(R)
<1>1. IsFiniteSet(R \ C) /\ IsFiniteSet(R \ D)
  BY FS_Subset
<1>2. R \ C \in SUBSET (R \ D)
  OBVIOUS
<1>3. /\ Cardinality(R \ C) \in Nat /\ Cardinality(R \ D) \in Nat /\ Cardinality(R) \in Nat
      /\ Cardinality(R \ C) <= Cardinality(R \ D) /\ Cardinality(R \ D) <= Cardinality(R)
  BY <1>1, <1>2, FS_Subset, FS_CardinalityType
<1>4. ASSUME NEW x \in R, x \in C, x \notin D
      PROVE  Cardinality(R \ C) + 1 <= Cardinality(R \ D)
  <2>1. (R \ C) \cup {x} \in SUBSET (R \ D)
    BY <1>4
  <2>2. x \notin R \ C
    BY <1>4
  <2>3. Cardinality((R \ C) \cup {x}) = Cardinality(R \ C) + 1
    BY <1>1, <2>2, FS_AddElement
  <2>4. Cardinality((R \ C) \cup {x}) <= Cardinality(R \ D)
    BY <1>1, <2>1, FS_Subset
  <2> QED
    BY <2>3, <2>4
<1> QED
  BY <1>3, <1>4

LEMMA AskedBegin == Init => AskedInv
<1> SUFFICES ASSUME Init PROVE AskedInv
  OBVIOUS
<1>1. Requests = {}
  BY RequestsAre DEF Init
<1>2. Requests \ Coming = {}
  BY <1>1
<1>3. Len(asked) = 0 /\ MaxRequests \in Nat
  BY LinksAssumption DEF Init, LinksInit
<1> QED
  BY <1>1, <1>2, <1>3, FS_EmptySet DEF AskedInv

\* No frame is taken, and none is sent.
LEMMA AskedKeeps ==
    ASSUME AskedInv, UNCHANGED <<asked, requested>>,
           \A c, k : IsComing(c, k)' => IsComing(c, k)
    PROVE  AskedInv'
<1>1. Requests' = Requests
  BY DEF Requests
<1>2. PICK R, C, D : R = Requests /\ C = Coming /\ D = Coming'
  OBVIOUS
<1>3. D \subseteq C
  BY <1>2, ComingIs
<1>4. Cardinality(R \ C) <= Cardinality(R \ D)
  BY <1>2, <1>3, LeftOver DEF AskedInv
<1>5. Cardinality(R \ C) \in Nat /\ Cardinality(R \ D) \in Nat
  BY <1>2, <1>3, LeftOver DEF AskedInv
<1>6. Len(asked) <= Cardinality(R \ D)
  BY <1>2, <1>4, <1>5 DEF AskedInv
<1> QED
  BY <1>1, <1>2, <1>6 DEF AskedInv

\* A frame connsvr takes is one that was to come: one more request, one more frame.
LEMMA FrameAsked ==
    ASSUME TypeInv, InInv, AskedInv, NEW body, ForwardFrame(body)
    PROVE  AskedInv' /\ Len(asked) < MaxRequests
<1>1. PICK fd : fd = Fd
  OBVIOUS
<1>2. /\ fd \in DOMAIN conn_map
      /\ Len(conn_map[fd].recv_buf) >= Size
      /\ \/ Drops(fd) /\ forwarded' = forwarded
         \/ /\ \E c : Turns(fd, c, sockets[fd])
            /\ forwarded' = [forwarded EXCEPT ![conn_map[fd].conn] =
                                Append(@, SubSeq(conn_map[fd].recv_buf, 1, Size))]
  BY <1>1, ForwardFrameIs DEF Release, Drops
<1>3. /\ UNCHANGED <<accepted, requested>>
      /\ asked' = Append(asked, [conn |-> conn_map[fd].conn, body |-> body])
  BY <1>1 DEF ForwardFrame
<1>4. PICK c : c = conn_map[fd].conn
  OBVIOUS
<1>5. PICK f, r, u : f = Len(forwarded[c]) /\ r = requested[c] /\ u = Unread(fd)
  OBVIOUS
<1>6. /\ u \in Seq(Bytes) /\ c \in Conns /\ f \in Nat /\ r \in Nat /\ Frames(u, f, r)
      /\ forwarded[c] \in Seq(Seq(Bytes))
  BY <1>2, <1>4, <1>5, UnreadOf
<1>7. Len(u) >= Size
  <2>1. PICK buf, in : buf = conn_map[fd].recv_buf /\ in = sockets[fd].in
    OBVIOUS
  <2>2. buf \in Seq(Bytes) /\ in \in Seq(Bytes)
    BY <1>2, <2>1, ConnOf
  <2>3. Len(u) = Len(buf) + Len(in) /\ Len(buf) \in Nat /\ Len(in) \in Nat /\ Len(buf) >= Size
    BY <1>2, <1>5, <2>1, <2>2, Joint DEF Unread
  <2> QED
    BY <2>3, SizePositive
<1>8. f + 1 <= r
  BY <1>6, <1>7, FramesCut
<1>9. /\ ConnsOK /\ sockets \in [Fds -> Socket]
      /\ \A g \in DOMAIN conn_map \ {fd} : conn_map[g].conn # c
  BY <1>2, <1>4 DEF TypeInv, ConnsOK
<1>10. IsComing(c, f + 1)
  BY <1>2, <1>4, <1>5, <1>6, <1>8 DEF IsComing
<1>11. /\ ~IsComing(c, f + 1)'
       /\ \A d, k : IsComing(d, k)' => IsComing(d, k)
  <2>1. CASE Drops(fd) /\ forwarded' = forwarded
    <3>1. /\ DOMAIN conn_map' = DOMAIN conn_map \ {fd}
          /\ \A g \in DOMAIN conn_map' : conn_map'[g] = conn_map[g]
      BY <1>3, <1>9, <2>1, Dropped
    <3> QED
      BY <1>3, <1>9, <2>1, <3>1 DEF IsComing
  <2>2. ASSUME NEW k, Turns(fd, k, sockets[fd]),
               forwarded' = [forwarded EXCEPT ![conn_map[fd].conn] =
                                Append(@, SubSeq(conn_map[fd].recv_buf, 1, Size))]
        PROVE  /\ ~IsComing(c, f + 1)'
               /\ \A d, l : IsComing(d, l)' => IsComing(d, l)
    <3>1. /\ DOMAIN conn_map' = DOMAIN conn_map /\ conn_map'[fd].conn = c
          /\ \A g \in DOMAIN conn_map \ {fd} : conn_map'[g] = conn_map[g]
      BY <1>3, <1>4, <2>2, Turned DEF Turns
    <3>2. \A g \in DOMAIN conn_map' : conn_map'[g].conn = conn_map[g].conn
      BY <1>4, <3>1
    <3>3. Len(forwarded'[c]) = f + 1
      <4>1. forwarded'[c] = Append(forwarded[c], SubSeq(conn_map[fd].recv_buf, 1, Size))
        BY <1>4, <1>6, <2>2 DEF TypeInv
      <4> QED
        BY <1>5, <1>6, <4>1
    <3>4. \A d \in Conns \ {c} : forwarded'[d] = forwarded[d]
      BY <1>4, <2>2 DEF TypeInv
    <3>5. ASSUME NEW d, NEW l, IsComing(d, l)' PROVE IsComing(d, l)
      <4>1. d \in Conns /\ \E g \in DOMAIN conn_map : conn_map[g].conn = d
        BY <3>1, <3>2, <3>5, <1>9, ConnOf DEF IsComing
      <4>2. CASE d = c
        BY <1>3, <1>5, <1>6, <3>3, <3>5, <4>1, <4>2 DEF IsComing
      <4>3. CASE d # c
        BY <1>3, <3>4, <3>5, <4>1, <4>3 DEF IsComing
      <4> QED
        BY <4>2, <4>3
    <3>6. ~IsComing(c, f + 1)'
      BY <1>6, <3>3 DEF IsComing
    <3> QED
      BY <3>5, <3>6
  <2> QED
    BY <1>2, <2>1, <2>2
<1>12. Requests' = Requests
  BY <1>3 DEF Requests
<1>13. PICK R, C, D, x : R = Requests /\ C = Coming /\ D = Coming' /\ x = <<c, f + 1>>
  OBVIOUS
<1>14. D \subseteq C /\ x \in C /\ x \notin D
  BY <1>10, <1>11, <1>13, ComingIs
<1>15. x \in R
  BY <1>5, <1>6, <1>8, <1>13, RequestsAre
<1>16. /\ Cardinality(R \ C) \in Nat /\ Cardinality(R \ D) \in Nat
       /\ Cardinality(R \ C) + 1 <= Cardinality(R \ D)
       /\ Cardinality(R \ C) < Cardinality(R)
  BY <1>13, <1>14, <1>15, LeftOver DEF AskedInv
<1>17. Len(asked') = Len(asked) + 1 /\ Len(asked) \in Nat
  <2>1. PICK S : asked \in Seq(S)
    BY DEF TypeInv, IsSeq
  <2> QED
    BY <1>3, <2>1
<1>18. Cardinality(R) <= MaxRequests /\ Len(asked) <= Cardinality(R \ C) /\ IsFiniteSet(R)
  BY <1>13 DEF AskedInv
<1>19. Cardinality(R) \in Nat /\ MaxRequests \in Nat
  BY <1>18, FS_CardinalityType, LinksAssumption
<1>20. Len(asked') <= Cardinality(R \ D) /\ Len(asked) < MaxRequests
  BY <1>16, <1>17, <1>18, <1>19
<1> QED
  BY <1>12, <1>13, <1>18, <1>20 DEF AskedInv

LEMMA FrameSent ==
    ASSUME TypeInv, InInv, AskedInv, NEW fd \in Fds, ClientSends(fd)
    PROVE  AskedInv'
<1>1. PICK c, r : c = conn_map[fd].conn /\ r = requested[c]
  OBVIOUS
<1>2. /\ fd \in DOMAIN conn_map
      /\ UNCHANGED <<conn_map, forwarded, asked>>
      /\ requested' = [requested EXCEPT ![c] = r + 1]
      /\ Cardinality(Requests) < MaxRequests
  BY <1>1, ClientSendsIs DEF ClientSends, links
<1>3. c \in Conns /\ r \in Nat /\ requested \in [Conns -> Nat] /\ Len(forwarded[c]) \in Nat
  BY <1>1, <1>2, UnreadOf DEF TypeInv
<1>4. requested'[c] = r + 1 /\ \A d \in Conns \ {c} : requested'[d] = requested[d]
  BY <1>2, <1>3
<1>5. PICK R, S, C, D, x : /\ R = Requests /\ S = Requests' /\ C = Coming /\ D = Coming'
                           /\ x = <<c, r + 1>>
  OBVIOUS
<1>6. x \notin R /\ S = R \cup {x}
  <2>1. x \notin R
    BY <1>1, <1>3, <1>5, RequestsAre
  <2>2. ASSUME NEW y \in S PROVE y \in R \cup {x}
    <3>1. PICK d \in Conns : \E k \in 1..requested'[d] : y = <<d, k>>
      BY <1>5, <2>2, RequestsAre
    <3>2. PICK k \in 1..requested'[d] : y = <<d, k>>
      BY <3>1
    <3>3. CASE d = c
      <4>1. k \in 1..r \/ k = r + 1
        BY <1>3, <1>4, <3>2, <3>3
      <4> QED
        BY <1>1, <1>5, <3>2, <3>3, <4>1, RequestsAre
    <3>4. CASE d # c
      BY <1>4, <1>5, <3>2, <3>4, RequestsAre
    <3> QED
      BY <3>3, <3>4
  <2>3. ASSUME NEW y \in R PROVE y \in S
    <3>1. PICK d \in Conns : \E k \in 1..requested[d] : y = <<d, k>>
      BY <1>5, <2>3, RequestsAre
    <3>2. PICK k \in 1..requested[d] : y = <<d, k>>
      BY <3>1
    <3>3. k \in 1..requested'[d]
      BY <1>1, <1>3, <1>4, <3>2
    <3> QED
      BY <1>5, <3>2, <3>3, RequestsAre
  <2>4. x \in S
    <3>1. r + 1 \in 1..requested'[c]
      BY <1>3, <1>4
    <3> QED
      BY <1>3, <1>5, <3>1, RequestsAre
  <2> QED
    BY <2>1, <2>2, <2>3, <2>4
<1>7. ASSUME NEW y \in D PROVE y \in C \/ y = x
  <2>1. PICK d, k : y = <<d, k>> /\ IsComing(d, k)'
    BY <1>5, <1>7, ComingIs
  <2>2. d \in Conns /\ \E g \in DOMAIN conn_map : conn_map[g].conn = d
    BY <1>2, <2>1, ConnOf DEF IsComing
  <2>3. CASE d = c
    <3>1. k \in Len(forwarded[c]) + 1..r + 1
      BY <1>2, <1>4, <2>1, <2>3 DEF IsComing
    <3>2. k = r + 1 \/ k \in Len(forwarded[c]) + 1..r
      BY <1>3, <3>1
    <3> QED
      BY <1>1, <1>5, <2>1, <2>2, <2>3, <3>2, ComingIs DEF IsComing
  <2>4. CASE d # c
    <3>1. IsComing(d, k)
      BY <1>2, <1>4, <2>1, <2>2, <2>4 DEF IsComing
    <3> QED
      BY <1>5, <2>1, <3>1, ComingIs
  <2> QED
    BY <2>3, <2>4
<1>8. IsFiniteSet(R) /\ Cardinality(R) < MaxRequests /\ Len(asked) <= Cardinality(R \ C)
  BY <1>2, <1>5 DEF AskedInv
<1>9. IsFiniteSet(S) /\ Cardinality(S) = Cardinality(R) + 1 /\ Cardinality(R) \in Nat
  BY <1>6, <1>8, FS_AddElement, FS_CardinalityType
<1>10. Cardinality(S) <= MaxRequests
  BY <1>8, <1>9, LinksAssumption
<1>11. R \ C \in SUBSET (S \ D) /\ IsFiniteSet(S \ D)
  BY <1>6, <1>7, <1>9, FS_Subset
<1>12. /\ Cardinality(R \ C) <= Cardinality(S \ D) /\ Cardinality(S \ D) \in Nat
       /\ Cardinality(R \ C) \in Nat
  BY <1>11, FS_Subset, FS_CardinalityType
<1>13. Len(asked) \in Nat
  BY DEF TypeInv, IsSeq
<1>14. Len(asked) <= Cardinality(S \ D)
  BY <1>8, <1>12, <1>13
<1> QED
  BY <1>2, <1>5, <1>9, <1>10, <1>14 DEF AskedInv

LEMMA AskedStep ==
    TypeInv /\ InInv /\ AskedInv /\ [Next]_vars => AskedInv'
<1> SUFFICES ASSUME TypeInv, InInv, AskedInv, [Next]_vars PROVE AskedInv'
  OBVIOUS
<1>0. /\ ConnsOK /\ sockets \in [Fds -> Socket] /\ accepted \in 0..MaxConns
  BY DEF TypeInv
<1>drops. ASSUME NEW fd, Drops(fd), UNCHANGED <<asked, accepted, requested, forwarded>>
          PROVE  AskedInv'
  <2>1. /\ DOMAIN conn_map' \subseteq DOMAIN conn_map
        /\ \A f \in DOMAIN conn_map' : conn_map'[f] = conn_map[f]
    BY <1>0, <1>drops, Dropped
  <2> QED
    BY <1>drops, <2>1, AskedKeeps DEF IsComing
<1>turns. ASSUME NEW fd, NEW c, NEW s, Turns(fd, c, s),
                 UNCHANGED <<asked, accepted, requested, forwarded>>
          PROVE  AskedInv'
  <2>1. /\ DOMAIN conn_map' = DOMAIN conn_map /\ conn_map'[fd] = c
        /\ \A f \in DOMAIN conn_map \ {fd} : conn_map'[f] = conn_map[f]
    BY <1>turns, Turned
  <2>2. c.conn = conn_map[fd].conn
    BY <1>turns DEF Turns
  <2>3. \A f \in DOMAIN conn_map' : conn_map'[f].conn = conn_map[f].conn
    BY <2>1, <2>2
  <2> QED
    BY <1>turns, <2>1, <2>3, AskedKeeps DEF IsComing
<1>same. ASSUME UNCHANGED <<asked, conn_map, requested, forwarded>>
         PROVE  AskedInv'
  BY <1>same, AskedKeeps DEF IsComing
<1>1. ASSUME NEW fd \in Fds, DoTcpAccept(fd) PROVE AskedInv'
  <2>1. /\ DOMAIN conn_map' = DOMAIN conn_map \cup {fd}
        /\ conn_map'[fd] = [player_idx |-> 0, conn |-> accepted + 1,
                            recv_buf |-> <<>>, send_buf |-> <<>>]
        /\ \A f \in DOMAIN conn_map : conn_map'[f] = conn_map[f]
        /\ accepted' = accepted + 1 /\ accepted' \in 0..MaxConns
    BY <1>0, <1>1, Joined
  <2>2. accepted + 1 \in Conns /\ accepted + 1 > accepted
    BY <1>0, <2>1, ConnIoAssumption DEF Conns
  <2>3. requested[accepted + 1] = 0 /\ Len(forwarded[accepted + 1]) = 0
    BY <2>2 DEF InInv
  <2>4. UNCHANGED <<asked, requested, forwarded>>
    BY <1>1 DEF DoTcpAccept, links
  <2>5. ASSUME NEW c, NEW k, IsComing(c, k)' PROVE IsComing(c, k)
    <3>1. c # accepted + 1
      BY <2>3, <2>4, <2>5 DEF IsComing
    <3> QED
      BY <2>1, <2>4, <2>5, <3>1 DEF IsComing
  <2> QED
    BY <2>4, <2>5, AskedKeeps
<1>2. CASE RecvFails \/ RecvEnd \/ WriteFails \/ \E n \in 1..PkgBufSize : RecvData(n) /\ Release(Fd, Arg)
  <2>1. Release(Fd, Arg) /\ UNCHANGED <<accepted, requested, forwarded>>
    BY <1>2, GoneIs DEF Gone
  <2>2. asked' = asked
    BY <1>2 DEF RecvFails, RecvEnd, WriteFails, RecvData, links
  <2> QED
    BY <1>drops, <2>1, <2>2 DEF Release, Drops
<1>3. ASSUME NEW n \in 1..PkgBufSize, RecvData(n), ~Release(Fd, Arg) PROVE AskedInv'
  <2>1. PICK fd : fd = Fd
    OBVIOUS
  <2>2. PICK c, s : Turns(fd, c, s)
    BY <1>3, <2>1, RecvDataIs
  <2>3. UNCHANGED <<asked, accepted, requested, forwarded>>
    BY <1>3 DEF RecvData, links
  <2> QED
    BY <1>turns, <2>2, <2>3
<1>4. ASSUME NEW body \in Bodies, ForwardFrame(body) PROVE AskedInv'
  BY <1>4, FrameAsked
<1>5. CASE WriteSends
  <2>1. PICK fd : fd = Fd
    OBVIOUS
  <2>2. PICK c, s : Turns(fd, c, s) /\ s.in = sockets[fd].in /\ c.recv_buf = conn_map[fd].recv_buf
    BY <1>5, <2>1, WriteSendsIs
  <2>3. UNCHANGED <<asked, accepted, requested, forwarded>>
    BY <1>5 DEF WriteSends, links
  <2> QED
    BY <1>turns, <2>2, <2>3
<1>6. CASE ZmqReadSendFail
  BY <1>6, <1>drops DEF ZmqReadSendFail, Release, Drops
<1>7. CASE Replies
  <2>1. PICK fd : fd = To
    OBVIOUS
  <2>2. Taken /\ (Drops(fd) \/ \E c, s : Turns(fd, c, s))
    BY <1>7, <2>1, RepliesIs DEF Answered
  <2>3. UNCHANGED <<asked, accepted, requested, forwarded>>
    BY <2>2 DEF Taken
  <2> QED
    BY <1>drops, <1>turns, <2>2, <2>3
<1>8. ASSUME NEW fd \in Fds, ClientSends(fd) PROVE AskedInv'
  BY <1>8, FrameSent
<1>9. ASSUME NEW fd \in Fds,
             EpollWait(fd) \/ ClientReads(fd) \/ \E end \in {"fin", "reset"} : ClientEnds(fd, end)
      PROVE  AskedInv'
  BY <1>9, <1>same DEF EpollWait, ClientReads, ClientEnds, links
<1>10. ASSUME NEW cmd, NEW fd, GameSends(cmd, fd) PROVE AskedInv'
  BY <1>10, <1>same DEF GameSends
<1>11. CASE \/ NoFrame \/ NoWriteProc \/ WriteNoConn \/ ZmqReadNoConn \/ GameTakes
            \/ UNCHANGED vars
  BY <1>11, <1>same DEF NoFrame, NoWriteProc, WriteNoConn, ZmqReadNoConn, GameTakes, io, links, vars
<1> QED
  BY <1>1, <1>2, <1>3, <1>4, <1>5, <1>6, <1>7, <1>8, <1>9, <1>10, <1>11, Steps DEF Gone

-----------------------------------------------------------------------------
(* connsvr implements ConnSvr *)

\* The connections as ConnSvr has them.
LEMMA ConnectedIs ==
    /\ /\ DOMAIN Connected = DOMAIN conn_map
       /\ \A f \in DOMAIN conn_map :
              Connected[f] = [player_idx |-> conn_map[f].player_idx, conn |-> conn_map[f].conn]
    /\ /\ DOMAIN Connected' = DOMAIN conn_map'
       /\ \A f \in DOMAIN conn_map' :
              Connected'[f] = [player_idx |-> conn_map'[f].player_idx, conn |-> conn_map'[f].conn]
  BY DEF Connected

\* Two of them are equal if their parts are.
LEMMA SameConnected ==
    ASSUME NEW M, M = [f \in DOMAIN M |-> M[f]], DOMAIN M = DOMAIN conn_map',
           \A f \in DOMAIN conn_map' : M[f] = Connected'[f]
    PROVE  Connected' = M
<1>1. Connected' = [f \in DOMAIN Connected' |-> Connected'[f]]
  BY DEF Connected
<1>2. DOMAIN Connected' = DOMAIN M
  BY ConnectedIs
<1> QED
  BY <1>1, <1>2

LEMMA ConnectedDrops ==
    ASSUME TypeInv, accepted' = accepted, NEW fd, Drops(fd)
    PROVE  Service!ReleaseConn(fd)
<1>1. /\ DOMAIN conn_map' = DOMAIN conn_map \ {fd}
      /\ \A f \in DOMAIN conn_map' : conn_map'[f] = conn_map[f]
  BY Dropped DEF TypeInv
<1>2. PICK M : M = [f \in DOMAIN Connected \ {fd} |-> Connected[f]]
  OBVIOUS
<1>3. /\ DOMAIN M = DOMAIN conn_map' /\ M = [f \in DOMAIN M |-> M[f]]
      /\ \A f \in DOMAIN conn_map' : M[f] = Connected'[f]
  BY <1>1, <1>2, ConnectedIs
<1> QED
  BY <1>2, <1>3, SameConnected DEF Service!ReleaseConn

\* Buffers and sockets are not in ConnSvr.
LEMMA ConnectedTurns ==
    ASSUME TypeInv, accepted' = accepted, NEW fd, NEW c, NEW s, Turns(fd, c, s)
    PROVE  /\ c.player_idx = conn_map[fd].player_idx => Connected' = Connected
           /\ \A p : c.player_idx = p => Connected' = [Connected EXCEPT ![fd].player_idx = p]
<1>1. /\ DOMAIN conn_map' = DOMAIN conn_map /\ conn_map'[fd] = c /\ fd \in DOMAIN conn_map
      /\ \A f \in DOMAIN conn_map \ {fd} : conn_map'[f] = conn_map[f]
      /\ c.conn = conn_map[fd].conn
  BY Turned DEF Turns
<1>2. PICK p, M : p = c.player_idx /\ M = [Connected EXCEPT ![fd].player_idx = p]
  OBVIOUS
<1>3. Connected'[fd] = [player_idx |-> p, conn |-> conn_map[fd].conn]
  BY <1>1, <1>2, ConnectedIs
<1>4. /\ DOMAIN M = DOMAIN conn_map'
      /\ \A f \in DOMAIN conn_map' \ {fd} : M[f] = Connected[f]
      /\ M[fd] = [Connected[fd] EXCEPT !.player_idx = p]
      /\ M = [f \in DOMAIN M |-> M[f]]
  BY <1>1, <1>2, ConnectedIs
<1>5. M[fd] = Connected'[fd]
  BY <1>1, <1>3, <1>4, ConnectedIs
<1>6. \A f \in DOMAIN conn_map' : M[f] = Connected'[f]
  BY <1>1, <1>4, <1>5, ConnectedIs
<1>7. Connected' = M
  BY <1>4, <1>6, SameConnected
<1>8. ASSUME p = conn_map[fd].player_idx PROVE Connected' = Connected
  <2>1. \A f \in DOMAIN conn_map' : Connected[f] = Connected'[f]
    BY <1>1, <1>3, <1>8, ConnectedIs
  <2>2. Connected = [f \in DOMAIN Connected |-> Connected[f]]
    BY DEF Connected
  <2> QED
    BY <1>1, <2>1, <2>2, ConnectedIs, SameConnected
<1> QED
  BY <1>2, <1>7, <1>8

LEMMA ConnectedJoins ==
    ASSUME TypeInv, NEW fd \in Fds, DoTcpAccept(fd)
    PROVE  Service!DoTcpAccept(fd)
<1>1. /\ fd \notin DOMAIN conn_map /\ DOMAIN conn_map' = DOMAIN conn_map \cup {fd}
      /\ conn_map'[fd] = [player_idx |-> 0, conn |-> accepted + 1,
                          recv_buf |-> <<>>, send_buf |-> <<>>]
      /\ \A f \in DOMAIN conn_map : conn_map'[f] = conn_map[f]
      /\ accepted' = accepted + 1
  BY Joined DEF TypeInv
<1>2. PICK M : M = [f \in DOMAIN Connected \cup {fd} |->
                       IF f = fd THEN [player_idx |-> 0, conn |-> accepted + 1]
                                 ELSE Connected[f]]
  OBVIOUS
<1>3. Connected'[fd] = [player_idx |-> 0, conn |-> accepted + 1]
  <2>1. conn_map'[fd].player_idx = 0 /\ conn_map'[fd].conn = accepted + 1
    BY <1>1
  <2> QED
    BY <1>1, <2>1, ConnectedIs
<1>4. DOMAIN M = DOMAIN conn_map' /\ M = [f \in DOMAIN M |-> M[f]]
  BY <1>1, <1>2, ConnectedIs
<1>5. \A f \in DOMAIN conn_map' : M[f] = Connected'[f]
  BY <1>1, <1>2, <1>3, ConnectedIs
<1>6. Connected' = M
  BY <1>4, <1>5, SameConnected
<1>7. /\ accepted < MaxConns /\ Cardinality(DOMAIN conn_map) < ConnPoolSize
      /\ \A f \in Fds \ DOMAIN conn_map : fd <= f
      /\ UNCHANGED <<delivered, links>>
  BY DEF DoTcpAccept
<1>8. Service!Cardinality(DOMAIN Connected) = Cardinality(DOMAIN conn_map)
  BY ConnectedIs DEF Service!Cardinality, Cardinality
<1> QED
  BY <1>1, <1>2, <1>6, <1>7, <1>8, ConnectedIs
     DEF Service!DoTcpAccept, Service!Fds, Fds, Service!links, links

\* ConnSvr's names for what both have.
LEMMA SameNames ==
    /\ Service!links = links /\ Service!links' = links' /\ Service!Fds = Fds /\ Service!NoFd = 0
    /\ \A q, msgs : Service!Push(q, msgs) = Push(q, msgs)
    /\ \A cmd, fd, idx, seq, conn :
           Service!ToGame(cmd, fd, idx, seq, conn) = ToGame(cmd, fd, idx, seq, conn)
  BY DEF Service!links, links, Service!Fds, Fds, Service!NoFd, Service!Push, Push,
         Service!ToGame, ToGame

\* A connection goes without a word to gamesvr.
LEMMA FailIsFail ==
    ASSUME TypeInv, "reset" \in Faults, NEW fd \in DOMAIN conn_map, Drops(fd),
           UNCHANGED <<accepted, delivered, links>>
    PROVE  Service!DoTcpReadFail(fd)
<1>1. Service!ReleaseConn(fd) /\ fd \in DOMAIN Connected
  BY ConnectedDrops, ConnectedIs
<1> QED
  BY <1>1, SameNames DEF Service!DoTcpReadFail

LEMMA EndIsEnd ==
    ASSUME TypeInv, "hangup" \in Faults, RecvEnd, NEW fd, fd = Fd
    PROVE  fd \in DOMAIN conn_map /\ Service!DoTcpReadEnd(fd)
<1>1. fd \in DOMAIN conn_map /\ Drops(fd) /\ accepted' = accepted
  BY GoneIs DEF Gone, Release, Drops
<1>2. Service!ReleaseConn(fd) /\ fd \in DOMAIN Connected
  BY <1>1, ConnectedDrops, ConnectedIs
<1>3. PICK c, k : c = conn_map[fd] /\ k = Connected[fd]
  OBVIOUS
<1>4. k.player_idx = c.player_idx /\ k.conn = c.conn
  BY <1>1, <1>3, ConnectedIs
<1>5. c2g' = IF c.player_idx = 0 THEN c2g
             ELSE Push(c2g, <<ToGame("STOP", 0, c.player_idx, 0, c.conn)>>)
  BY <1>3 DEF RecvEnd
<1>6. c2g' = IF k.player_idx = 0 THEN c2g
             ELSE Service!Push(c2g, <<Service!ToGame("STOP", Service!NoFd, k.player_idx, 0, k.conn)>>)
  BY <1>4, <1>5, SameNames
<1>7. UNCHANGED <<accepted, delivered, g2c, g2d, d2g, asked, answered>>
  BY DEF RecvEnd
<1>8. Service!MayClose(fd)
  BY DEF Service!MayClose
<1> QED
  BY <1>1, <1>2, <1>3, <1>6, <1>7, <1>8 DEF Service!DoTcpReadEnd

\* A frame is one that a client of ConnSvr may send.
LEMMA FrameIsRead ==
    ASSUME TypeInv, InInv, AskedInv, {"pipeline", "again", "shared"} \subseteq Faults,
           NEW body, ForwardFrame(body), NEW fd, fd = Fd
    PROVE  fd \in DOMAIN conn_map /\ Service!DoTcpRead(fd, body)
<1>1. Len(asked) < MaxRequests
  BY FrameAsked
<1>2. /\ fd \in DOMAIN conn_map /\ accepted' = accepted
      /\ Drops(fd) \/ \E c : /\ Turns(fd, c, sockets[fd])
                             /\ c.player_idx = conn_map[fd].player_idx
  BY ForwardFrameIs DEF Release, Drops, ForwardFrame
<1>3. PICK c, k : c = conn_map[fd] /\ k = Connected[fd]
  OBVIOUS
<1>4. k.player_idx = c.player_idx /\ k.conn = c.conn /\ fd \in DOMAIN Connected
  BY <1>2, <1>3, ConnectedIs
<1>5. Service!MaySend(k.conn, body)
  BY DEF Service!MaySend
<1>6. PICK cmd : cmd = IF c.player_idx = 0 THEN "START" ELSE "PROC"
  OBVIOUS
<1>7. /\ asked' = Append(asked, [conn |-> c.conn, body |-> body])
      /\ answered' = Append(answered, 0)
      /\ UNCHANGED <<accepted, delivered, g2c, g2d, d2g>>
  BY <1>3 DEF ForwardFrame
<1>8. /\ Len(c2g) < Hwm => c2g' = Append(c2g, ToGame(cmd, fd, c.player_idx, Len(asked) + 1, c.conn))
      /\ ~(Len(c2g) < Hwm) => c2g' = c2g /\ Release(fd, Arg)
      /\ Len(c2g) < Hwm => DOMAIN conn_map' = DOMAIN conn_map
  BY <1>3, <1>6 DEF ForwardFrame
<1>9. CASE Len(c2g) < Hwm
  <2>1. ~Drops(fd)
    BY <1>2, <1>8, <1>9, Dropped DEF TypeInv
  <2>2. Connected' = Connected
    BY <1>2, <2>1, ConnectedTurns
  <2>3. c2g' = Append(c2g, Service!ToGame(cmd, fd, k.player_idx, Len(asked) + 1, k.conn))
    BY <1>4, <1>8, <1>9, SameNames
  <2> QED
    BY <1>1, <1>2, <1>3, <1>4, <1>5, <1>6, <1>7, <1>9, <2>2, <2>3 DEF Service!DoTcpRead
<1>10. CASE ~(Len(c2g) < Hwm)
  <2>1. Service!ReleaseConn(fd)
    BY <1>2, <1>8, <1>10, ConnectedDrops DEF Release, Drops
  <2> QED
    BY <1>1, <1>2, <1>3, <1>4, <1>5, <1>7, <1>8, <1>10, <2>1 DEF Service!DoTcpRead
<1> QED
  BY <1>2, <1>9, <1>10

LEMMA ReplyIsRead ==
    ASSUME TypeInv, Replies
    PROVE  Service!ZmqRead
<1>1. PICK fd, m : fd = To /\ m = Head(g2c)
  OBVIOUS
<1>2. /\ Taken /\ fd \in DOMAIN conn_map
      /\ \/ Message.cmd = "STOP" /\ Drops(fd)
         \/ /\ Message.cmd # "STOP"
            /\ \E c, s :
                  /\ Turns(fd, c, s)
                  /\ c.player_idx =
                        IF Message.cmd = "START" \/ conn_map[fd].player_idx = 0
                        THEN Message.player_idx ELSE conn_map[fd].player_idx
  BY <1>1, RepliesIs DEF Answered
<1>3. PICK k : k = Connected[fd]
  OBVIOUS
<1>4. /\ k.player_idx = conn_map[fd].player_idx /\ k.conn = conn_map[fd].conn
      /\ fd \in DOMAIN Connected
  BY <1>2, <1>3, ConnectedIs
<1>5. fd = m.conn_fd /\ m = Message
  BY <1>1 DEF To, Message
<1>6. /\ delivered' = IF m.seq = 0 THEN delivered ELSE delivered \cup {<<k.conn, m.seq>>}
      /\ g2c # <<>> /\ g2c' = Tail(g2c)
      /\ UNCHANGED <<accepted, c2g, g2d, d2g, asked, answered>>
  BY <1>1, <1>2, <1>4, <1>5 DEF Taken
<1>7. CASE Message.cmd = "STOP" /\ Drops(fd)
  <2>1. Service!ReleaseConn(fd)
    BY <1>6, <1>7, ConnectedDrops
  <2> QED
    BY <1>1, <1>3, <1>4, <1>5, <1>6, <1>7, <2>1 DEF Service!ZmqRead
<1>8. ASSUME NEW c, NEW s, Message.cmd # "STOP", Turns(fd, c, s),
             c.player_idx = IF Message.cmd = "START" \/ conn_map[fd].player_idx = 0
                            THEN Message.player_idx ELSE conn_map[fd].player_idx
      PROVE  Service!ZmqRead
  <2>1. Connected' = IF m.cmd = "START" \/ k.player_idx = 0
                     THEN [Connected EXCEPT ![fd].player_idx = m.player_idx] ELSE Connected
    BY <1>4, <1>5, <1>6, <1>8, ConnectedTurns
  <2> QED
    BY <1>1, <1>3, <1>4, <1>5, <1>6, <1>8, <2>1 DEF Service!ZmqRead
<1> QED
  BY <1>2, <1>7, <1>8

\* Of what is in the queue, gamesvr takes the first or adds to the last.
LEMMA GameIsEnvironment ==
    ASSUME TypeInv, GameTakes \/ \E cmd \in {"START", "PROC", "STOP"}, fd \in Fds : GameSends(cmd, fd)
    PROVE  Service!ConnEnvironment
<1>1. UNCHANGED <<conn_map, accepted, delivered, g2d, d2g, asked, answered>>
  BY DEF GameTakes, GameSends, io
<1>2. UNCHANGED <<Service!connsvr, g2d, d2g, asked, answered>>
  BY <1>1 DEF Service!connsvr, Connected
<1>3. CASE GameTakes
  BY <1>2, <1>3 DEF GameTakes, Service!ConnEnvironment
<1>4. CASE \E cmd \in {"START", "PROC", "STOP"}, fd \in Fds : GameSends(cmd, fd)
  <2>1. PICK m : g2c' = Append(g2c, m) /\ UNCHANGED c2g
    BY <1>4 DEF GameSends
  <2>2. g2c = SubSeq(g2c', 1, Len(g2c))
    BY <2>1 DEF TypeInv, NumbersOK
  <2> QED
    BY <1>2, <2>1, <2>2 DEF Service!ConnEnvironment
<1> QED
  BY <1>3, <1>4

\* What clients do without any limits but their number of frames.
Unruly == {"pipeline", "again", "shared", "hangup", "reset"} \subseteq Faults

LEMMA ServiceStep ==
    ASSUME Unruly, TypeInv, InInv, AskedInv, [Next]_vars
    PROVE  [Service!ConnNext \/ Service!ConnEnvironment]_<<Service!links, Service!connsvr>>
<1>same. ASSUME UNCHANGED <<links, Connected, accepted, delivered>>
         PROVE  UNCHANGED <<Service!links, Service!connsvr>>
  BY <1>same, SameNames DEF Service!connsvr
<1>turns. ASSUME NEW fd, NEW c, NEW s, Turns(fd, c, s),
                 c.player_idx = conn_map[fd].player_idx,
                 UNCHANGED <<links, accepted, delivered>>
          PROVE  UNCHANGED <<Service!links, Service!connsvr>>
  BY <1>same, <1>turns, ConnectedTurns
<1>fails. ASSUME NEW fd \in DOMAIN conn_map, Drops(fd), UNCHANGED <<links, accepted, delivered>>
          PROVE  Service!ConnNext
  <2>1. fd \in Service!Fds
    BY ConnOf, SameNames
  <2> QED
    BY <1>fails, <2>1, FailIsFail DEF Service!ConnNext, Unruly
<1>1. ASSUME NEW fd \in Fds, DoTcpAccept(fd) PROVE Service!ConnNext
  BY <1>1, ConnectedJoins, SameNames DEF Service!ConnNext
<1>2. CASE RecvEnd
  <2>1. PICK fd : fd = Fd
    OBVIOUS
  <2>2. fd \in Fds /\ Service!DoTcpReadEnd(fd)
    BY <1>2, <2>1, EndIsEnd, ConnOf DEF Unruly
  <2> QED
    BY <2>2, SameNames DEF Service!ConnNext
<1>3. CASE RecvFails \/ WriteFails \/ \E n \in 1..PkgBufSize : RecvData(n) /\ Release(Fd, Arg)
  <2>1. PICK fd : fd = Fd
    OBVIOUS
  <2>2. fd \in DOMAIN conn_map /\ Drops(fd) /\ accepted' = accepted
    BY <1>3, <2>1, GoneIs DEF Gone, Release, Drops
  <2>3. UNCHANGED <<links, delivered>>
    BY <1>3 DEF RecvFails, WriteFails, RecvData
  <2> QED
    BY <1>fails, <2>2, <2>3
<1>4. ASSUME NEW n \in 1..PkgBufSize, RecvData(n), ~Release(Fd, Arg)
      PROVE  UNCHANGED <<Service!links, Service!connsvr>>
  <2>1. PICK fd : fd = Fd
    OBVIOUS
  <2>2. PICK c, s : Turns(fd, c, s) /\ c.player_idx = conn_map[fd].player_idx
    BY <1>4, <2>1, RecvDataIs
  <2>3. UNCHANGED <<links, accepted, delivered>>
    BY <1>4 DEF RecvData
  <2> QED
    BY <1>turns, <2>2, <2>3
<1>5. ASSUME NEW body \in Bodies, ForwardFrame(body) PROVE Service!ConnNext
  <2>1. PICK fd : fd = Fd
    OBVIOUS
  <2>2. fd \in Fds /\ Service!DoTcpRead(fd, body)
    BY <1>5, <2>1, FrameIsRead, ConnOf DEF Unruly
  <2> QED
    BY <2>2, SameNames DEF Service!ConnNext
<1>6. CASE WriteSends
  <2>1. PICK fd : fd = Fd
    OBVIOUS
  <2>2. PICK c, s : Turns(fd, c, s) /\ c.player_idx = conn_map[fd].player_idx
    BY <1>6, <2>1, WriteSendsIs
  <2>3. UNCHANGED <<links, accepted, delivered>>
    BY <1>6 DEF WriteSends
  <2> QED
    BY <1>turns, <2>2, <2>3
<1>7. CASE ZmqReadSendFail
  <2>1. PICK fd : fd = To
    OBVIOUS
  <2>2. /\ g2c # <<>> /\ g2c' = Tail(g2c) /\ fd \in DOMAIN conn_map /\ Drops(fd)
        /\ UNCHANGED <<accepted, delivered, c2g, g2d, d2g, asked, answered>>
    BY <1>7, <2>1 DEF ZmqReadSendFail, Release, Drops
  <2>3. Service!ReleaseConn(fd) /\ fd \in DOMAIN Connected
    BY <2>2, ConnectedDrops, ConnectedIs
  <2> QED
    BY <2>1, <2>2, <2>3
       DEF Service!ConnNext, Service!ZmqReadSendFail, To, Message, Unruly
<1>8. CASE ZmqReadNoConn
  <2>1. UNCHANGED Connected /\ DOMAIN Connected = DOMAIN conn_map
    BY <1>8 DEF ZmqReadNoConn, io, Connected
  <2>2. UNCHANGED <<Service!connsvr, c2g, g2d, d2g, asked, answered>>
    BY <1>8, <2>1 DEF ZmqReadNoConn, io, Service!connsvr
  <2> QED
    BY <1>8, <2>1, <2>2
       DEF ZmqReadNoConn, Service!ConnNext, Service!ZmqReadNoConn, To, Message
<1>9. CASE Replies
  BY <1>9, ReplyIsRead DEF Service!ConnNext
<1>10. CASE GameTakes \/ \E cmd \in {"START", "PROC", "STOP"}, fd \in Fds : GameSends(cmd, fd)
  BY <1>10, GameIsEnvironment
<1>11. ASSUME \/ \E fd \in Fds : \/ EpollWait(fd) \/ ClientSends(fd) \/ ClientReads(fd)
                                 \/ \E end \in {"fin", "reset"} : ClientEnds(fd, end)
              \/ NoFrame \/ NoWriteProc \/ WriteNoConn \/ UNCHANGED vars
       PROVE  UNCHANGED <<Service!links, Service!connsvr>>
  <2>1. UNCHANGED <<links, conn_map, accepted, delivered>>
    BY <1>11 DEF EpollWait, ClientSends, ClientReads, ClientEnds, NoFrame, NoWriteProc,
                 WriteNoConn, vars, io
  <2> QED
    BY <1>same, <2>1 DEF Connected
<1> QED
  BY <1>1, <1>2, <1>3, <1>4, <1>5, <1>6, <1>7, <1>8, <1>9, <1>10, <1>11, Steps DEF Gone

\* Under the byte streams, with frames in pieces, handlers in rounds and buffers
\* that overflow, connsvr is what ConnSvr says it is, on which the proofs about
\* PlayFrame and LuaFrame rest; the clients may do what ConnSvr's unruly ones may.
THEOREM ConnSvrImplemented ==
    ASSUME Unruly PROVE Spec => ImplementsConnSvr
<1>1. Init => Service!LinksInit /\ Service!ConnInit
  <2> SUFFICES ASSUME Init PROVE Service!LinksInit /\ Service!ConnInit
    OBVIOUS
  <2>1. Connected = [fd \in {} |-> 0]
    BY DEF Init, Connected
  <2> QED
    BY <2>1 DEF Init, LinksInit, Service!LinksInit, Service!ConnInit
<1>2. TypeInv /\ InInv /\ AskedInv /\ [Next]_vars
        => [Service!ConnNext \/ Service!ConnEnvironment]_<<Service!links, Service!connsvr>>
  BY ServiceStep
<1> QED
  BY <1>1, <1>2, TypesBegin, TypesStep, InBegin, InStep, AskedBegin, AskedStep, PTL
     DEF Spec, ImplementsConnSvr, Service!ConnSpec

=============================================================================
