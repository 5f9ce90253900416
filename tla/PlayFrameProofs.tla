--------------------------- MODULE PlayFrameProofs ---------------------------
(***************************************************************************)
(* Proofs about the three servers together, for pools and queues of every   *)
(* size, every set of requests and every set of faults; and, in the second *)
(* half, for clients like tcpclient and pools that have room for them.     *)
(***************************************************************************)
EXTENDS PlayFrame, SessionProofs

-----------------------------------------------------------------------------
(* CityOwnership *)

LEMMA CityLogin == CityOwnership /\ ResumeLoginOk => CityOwnership'
<1> SUFFICES ASSUME CityOwnership, ResumeLoginOk PROVE CityOwnership'
  OBVIOUS
<1> DEFINE l == logics[Resumed]
           own == players[ItsPlayer]
<1>1. PICK new \in SUBSET (CityUnits \ cities) :
          /\ cities' = cities \cup new
          /\ players' = [players EXCEPT ![ItsPlayer] = LoggedIn(own, l, new)]
  BY DEF ResumeLoginOk
<1>2. ItsPlayer \in DOMAIN players
  BY DEF ResumeLoginOk
<1>3. /\ DOMAIN players' = DOMAIN players
      /\ \A i \in DOMAIN players \ {ItsPlayer} : players'[i] = players[i]
      /\ players'[ItsPlayer] = LoggedIn(own, l, new)
  BY <1>1, <1>2
<1>4. players'[ItsPlayer].city_list = players[ItsPlayer].city_list \cup new
  BY <1>3 DEF LoggedIn
<1>5. cities' = cities \cup new /\ new \cap cities = {}
  BY <1>1
<1> HIDE DEF own, l
<1> QED
  BY <1>2, <1>3, <1>4, <1>5, CityAdd

LEMMA CityStep == CityOwnership /\ [Next]_vars => CityOwnership'
<1> SUFFICES ASSUME CityOwnership, [Next]_vars PROVE CityOwnership'
  OBVIOUS
<1>1. CASE UNCHANGED vars \/ UNCHANGED gamesvr
  BY <1>1, CityUnchanged DEF vars, gamesvr
<1>2. CASE ConnStart
  BY <1>2, CityNewPlayer DEF ConnStart
<1>3. CASE ConnStop
  <2>1. CASE Head(c2g).player_idx \in DOMAIN players
    BY <1>3, <2>1, CityDelPlayer DEF ConnStop
  <2>2. CASE Head(c2g).player_idx \notin DOMAIN players
    BY <1>3, <2>2, CityUnchanged DEF ConnStop
  <2> QED
    BY <2>1, <2>2
<1>4. CASE ResumeLoginOk
  BY <1>4, CityLogin
<1>5. CASE RestartWiped
  BY <1>5 DEF RestartWiped, CityOwnership
<1>6. CASE \/ ConnStartFull \/ ResumeLoginNoCity \/ ResumeLoginNoPlayer \/ Kill
  BY <1>6, CityUnchanged DEF ConnStartFull, ResumeLoginNoCity,
       ResumeLoginNoPlayer, Kill, Die
<1>7. CASE \/ ConnProc \/ ResumeFinish \/ ResumeAnswer \/ ResumeLoginSaved
           \/ Restart
  BY <1>7, CityUnchanged DEF ConnProc, ResumeFinish, ResumeAnswer,
       ResumeLoginSaved, Restart
<1>8. CASE ResumeNoLogic \/ \E l \in 1..logic_count : OnTimer(l)
  BY <1>8, CityUnchanged DEF ResumeNoLogic, OnTimer, gamesvr
<1> QED
  BY <1>1, <1>2, <1>3, <1>4, <1>5, <1>6, <1>7, <1>8 DEF Next, GameNext

\* Every city in use is one player's: AddCity, DelPlayer and restarts neither
\* share a city nor lose one, whatever is lost, late or killed.
THEOREM CitiesOwned == Spec => []CityOwnership
<1>1. Init => CityOwnership
  BY DEF Init, GameInit, ObjectsInit, CityOwnership
<1> QED
  BY <1>1, CityStep, PTL DEF Spec

-----------------------------------------------------------------------------
(* StopIsLast *)

\* The connections that are open are numbered apart, and all of those that c2g
\* speaks of have been accepted; on these terms a connection that has sent its
\* STOP can never get another message into the queue.
ConnsApart ==
    /\ accepted \in Nat
    /\ \A fd \in DOMAIN conn_map : conn_map[fd].conn \in 1..accepted
    /\ \A f, g \in DOMAIN conn_map : conn_map[f].conn = conn_map[g].conn => f = g
    /\ IsSeq(c2g) /\ Len(c2g) <= Hwm
    /\ \A i \in DOMAIN c2g : c2g[i].conn \in 1..accepted
StopInv == ConnsApart /\ StopIsLast

\* gamesvr receives, or loses, messages from the front; or nothing happens.
LEMMA StopShrinks ==
    ASSUME StopInv, NEW n \in 0..Len(c2g), c2g' = SubSeq(c2g, n + 1, Len(c2g)),
           UNCHANGED <<conn_map, accepted>>
    PROVE  StopInv'
<1>1. PICK S : c2g \in Seq(S)
  BY DEF StopInv, ConnsApart, IsSeq
<1>2. Len(c2g) \in Nat /\ DOMAIN c2g = 1..Len(c2g) /\ Hwm \in Nat
  BY <1>1, LinksAssumption
<1>3. /\ c2g' \in Seq(S) /\ Len(c2g') = Len(c2g) - n
      /\ DOMAIN c2g' = 1..Len(c2g) - n
      /\ \A i \in 1..Len(c2g) - n : c2g'[i] = c2g[i + n]
  BY <1>1, Suffix
<1>4. \A i \in 1..Len(c2g) - n : i + n \in DOMAIN c2g
  BY <1>2
<1>5. ConnsApart'
  <2>1. IsSeq(c2g)'
    BY <1>3 DEF IsSeq
  <2>2. Len(c2g') <= Hwm
    <3>1. Len(c2g) <= Hwm
      BY DEF StopInv, ConnsApart
    <3>2. Len(c2g') = Len(c2g) - n
      BY <1>3
    <3>3. \A l, h \in Nat : l <= h => l - n <= h
      OBVIOUS
    <3>4. Len(c2g) - n <= Hwm
      BY <1>2, <3>1, <3>3
    <3> QED
      BY <3>2, <3>4, Zenon
  <2> QED
    BY <1>3, <1>4, <2>1, <2>2 DEF StopInv, ConnsApart
<1>6. StopIsLast'
  <2> SUFFICES ASSUME NEW i \in 1..Len(c2g) - n, c2g'[i].cmd = "STOP"
               PROVE  /\ \A j \in i + 1..Len(c2g') : c2g'[j].conn # c2g'[i].conn
                      /\ \A fd \in DOMAIN conn_map : conn_map[fd].conn # c2g'[i].conn
    BY <1>3 DEF StopIsLast
  <2>1. /\ c2g[i + n].cmd = "STOP" /\ i + n \in DOMAIN c2g
        /\ c2g'[i].conn = c2g[i + n].conn
    BY <1>3, <1>4
  <2>2. /\ \A j \in i + n + 1..Len(c2g) : c2g[j].conn # c2g[i + n].conn
        /\ \A fd \in DOMAIN conn_map : conn_map[fd].conn # c2g[i + n].conn
    BY <2>1 DEF StopInv, StopIsLast
  <2>3. ASSUME NEW j \in i + 1..Len(c2g') PROVE c2g'[j].conn # c2g'[i].conn
    <3>1. j \in i + 1..Len(c2g) - n
      BY <1>3
    <3>2. j \in 1..Len(c2g) - n /\ j + n \in i + n + 1..Len(c2g)
      BY <1>2, <3>1
    <3> QED
      BY <1>3, <2>1, <2>2, <3>2
  <2> QED
    BY <2>1, <2>2, <2>3
<1> QED
  BY <1>5, <1>6 DEF StopInv

\* Connections are forgotten, or what is kept of them but their number changes.
LEMMA StopConns ==
    ASSUME StopInv, UNCHANGED <<c2g, accepted>>,
           DOMAIN conn_map' \subseteq DOMAIN conn_map,
           \A fd \in DOMAIN conn_map' : conn_map'[fd].conn = conn_map[fd].conn
    PROVE  StopInv'
<1>1. ConnsApart'
  BY DEF StopInv, ConnsApart, IsSeq
<1>2. StopIsLast'
  BY DEF StopInv, StopIsLast
<1> QED
  BY <1>1, <1>2 DEF StopInv

\* A message of an open connection, which stays open unless it is a STOP.
LEMMA StopAppends ==
    ASSUME StopInv, NEW fd \in DOMAIN conn_map, NEW m, m.conn = conn_map[fd].conn,
           Len(c2g) < Hwm, c2g' = Append(c2g, m), UNCHANGED accepted,
           DOMAIN conn_map' \subseteq DOMAIN conn_map,
           \A f \in DOMAIN conn_map' : conn_map'[f] = conn_map[f],
           m.cmd = "STOP" => fd \notin DOMAIN conn_map'
    PROVE  StopInv'
<1>1. PICK S : c2g \in Seq(S)
  BY DEF StopInv, ConnsApart, IsSeq
<1> DEFINE T == S \cup {m}
           n == Len(c2g)
<1>2. c2g \in Seq(T) /\ n \in Nat /\ DOMAIN c2g = 1..n /\ Hwm \in Nat
  BY <1>1, LinksAssumption
<1>3. /\ c2g' \in Seq(T) /\ Len(c2g') = n + 1 /\ DOMAIN c2g' = 1..n + 1
      /\ \A i \in 1..n : c2g'[i] = c2g[i]
      /\ c2g'[n + 1] = m
  BY <1>2
<1>4. n < Hwm
  OBVIOUS
<1> HIDE DEF T, n
<1>5. ConnsApart'
  <2>1. IsSeq(c2g)' /\ Len(c2g') <= Hwm
    BY <1>2, <1>3, <1>4 DEF IsSeq
  <2>2. \A i \in DOMAIN c2g' : c2g'[i].conn \in 1..accepted
    BY <1>2, <1>3 DEF StopInv, ConnsApart
  <2>3. /\ accepted' \in Nat
        /\ \A f \in DOMAIN conn_map' : conn_map'[f].conn \in 1..accepted'
        /\ \A f, g \in DOMAIN conn_map' : conn_map'[f].conn = conn_map'[g].conn => f = g
    BY DEF StopInv, ConnsApart
  <2> QED
    BY <2>1, <2>2, <2>3 DEF ConnsApart
<1>6. StopIsLast'
  <2> SUFFICES ASSUME NEW i \in 1..n + 1, c2g'[i].cmd = "STOP"
               PROVE  /\ \A j \in i + 1..n + 1 : c2g'[j].conn # c2g'[i].conn
                      /\ \A f \in DOMAIN conn_map' : conn_map'[f].conn # c2g'[i].conn
    BY <1>3 DEF StopIsLast
  <2>1. CASE i \in 1..n
    <3>1. /\ c2g[i].cmd = "STOP" /\ c2g'[i] = c2g[i]
          /\ \A j \in i + 1..n : c2g[j].conn # c2g[i].conn
          /\ \A f \in DOMAIN conn_map : conn_map[f].conn # c2g[i].conn
      BY <1>2, <1>3, <2>1 DEF StopInv, StopIsLast, n
    <3>2. ASSUME NEW j \in i + 1..n + 1 PROVE c2g'[j].conn # c2g'[i].conn
      <4>1. CASE j \in 1..n
        BY <1>2, <1>3, <3>1, <4>1
      <4>2. CASE j = n + 1
        BY <1>3, <3>1, <4>2
      <4>3. n \in Nat
        BY <1>2
      <4>4. j \in 1..n \/ j = n + 1
        BY <2>1, <4>3
      <4> QED
        BY <4>1, <4>2, <4>4
    <3> QED
      BY <3>1, <3>2
  <2>2. CASE i = n + 1
    <3>1. m.cmd = "STOP" /\ c2g'[i] = m
      BY <1>3, <2>2
    <3>2. \A f \in DOMAIN conn_map' : conn_map'[f].conn # m.conn
      BY <3>1 DEF StopInv, ConnsApart
    <3> QED
      BY <1>2, <2>2, <3>1, <3>2
  <2> QED
    BY <1>2, <2>1, <2>2
<1> QED
  BY <1>5, <1>6 DEF StopInv

\* accept(): a number that no connection and no message has had.
LEMMA StopAccept == ASSUME StopInv, NEW fd \in Fds, DoTcpAccept(fd) PROVE StopInv'
<1>1. /\ fd \notin DOMAIN conn_map
      /\ accepted' = accepted + 1 /\ c2g' = c2g
      /\ DOMAIN conn_map' = DOMAIN conn_map \cup {fd}
      /\ conn_map'[fd].conn = accepted + 1
      /\ \A f \in DOMAIN conn_map : conn_map'[f] = conn_map[f]
  BY DEF DoTcpAccept, links
<1>2. /\ accepted \in Nat
      /\ \A f \in DOMAIN conn_map : conn_map[f].conn \in 1..accepted
      /\ \A i \in DOMAIN c2g : c2g[i].conn \in 1..accepted
  BY DEF StopInv, ConnsApart
<1>3. \A f \in DOMAIN conn_map : conn_map'[f].conn \in 1..accepted
  BY <1>1, <1>2
<1>4. ConnsApart'
  <2>1. /\ accepted' \in Nat
        /\ \A f \in DOMAIN conn_map' : conn_map'[f].conn \in 1..accepted'
        /\ \A i \in DOMAIN c2g' : c2g'[i].conn \in 1..accepted'
    BY <1>1, <1>2, <1>3
  <2>2. ASSUME NEW f \in DOMAIN conn_map', NEW g \in DOMAIN conn_map',
               conn_map'[f].conn = conn_map'[g].conn
        PROVE  f = g
    <3>1. \A h \in DOMAIN conn_map : conn_map'[h].conn # conn_map'[fd].conn
      BY <1>1, <1>2, <1>3
    <3> QED
      BY <1>1, <2>2, <3>1 DEF StopInv, ConnsApart
  <2> QED
    BY <1>1, <2>1, <2>2 DEF StopInv, ConnsApart, IsSeq
<1>5. StopIsLast'
  <2>1. \A i \in DOMAIN c2g : conn_map'[fd].conn # c2g[i].conn
    BY <1>1, <1>2
  <2> QED
    BY <1>1, <2>1 DEF StopInv, StopIsLast
<1> QED
  BY <1>4, <1>5 DEF StopInv

\* A connection is forgotten, and gamesvr is not told.
LEMMA StopRelease ==
    ASSUME StopInv, NEW fd, ReleaseConn(fd), UNCHANGED <<c2g, accepted>>
    PROVE  StopInv'
<1>1. /\ DOMAIN conn_map' \subseteq DOMAIN conn_map
      /\ \A f \in DOMAIN conn_map' : conn_map'[f].conn = conn_map[f].conn
  BY DEF ReleaseConn
<1> QED
  BY <1>1, StopConns

\* A request goes out with the number of its connection; one that does not is
\* the end of the connection.
LEMMA StopRead ==
    ASSUME StopInv, NEW fd \in Fds, NEW body \in Bodies, DoTcpRead(fd, body)
    PROVE  StopInv'
<1> DEFINE c == conn_map[fd]
           cmd == IF c.player_idx = 0 THEN "START" ELSE "PROC"
           m == ToGame(cmd, fd, c.player_idx, Len(asked) + 1, c.conn)
<1>1. /\ fd \in DOMAIN conn_map /\ accepted' = accepted
      /\ IF Len(c2g) < Hwm THEN c2g' = Append(c2g, m) /\ UNCHANGED conn_map
                           ELSE ReleaseConn(fd) /\ UNCHANGED c2g
  BY DEF DoTcpRead
<1>2. m.conn = conn_map[fd].conn /\ m.cmd # "STOP"
  BY DEF ToGame
<1> HIDE DEF m
<1>3. CASE Len(c2g) < Hwm
  BY <1>1, <1>2, <1>3, StopAppends
<1>4. CASE ~(Len(c2g) < Hwm)
  BY <1>1, <1>4, StopRelease
<1> QED
  BY <1>3, <1>4

\* The end of a connection, with the STOP or without.
LEMMA StopReadEnd == ASSUME StopInv, NEW fd \in Fds, DoTcpReadEnd(fd) PROVE StopInv'
<1> DEFINE c == conn_map[fd]
           m == ToGame("STOP", NoFd, c.player_idx, 0, c.conn)
<1>1. /\ fd \in DOMAIN conn_map /\ accepted' = accepted
      /\ ReleaseConn(fd)
      /\ c2g' = c2g \/ c2g' = Push(c2g, <<m>>)
  BY DEF DoTcpReadEnd
<1>2. m.conn = conn_map[fd].conn
  BY DEF ToGame
<1>3. c2g' = c2g \/ (Len(c2g) < Hwm /\ c2g' = Append(c2g, m))
  BY <1>1, PushOne DEF StopInv, ConnsApart
<1>4. /\ DOMAIN conn_map' \subseteq DOMAIN conn_map /\ fd \notin DOMAIN conn_map'
      /\ \A f \in DOMAIN conn_map' : conn_map'[f] = conn_map[f]
  BY <1>1 DEF ReleaseConn
<1> HIDE DEF m
<1>5. CASE c2g' = c2g
  BY <1>1, <1>5, StopRelease
<1>6. CASE Len(c2g) < Hwm /\ c2g' = Append(c2g, m)
  BY <1>1, <1>2, <1>4, <1>6, StopAppends
<1> QED
  BY <1>3, <1>5, <1>6

\* A message for a client; it may name the player, or close the connection.
LEMMA StopZmqRead == ASSUME StopInv, ZmqRead PROVE StopInv'
<1> DEFINE fd == Head(g2c).conn_fd
           idx == Head(g2c).player_idx
<1>1. /\ fd \in DOMAIN conn_map
      /\ UNCHANGED <<c2g, accepted>>
      /\ \/ ReleaseConn(fd)
         \/ conn_map' = [conn_map EXCEPT ![fd].player_idx = idx]
         \/ conn_map' = conn_map
  BY DEF ZmqRead
<1>2. CASE ReleaseConn(fd)
  BY <1>1, <1>2, StopRelease
<1>3. CASE conn_map' = [conn_map EXCEPT ![fd].player_idx = idx]
  <2>1. /\ DOMAIN conn_map' = DOMAIN conn_map
        /\ \A f \in DOMAIN conn_map : conn_map'[f].conn = conn_map[f].conn
    BY <1>1, <1>3
  <2> QED
    BY <1>1, <2>1, StopConns
<1>4. CASE conn_map' = conn_map
  BY <1>1, <1>4, StopConns
<1> QED
  BY <1>1, <1>2, <1>3, <1>4

LEMMA StopConnNext == ASSUME StopInv, ConnNext PROVE StopInv'
<1>1. CASE \E fd \in Fds : DoTcpAccept(fd)
  BY <1>1, StopAccept
<1>2. CASE \E fd \in Fds, body \in Bodies : DoTcpRead(fd, body)
  BY <1>2, StopRead
<1>3. CASE \E fd \in Fds : DoTcpReadEnd(fd)
  BY <1>3, StopReadEnd
<1>4. CASE \E fd \in Fds : DoTcpReadFail(fd)
  BY <1>4, StopRelease DEF DoTcpReadFail, links
<1>5. CASE ZmqRead
  BY <1>5, StopZmqRead
<1>6. CASE ZmqReadSendFail
  BY <1>6, StopRelease DEF ZmqReadSendFail
<1>7. CASE ZmqReadNoConn
  BY <1>7, StopConns DEF ZmqReadNoConn, connsvr
<1> QED
  BY <1>1, <1>2, <1>3, <1>4, <1>5, <1>6, <1>7 DEF ConnNext

\* gamesvr never writes to c2g: it takes the first message, or all but the
\* last ones when it starts.
LEMMA StopGameNext == ASSUME StopInv, GameNext, UNCHANGED connsvr PROVE StopInv'
<1>1. IsSeq(c2g)
  BY DEF StopInv, ConnsApart
<1>2. PICK S : c2g \in Seq(S)
  BY <1>1 DEF IsSeq
<1>3. UNCHANGED <<conn_map, accepted>>
  BY DEF connsvr
<1>4. CASE c2g # <<>> /\ c2g' = Tail(c2g)
  <2>1. 1 \in 0..Len(c2g) /\ Tail(c2g) = SubSeq(c2g, 1 + 1, Len(c2g))
    BY <1>2, <1>4
  <2> QED
    BY <1>3, <1>4, <2>1, StopShrinks
<1>5. CASE c2g' \in Rest(c2g)
  <2>1. PICK n \in 0..Len(c2g) : c2g' = SubSeq(c2g, n + 1, Len(c2g))
    BY <1>5 DEF Rest
  <2> QED
    BY <1>3, <2>1, StopShrinks
<1>6. CASE c2g' = c2g
  BY <1>3, <1>6, StopConns
<1>7. ConnStart \/ ConnStartFull \/ ConnProc \/ ConnStop
        => c2g # <<>> /\ c2g' = Tail(c2g)
  BY DEF ConnStart, ConnStartFull, ConnProc, ConnStop, FromConnsvr
<1>8. ResumeNoLogic \/ ResumeFinish \/ ResumeAnswer \/ ResumeLoginSaved
        => c2g' = c2g
  BY DEF ResumeNoLogic, ResumeFinish, ResumeAnswer, ResumeLoginSaved
<1>9. ResumeLoginOk \/ ResumeLoginNoCity \/ ResumeLoginNoPlayer => c2g' = c2g
  BY DEF ResumeLoginOk, ResumeLoginNoCity, ResumeLoginNoPlayer
<1>10. Kill \/ (\E l \in 1..logic_count : OnTimer(l)) => c2g' = c2g
  BY DEF Kill, OnTimer, links
<1>11. Restart \/ RestartWiped => c2g' \in Rest(c2g)
  BY DEF Restart, RestartWiped, Start
<1> QED
  BY <1>4, <1>5, <1>6, <1>7, <1>8, <1>9, <1>10, <1>11 DEF GameNext

LEMMA StopStep == StopInv /\ [Next]_vars => StopInv'
<1> SUFFICES ASSUME StopInv, [Next]_vars PROVE StopInv'
  OBVIOUS
<1>1. CASE ConnNext
  BY <1>1, StopConnNext
<1>2. CASE GameNext /\ UNCHANGED connsvr
  BY <1>2, StopGameNext
<1>3. CASE DataNext /\ UNCHANGED connsvr
  <2>1. c2g' = c2g
    <3>1. CASE Take
      BY <3>1 DEF Take
    <3>2. CASE \E j \in jobs : Works(j.request)
      BY <3>2 DEF Works, Reg, Get, Set, Fail, Lose, Answered, links
    <3>3. CASE \E j \in jobs : Reply(j)
      BY <3>3 DEF Reply
    <3> QED
      BY <1>3, <3>1, <3>2, <3>3 DEF DataNext
  <2> QED
    BY <1>3, <2>1, StopConns DEF connsvr
<1>4. CASE UNCHANGED vars
  BY <1>4, StopConns DEF vars, links, connsvr
<1> QED
  BY <1>1, <1>2, <1>3, <1>4 DEF Next

LEMMA StopStart == Init => StopInv
<1> SUFFICES ASSUME Init PROVE StopInv
  OBVIOUS
<1>1. accepted = 0 /\ DOMAIN conn_map = {} /\ c2g = <<>>
  BY DEF Init, ConnInit, LinksInit
<1>2. IsSeq(c2g) /\ Len(c2g) = 0 /\ DOMAIN c2g = {} /\ 0 <= Hwm
  <2>1. c2g \in Seq({})
    BY <1>1
  <2> QED
    BY <1>1, <2>1, LinksAssumption DEF IsSeq
<1> QED
  BY <1>1, <1>2 DEF StopInv, ConnsApart, StopIsLast

\* connsvr sends gamesvr nothing behind the STOP of a connection, whatever
\* queue is full, and however descriptors are used again.
THEOREM StopsAreLast == Spec => []StopIsLast
<1>1. StopInv => StopIsLast
  BY DEF StopInv
<1> QED
  BY StopStart, <1>1, StopStep, PTL DEF Spec

-----------------------------------------------------------------------------
(* What a step of gamesvr is to the messages and to the logics *)

IsLogic(l, n) ==
    /\ l = [type |-> l.type, step |-> l.step, seq |-> l.seq,
            player_idx |-> l.player_idx, uid |-> l.uid, password_hash |-> l.password_hash]
    /\ l.seq \in 0..n /\ l.player_idx \in PlayerUnits
GameInv == /\ GameTypeOK
           /\ logic_count \in Nat
           /\ \A l \in DOMAIN logics : IsLogic(logics[l], Len(asked))
FrameInv == SessionInv /\ ConnTypeOK /\ GameInv /\ DataInv

\* r is the request that logic l, with this id, waits for.
RequestOf(r, id, l) ==
    /\ r.seq = id /\ r.cmd = Expects(l) /\ r.cities \in Nat
    /\ r.cmd = "GET" => r.uid = l.uid /\ r.pw = l.password_hash

\* Logics are given up, or messages lost or taken, and nothing is sent; a request
\* is answered at once; a logic begins, with a request to datasvr; it ends with
\* an answer; it goes on, with another request to datasvr.
Fewer == /\ DOMAIN logics' \subseteq DOMAIN logics
         /\ \A l \in DOMAIN logics' : logics'[l] = logics[l]
Quiet == /\ Shrinks(c2g, c2g') /\ Shrinks(d2g, d2g') /\ Fewer
         /\ UNCHANGED <<g2c, g2d, asked, answered>>
         /\ logic_count' \in {logic_count, NextLogic}
AnswersNow == /\ c2g # <<>> /\ c2g' = Tail(c2g)
              /\ Sends(Head(c2g).seq)
              /\ UNCHANGED <<g2d, d2g, asked, logics>>
              /\ logic_count' = NextLogic
Begins == /\ c2g # <<>> /\ c2g' = Tail(c2g)
          /\ Queue(g2c') /\ \A m \in Msgs(g2c') : AnswerMsg(m, Len(asked))
          /\ \E l, r : /\ IsLogic(l, Len(asked)) /\ l.seq \in {0, Head(c2g).seq}
                       /\ RequestOf(r, NextLogic, l)
                       /\ logics' = With(logics, NextLogic, l)
                       /\ g2d' = Push(g2d, <<r>>)
          /\ UNCHANGED <<d2g, asked, answered>>
          /\ logic_count' = NextLogic
Ends == /\ d2g # <<>> /\ d2g' = Tail(d2g)
        /\ Resumed \in DOMAIN logics
        /\ logics' = Without(logics, {Resumed})
        /\ Sends(logics[Resumed].seq)
        /\ UNCHANGED <<c2g, g2d, asked, logic_count>>
GoesOn == /\ d2g # <<>> /\ d2g' = Tail(d2g)
          /\ Resumed \in DOMAIN logics
          /\ \E l, r : /\ IsLogic(l, Len(asked)) /\ l.seq = logics[Resumed].seq
                       /\ RequestOf(r, Resumed, l)
                       /\ logics' = [logics EXCEPT ![Resumed] = l]
                       /\ g2d' = Push(g2d, <<r>>)
          /\ UNCHANGED <<c2g, g2c, asked, answered, logic_count>>

\* The answer to a request by the player at idx.
LEMMA AnswerTyped ==
    ASSUME NEW player, player.conn_fd \in Nat, NEW idx \in PlayerUnits,
           NEW n, NEW s \in 0..n, NEW type, NEW ret
    PROVE  /\ AnswerMsg(Answer(player, idx, s, type, ret), n)
           /\ Answer(player, idx, s, type, ret).seq = s
<1>1. idx \in Nat
  BY GameObjectsAssumption DEF PlayerUnits
<1> QED
  BY <1>1 DEF Answer, ToConn, AnswerMsg

\* A logic that begins, and its request.
LEMMA YieldBegins ==
    ASSUME NEW type, NEW step, NEW idx \in PlayerUnits, NEW s \in 0..Len(asked),
           NEW body, Yield(type, step, s, idx, body)
    PROVE  \E l : /\ IsLogic(l, Len(asked)) /\ l.seq = s
                  /\ l.type = type /\ l.step = step
                  /\ l.uid = body.uid /\ l.password_hash = body.pw
                  /\ logics' = With(logics, NextLogic, l)
<1> DEFINE l == [type |-> type, step |-> step, seq |-> s, player_idx |-> idx,
                 uid |-> body.uid, password_hash |-> body.pw]
<1>1. logics' = With(logics, NextLogic, l)
  BY DEF Yield
<1>2. /\ l.type = type /\ l.step = step /\ l.seq = s /\ l.player_idx = idx
      /\ l.uid = body.uid /\ l.password_hash = body.pw
  OBVIOUS
<1>3. IsLogic(l, Len(asked))
  BY DEF IsLogic
<1> HIDE DEF l
<1> QED
  BY <1>1, <1>2, <1>3

\* HandleRequest, for players ps of the right types.
LEMMA RequestStep ==
    ASSUME FrameInv, c2g # <<>>, c2g' = Tail(c2g), UNCHANGED <<d2g, asked>>,
           Head(c2g).cmd \in {"START", "PROC"},
           NEW ps, DOMAIN ps \subseteq PlayerUnits,
           \A i \in DOMAIN ps : ps[i].conn_fd \in Nat /\ ps[i].city_list \subseteq CityUnits,
           NEW idx, HandleRequest(Head(c2g), idx, ps)
    PROVE  Quiet \/ AnswersNow \/ Begins
<1> DEFINE m == Head(c2g)
           body == asked[m.seq].body
<1>1. m.seq \in 0..Len(asked)
  BY TailMsgs DEF FrameInv, SessionInv, RequestMsg
<1>2. Shrinks(c2g, c2g') /\ Shrinks(d2g, d2g')
  BY ShrinksWhen DEF FrameInv, SessionInv, DataInv
<1>3. Queue(g2c) /\ \A k \in Msgs(g2c) : AnswerMsg(k, Len(asked))
  BY DEF FrameInv, SessionInv
<1> HIDE DEF m, body
<1>4. CASE Unregistered(body) \/ OnStep0Failed(body, idx, ps)
  BY <1>2, <1>4 DEF Unregistered, OnStep0Failed, Quiet, Fewer
<1>5. ASSUME idx \in DOMAIN ps, OnStep0Rejected(m, body, ps[idx], idx) PROVE AnswersNow
  <2> DEFINE a == Answer(ps[idx], idx, m.seq, body.cmd, -1)
  <2>1. SendAnswers(<<a>>) /\ logic_count' = NextLogic /\ UNCHANGED <<logics, g2d>>
    BY <1>5 DEF OnStep0Rejected
  <2>2. AnswerMsg(a, Len(asked)) /\ a.seq = m.seq
    BY <1>1, <1>5, AnswerTyped
  <2> HIDE DEF a
  <2>3. Sends(m.seq)
    BY <2>1, <2>2, OneAnswer DEF FrameInv
  <2> QED
    BY <2>1, <2>3 DEF AnswersNow, m
<1>6. ASSUME idx \in DOMAIN ps, OnStep0Reg(m, body, idx) PROVE Begins
  <2> DEFINE r == ToData("REG", NextLogic, body.uid, body.pw, 1)
  <2>1. g2d' = Push(g2d, <<r>>) /\ logic_count' = NextLogic /\ UNCHANGED <<g2c, answered>>
    BY <1>6 DEF OnStep0Reg, SendToDatasvr
  <2>2. PICK l : /\ IsLogic(l, Len(asked)) /\ l.seq = m.seq /\ l.type = "REG"
                 /\ logics' = With(logics, NextLogic, l)
    BY <1>1, <1>6, YieldBegins DEF OnStep0Reg
  <2>3. RequestOf(r, NextLogic, l)
    BY <2>2 DEF RequestOf, ToData, Expects
  <2> HIDE DEF r
  <2> QED
    BY <1>3, <2>1, <2>2, <2>3 DEF Begins, m
<1>7. ASSUME idx \in DOMAIN ps, OnStep0Login(m, body, idx) PROVE Begins
  <2> DEFINE r == ToData("GET", NextLogic, body.uid, body.pw, 0)
  <2>1. g2d' = Push(g2d, <<r>>) /\ logic_count' = NextLogic /\ UNCHANGED <<g2c, answered>>
    BY <1>7 DEF OnStep0Login, SendToDatasvr
  <2>2. PICK l : /\ IsLogic(l, Len(asked)) /\ l.seq = m.seq
                 /\ l.type = "LOGIN" /\ l.step = 2
                 /\ l.uid = body.uid /\ l.password_hash = body.pw
                 /\ logics' = With(logics, NextLogic, l)
    BY <1>1, <1>7, YieldBegins DEF OnStep0Login
  <2>3. RequestOf(r, NextLogic, l)
    BY <2>2 DEF RequestOf, ToData, Expects
  <2> HIDE DEF r
  <2> QED
    BY <1>3, <2>1, <2>2, <2>3 DEF Begins, m
<1>8. ASSUME idx \in DOMAIN ps, OnStep0Kick(m, body, idx, ps) PROVE Begins
  <2> DEFINE k == Trunc[body.uid]
             r == SetPlayerData(ps[k], NextLogic)
             n == ToConn("STOP", ps[k].conn_fd, k, 0, 0)
  <2>1. /\ g2d' = Push(g2d, <<r>>) /\ logic_count' = NextLogic
        /\ g2c' = Push(g2c, <<n>>) /\ UNCHANGED answered
        /\ k \in DOMAIN ps
    BY <1>8 DEF OnStep0Kick, SendToDatasvr
  <2>2. PICK l : /\ IsLogic(l, Len(asked)) /\ l.seq = m.seq
                 /\ l.type = "LOGIN" /\ l.step = 1
                 /\ logics' = With(logics, NextLogic, l)
    BY <1>1, <1>8, YieldBegins DEF OnStep0Kick
  <2> HIDE DEF k
  <2>3. r.seq = NextLogic /\ r.cmd = "SET" /\ r.cities \in Nat
    BY <2>1, CitiesCounted DEF SetPlayerData, ToData
  <2>4. RequestOf(r, NextLogic, l)
    BY <2>2, <2>3 DEF RequestOf, Expects
  <2>5. 0 \in 0..Len(asked) /\ k \in Nat /\ ps[k].conn_fd \in Nat
    BY <2>1, GameObjectsAssumption DEF FrameInv, SessionInv, PlayerUnits
  <2>6. AnswerMsg(n, Len(asked))
    BY <2>5 DEF AnswerMsg, ToConn
  <2> HIDE DEF r, n
  <2>7. Queue(g2c') /\ Msgs(g2c') \subseteq Msgs(g2c) \cup {n}
    BY <1>3, <2>1, PushMsgs, OneMsg
  <2>8. \A x \in Msgs(g2c') : AnswerMsg(x, Len(asked))
    BY <1>3, <2>6, <2>7
  <2> QED
    BY <2>1, <2>2, <2>4, <2>7, <2>8 DEF Begins, m
<1> QED
  BY <1>4, <1>5, <1>6, <1>7, <1>8 DEF HandleRequest, m, body

LEMMA ConnsvrStep ==
    ASSUME FrameInv, ConnStart \/ ConnStartFull \/ ConnProc \/ ConnStop
    PROVE  Quiet \/ AnswersNow \/ Begins
<1>1. c2g # <<>> /\ c2g' = Tail(c2g) /\ UNCHANGED <<d2g, asked>>
  BY DEF ConnStart, ConnStartFull, ConnProc, ConnStop, FromConnsvr
<1>2. /\ Head(c2g).conn_fd \in Nat /\ Head(c2g).player_idx \in Nat
  BY <1>1, TailMsgs DEF FrameInv, SessionInv, RequestMsg
<1>3. /\ DOMAIN players \subseteq PlayerUnits
      /\ \A i \in DOMAIN players :
             players[i].conn_fd \in Nat /\ players[i].city_list \subseteq CityUnits
  BY DEF FrameInv, GameInv, GameTypeOK, ObjectsTypeOK
<1>4. Shrinks(c2g, c2g') /\ Shrinks(d2g, d2g')
  BY <1>1, ShrinksWhen DEF FrameInv, SessionInv, DataInv
<1>5. CASE ConnStart
  <2>1. PICK idx \in PlayerUnits \ DOMAIN players :
            HandleRequest(Head(c2g), idx, With(players, idx, NewPlayer(Head(c2g).conn_fd)))
    BY <1>5 DEF ConnStart
  <2> DEFINE ps == With(players, idx, NewPlayer(Head(c2g).conn_fd))
  <2>2. /\ DOMAIN ps \subseteq PlayerUnits
        /\ \A i \in DOMAIN ps : ps[i].conn_fd \in Nat /\ ps[i].city_list \subseteq CityUnits
    BY <1>2, <1>3 DEF With, NewPlayer
  <2>3. Head(c2g).cmd \in {"START", "PROC"}
    BY <1>5 DEF ConnStart, FromConnsvr
  <2> HIDE DEF ps
  <2> QED
    BY <1>1, <2>1, <2>2, <2>3, RequestStep DEF ps
<1>6. CASE ConnStartFull
  BY <1>4, <1>6 DEF ConnStartFull, Die, Quiet, Fewer
<1>7. CASE ConnProc
  <2>1. Head(c2g).cmd \in {"START", "PROC"} /\ HandleRequest(Head(c2g), Head(c2g).player_idx, players)
    BY <1>7 DEF ConnProc, FromConnsvr
  <2> QED
    BY <1>1, <1>3, <2>1, RequestStep
<1>8. CASE ConnStop
  <2> DEFINE idx == Head(c2g).player_idx
             r == SetPlayerData(players[idx], NextLogic)
  <2>1. CASE idx \in DOMAIN players
    <3>1. /\ g2d' = Push(g2d, <<r>>) /\ logic_count' = NextLogic
          /\ UNCHANGED <<g2c, answered>>
          /\ Yield("UPDATE_PLAYER", 1, 0, idx, [uid |-> 0, pw |-> 0])
      BY <1>8, <2>1 DEF ConnStop, SendToDatasvr
    <3>2. 0 \in 0..Len(asked) /\ idx \in PlayerUnits
      BY <1>3, <2>1 DEF FrameInv, SessionInv
    <3>3. PICK l : /\ IsLogic(l, Len(asked)) /\ l.seq = 0 /\ l.type = "UPDATE_PLAYER"
                   /\ logics' = With(logics, NextLogic, l)
      BY <3>1, <3>2, YieldBegins
    <3>4. r.seq = NextLogic /\ r.cmd = "SET" /\ r.cities \in Nat
      BY <1>3, <2>1, CitiesCounted DEF SetPlayerData, ToData
    <3>5. RequestOf(r, NextLogic, l)
      BY <3>3, <3>4 DEF RequestOf, Expects
    <3> HIDE DEF r
    <3>6. Queue(g2c') /\ \A k \in Msgs(g2c') : AnswerMsg(k, Len(asked))
      BY <3>1 DEF FrameInv, SessionInv
    <3> QED
      BY <1>1, <3>1, <3>3, <3>5, <3>6 DEF Begins
  <2>2. CASE idx \notin DOMAIN players
    BY <1>4, <1>8, <2>2 DEF ConnStop, Quiet, Fewer
  <2> QED
    BY <2>1, <2>2
<1> QED
  BY <1>5, <1>6, <1>7, <1>8

LEMMA DatasvrStep ==
    ASSUME FrameInv,
           \/ ResumeNoLogic \/ ResumeFinish \/ ResumeAnswer \/ ResumeLoginSaved
           \/ ResumeLoginOk \/ ResumeLoginNoCity \/ ResumeLoginNoPlayer
    PROVE  Quiet \/ Ends \/ GoesOn
<1>1. d2g # <<>> /\ d2g' = Tail(d2g) /\ UNCHANGED <<c2g, asked>>
  BY DEF ResumeNoLogic, ResumeFinish, ResumeAnswer, ResumeLoginSaved,
         ResumeLoginOk, ResumeLoginNoCity, ResumeLoginNoPlayer, FromDatasvr
<1>2. Shrinks(c2g, c2g') /\ Shrinks(d2g, d2g')
  BY <1>1, ShrinksWhen DEF FrameInv, SessionInv, DataInv
<1>3. CASE ResumeNoLogic \/ ResumeFinish
  BY <1>2, <1>3 DEF ResumeNoLogic, ResumeFinish, Finish, Without, Quiet, Fewer, gamesvr
<1>4. CASE ResumeLoginNoCity \/ ResumeLoginNoPlayer
  BY <1>2, <1>4 DEF ResumeLoginNoCity, ResumeLoginNoPlayer, Die, Quiet, Fewer
<1> DEFINE l == logics[Resumed]
<1>5. ASSUME Resumed \in DOMAIN logics, ItsPlayer \in DOMAIN players
      PROVE  /\ IsLogic(l, Len(asked)) /\ l.seq \in 0..Len(asked)
             /\ ItsPlayer \in PlayerUnits /\ players[ItsPlayer].conn_fd \in Nat
  BY <1>5 DEF FrameInv, GameInv, GameTypeOK, ObjectsTypeOK, IsLogic
<1>6. CASE ResumeAnswer
  <2> DEFINE a == Answer(players[ItsPlayer], ItsPlayer, l.seq, l.type, Head(d2g).ret)
  <2>1. /\ Resumed \in DOMAIN logics /\ ItsPlayer \in DOMAIN players
        /\ SendAnswers(<<a>>) /\ UNCHANGED <<g2d, logic_count>>
        /\ logics' = Without(logics, {Resumed})
    BY <1>6 DEF ResumeAnswer, Waits, Finish
  <2>2. AnswerMsg(a, Len(asked)) /\ a.seq = l.seq
    BY <1>5, <2>1, AnswerTyped
  <2> HIDE DEF a
  <2>3. Sends(l.seq)
    BY <2>1, <2>2, OneAnswer DEF FrameInv
  <2> QED
    BY <1>1, <2>1, <2>3 DEF Ends
<1>7. CASE ResumeLoginOk
  <2> DEFINE player == players[ItsPlayer]
             a == Answer(player, ItsPlayer, l.seq, "LOGIN", 0)
             n == ToConn("PROC", player.conn_fd, ItsPlayer, 0, 0)
  <2>1. /\ Resumed \in DOMAIN logics /\ ItsPlayer \in DOMAIN players
        /\ SendAnswers(<<a, n>>) /\ UNCHANGED <<g2d, logic_count>>
        /\ logics' = Without(logics, {Resumed})
    BY <1>7 DEF ResumeLoginOk, Waits, Finish
  <2>2. AnswerMsg(a, Len(asked)) /\ a.seq = l.seq
    BY <1>5, <2>1, AnswerTyped
  <2>3. 0 \in 0..Len(asked) /\ ItsPlayer \in Nat
    BY <1>5, <2>1, GameObjectsAssumption DEF FrameInv, SessionInv, PlayerUnits
  <2>4. AnswerMsg(n, Len(asked)) /\ n.seq = 0
    BY <1>5, <2>1, <2>3 DEF AnswerMsg, ToConn
  <2> HIDE DEF a, n
  <2>5. Sends(l.seq)
    BY <2>1, <2>2, <2>4, AnswerAndNotice DEF FrameInv
  <2> QED
    BY <1>1, <2>1, <2>5 DEF Ends
<1>8. CASE ResumeLoginSaved
  <2> DEFINE k == [l EXCEPT !.step = 2]
             r == ToData("GET", Resumed, l.uid, l.password_hash, 0)
  <2>1. /\ Resumed \in DOMAIN logics /\ ItsPlayer \in DOMAIN players
        /\ l.type = "LOGIN"
        /\ g2d' = Push(g2d, <<r>>) /\ UNCHANGED <<g2c, answered, logic_count>>
        /\ logics' = [logics EXCEPT ![Resumed].step = 2]
    BY <1>8 DEF ResumeLoginSaved, Waits, SendToDatasvr
  <2>2. IsLogic(l, Len(asked))
    BY <1>5, <2>1
  <2>3. logics' = [logics EXCEPT ![Resumed] = k]
    BY <2>1
  <2> HIDE DEF l
  <2>4. k = [type |-> l.type, step |-> 2, seq |-> l.seq, player_idx |-> l.player_idx,
             uid |-> l.uid, password_hash |-> l.password_hash]
    BY <2>2 DEF IsLogic
  <2> HIDE DEF k
  <2>5. /\ k.type = "LOGIN" /\ k.step = 2 /\ k.seq = l.seq /\ k.player_idx = l.player_idx
        /\ k.uid = l.uid /\ k.password_hash = l.password_hash
    BY <2>1, <2>4
  <2>6. IsLogic(k, Len(asked))
    BY <2>2, <2>4, <2>5 DEF IsLogic
  <2>7. RequestOf(r, Resumed, k)
    BY <2>5 DEF RequestOf, ToData, Expects
  <2> HIDE DEF r
  <2> QED
    BY <1>1, <2>1, <2>3, <2>5, <2>6, <2>7 DEF GoesOn, l
<1> QED
  BY <1>3, <1>4, <1>6, <1>7, <1>8

LEMMA GameStep == ASSUME FrameInv, GameNext
                  PROVE  Quiet \/ AnswersNow \/ Begins \/ Ends \/ GoesOn
<1>1. Shrinks(c2g, c2g) /\ Shrinks(d2g, d2g)
  BY ShrinksWhen DEF FrameInv, SessionInv, DataInv
<1>2. CASE Kill \/ \E l \in 1..logic_count : OnTimer(l)
  BY <1>1, <1>2 DEF Kill, Die, OnTimer, Without, links, Quiet, Fewer
<1>3. CASE Restart \/ RestartWiped
  <2>1. Shrinks(c2g, c2g') /\ Shrinks(d2g, d2g')
    BY <1>3 DEF Restart, RestartWiped, Start, Rest, Shrinks
  <2> QED
    BY <1>3, <2>1 DEF Restart, RestartWiped, Start, Quiet, Fewer
<1> QED
  BY <1>2, <1>3, ConnsvrStep, DatasvrStep DEF GameNext

-----------------------------------------------------------------------------
(* TypeOK *)

\* gamesvr keeps the types of its objects.
LEMMA ObjectsStep == ASSUME FrameInv, GameNext
                     PROVE  /\ ObjectsTypeOK'
                            /\ status' \in {"up", "no player memory", "no city", "no player",
                                            "killed", "aborted"}
<1>1. /\ ObjectsTypeOK
      /\ status \in {"up", "no player memory", "no city", "no player", "killed", "aborted"}
  BY DEF FrameInv, GameInv, GameTypeOK
<1>2. UNCHANGED objects => ObjectsTypeOK'
  BY <1>1 DEF objects, ObjectsTypeOK
<1>3. ASSUME NEW why \in {"no player memory", "no city", "no player", "killed"}, Die(why)
      PROVE  ObjectsTypeOK' /\ status' = why
  BY <1>1, <1>3 DEF Die, ObjectsTypeOK
<1>4. CASE ConnStart
  <2>1. Head(c2g).conn_fd \in Nat
    BY <1>4, TailMsgs DEF ConnStart, FromConnsvr, FrameInv, SessionInv, RequestMsg
  <2> QED
    BY <1>1, <1>4, <2>1, NewPlayerTyped DEF ConnStart
<1>5. CASE ConnStartFull \/ ResumeLoginNoCity \/ ResumeLoginNoPlayer \/ Kill
  BY <1>3, <1>5 DEF ConnStartFull, ResumeLoginNoCity, ResumeLoginNoPlayer, Kill
<1>6. CASE ConnProc \/ ResumeFinish \/ ResumeAnswer \/ ResumeLoginSaved
  BY <1>1, <1>2, <1>6 DEF ConnProc, ResumeFinish, ResumeAnswer, ResumeLoginSaved, objects
<1>7. CASE ConnStop
  <2>1. CASE Head(c2g).player_idx \in DOMAIN players
    BY <1>1, <1>7, <2>1, DelPlayerTyped DEF ConnStop
  <2>2. CASE Head(c2g).player_idx \notin DOMAIN players
    BY <1>1, <1>2, <1>7, <2>2 DEF ConnStop, objects
  <2> QED
    BY <2>1, <2>2
<1>8. CASE ResumeNoLogic \/ \E l \in 1..logic_count : OnTimer(l)
  BY <1>1, <1>2, <1>8 DEF ResumeNoLogic, OnTimer, gamesvr, objects
<1>9. CASE ResumeLoginOk
  <2> DEFINE l == logics[Resumed]
             own == players[ItsPlayer]
  <2>1. PICK new \in SUBSET (CityUnits \ cities) :
            /\ cities' = cities \cup new
            /\ players' = [players EXCEPT ![ItsPlayer] = LoggedIn(own, l, new)]
    BY <1>9 DEF ResumeLoginOk
  <2>2. /\ ItsPlayer \in DOMAIN players /\ BindUid(l.uid, ItsPlayer) /\ status' = status
    BY <1>9 DEF ResumeLoginOk
  <2>3. /\ DOMAIN players' = DOMAIN players
        /\ \A i \in DOMAIN players \ {ItsPlayer} : players'[i] = players[i]
        /\ players'[ItsPlayer].conn_fd = own.conn_fd
        /\ players'[ItsPlayer].city_list = own.city_list \cup new
    BY <2>1, <2>2 DEF LoggedIn
  <2>4. \A u \in DOMAIN uid_to_player_idx_map' : uid_to_player_idx_map'[u] \in PlayerUnits
    BY <1>1, <2>2, BindUidTyped DEF ObjectsTypeOK
  <2> QED
    BY <1>1, <2>1, <2>2, <2>3, <2>4 DEF ObjectsTypeOK
<1>10. CASE Restart \/ RestartWiped
  BY <1>1, <1>10 DEF Restart, RestartWiped, Start, ObjectsTypeOK
<1> QED
  BY <1>4, <1>5, <1>6, <1>7, <1>8, <1>9, <1>10 DEF GameNext

\* ... and those of its logics.
LEMMA LogicsStep ==
    ASSUME FrameInv, Quiet \/ AnswersNow \/ Begins \/ Ends \/ GoesOn
    PROVE  /\ logic_count' \in Nat /\ UNCHANGED asked
           /\ DOMAIN logics' \subseteq 1..logic_count'
           /\ \A l \in DOMAIN logics' : IsLogic(logics'[l], Len(asked))
<1>1. /\ logic_count \in Nat /\ DOMAIN logics \subseteq 1..logic_count
      /\ \A l \in DOMAIN logics : IsLogic(logics[l], Len(asked))
  BY DEF FrameInv, GameInv, GameTypeOK
<1>2. /\ NextLogic = logic_count + 1 /\ NextLogic \in Nat /\ NextLogic \in 1..NextLogic
      /\ 1..logic_count \subseteq 1..NextLogic
  BY <1>1 DEF NextLogic
<1>3. CASE Quiet
  BY <1>1, <1>2, <1>3 DEF Quiet, Fewer
<1>4. CASE AnswersNow
  BY <1>1, <1>2, <1>4 DEF AnswersNow
<1>5. CASE Begins
  <2>1. PICK l : IsLogic(l, Len(asked)) /\ logics' = With(logics, NextLogic, l)
    BY <1>5 DEF Begins
  <2>2. /\ DOMAIN logics' = DOMAIN logics \cup {NextLogic}
        /\ logics'[NextLogic] = l
        /\ \A k \in DOMAIN logics' \ {NextLogic} : logics'[k] = logics[k]
    BY <2>1 DEF With
  <2> QED
    BY <1>1, <1>2, <1>5, <2>1, <2>2 DEF Begins
<1>6. CASE Ends
  BY <1>1, <1>6 DEF Ends, Without
<1>7. CASE GoesOn
  <2>1. PICK l : IsLogic(l, Len(asked)) /\ logics' = [logics EXCEPT ![Resumed] = l]
    BY <1>7 DEF GoesOn
  <2>2. /\ DOMAIN logics' = DOMAIN logics
        /\ \A k \in DOMAIN logics : logics'[k] \in {l, logics[k]}
    BY <2>1
  <2> QED
    BY <1>1, <1>7, <2>1, <2>2 DEF GoesOn
<1> QED
  BY <1>3, <1>4, <1>5, <1>6, <1>7

\* ... and those of the queues it reads and writes.
LEMMA QueuesStep ==
    ASSUME FrameInv, Quiet \/ AnswersNow \/ Begins \/ Ends \/ GoesOn, UNCHANGED datasvr
    PROVE  SessionInv' /\ DataInv'
<1>1. SessionInv /\ DataInv /\ Queue(c2g) /\ Queue(d2g) /\ Queue(g2d)
  BY DEF FrameInv, SessionInv, DataInv
<1>2. /\ Queue(c2g') /\ Msgs(c2g') \subseteq Msgs(c2g)
      /\ Queue(d2g') /\ Msgs(d2g') \subseteq Msgs(d2g)
  <2>1. c2g # <<>> => Queue(Tail(c2g)) /\ Msgs(Tail(c2g)) \subseteq Msgs(c2g)
    BY <1>1, TailMsgs
  <2>2. d2g # <<>> => Queue(Tail(d2g)) /\ Msgs(Tail(d2g)) \subseteq Msgs(d2g)
    BY <1>1, TailMsgs
  <2>3. CASE Quiet
    BY <1>1, <2>3, ShrinksMsgs DEF Quiet
  <2>4. CASE AnswersNow \/ Begins
    BY <1>1, <2>1, <2>4 DEF AnswersNow, Begins
  <2>5. CASE Ends \/ GoesOn
    BY <1>1, <2>2, <2>5 DEF Ends, GoesOn
  <2> QED
    BY <2>3, <2>4, <2>5
<1>3. SessionInv'
  <2>1. CASE Quiet \/ GoesOn
    BY <1>1, <1>2, <2>1 DEF Quiet, GoesOn, SessionInv
  <2>2. CASE AnswersNow
    BY <1>1, <1>2, <2>2, SendsTyped DEF AnswersNow
  <2>3. CASE Ends
    BY <1>1, <1>2, <2>3, SendsTyped DEF Ends
  <2>4. CASE Begins
    BY <1>1, <1>2, <2>4 DEF Begins, SessionInv
  <2> QED
    BY <2>1, <2>2, <2>3, <2>4
<1>4. Queue(g2d') /\ \A m \in Msgs(g2d') : m.cities \in Nat
  <2>1. CASE Quiet \/ AnswersNow \/ Ends
    BY <1>1, <2>1 DEF Quiet, AnswersNow, Ends, DataInv
  <2>2. CASE Begins \/ GoesOn
    <3>1. PICK r : r.cities \in Nat /\ g2d' = Push(g2d, <<r>>)
      BY <2>2 DEF Begins, GoesOn, RequestOf
    <3>2. Queue(g2d') /\ Msgs(g2d') \subseteq Msgs(g2d) \cup {r}
      BY <1>1, <3>1, PushMsgs, OneMsg
    <3> QED
      BY <1>1, <3>1, <3>2 DEF DataInv
  <2> QED
    BY <2>1, <2>2
<1>5. DataInv'
  BY <1>1, <1>2, <1>4 DEF DataInv, datasvr
<1> QED
  BY <1>3, <1>5

LEMMA FrameStep == FrameInv /\ [Next]_vars => FrameInv'
<1> SUFFICES ASSUME FrameInv, [Next]_vars PROVE FrameInv'
  OBVIOUS
<1>1. CASE ConnNext /\ UNCHANGED <<gamesvr, datasvr>>
  <2>1. (Asks \/ Tells) /\ UNCHANGED <<g2d, d2g>>
    BY <1>1, ConnStep DEF FrameInv
  <2>2. SessionInv'
    BY <2>1, AsksKeep, TellsKeep DEF FrameInv
  <2>3. Len(asked) \in Nat /\ Len(asked') \in Nat /\ Len(asked) <= Len(asked')
    BY <2>1 DEF FrameInv, SessionInv, Asks, Tells
  <2>4. GameInv'
    <3>1. \A l : IsLogic(l, Len(asked)) => IsLogic(l, Len(asked'))
      BY <2>3 DEF IsLogic
    <3>2. GameTypeOK'
      BY <1>1 DEF FrameInv, GameInv, GameTypeOK, ObjectsTypeOK, gamesvr
    <3> QED
      BY <1>1, <3>1, <3>2 DEF FrameInv, GameInv, gamesvr
  <2>5. DataInv'
    BY <1>1, <2>1 DEF FrameInv, DataInv, datasvr
  <2> QED
    BY <1>1, <2>2, <2>4, <2>5, ConnTypeStep DEF FrameInv
<1>2. CASE GameNext /\ UNCHANGED <<connsvr, datasvr>>
  <2>1. Quiet \/ AnswersNow \/ Begins \/ Ends \/ GoesOn
    BY <1>2, GameStep
  <2>2. /\ logic_count' \in Nat /\ UNCHANGED asked
        /\ DOMAIN logics' \subseteq 1..logic_count'
        /\ \A l \in DOMAIN logics' : IsLogic(logics'[l], Len(asked))
    BY <2>1, LogicsStep
  <2>3. GameInv'
    BY <1>2, <2>2, ObjectsStep DEF GameInv, GameTypeOK, IsLogic
  <2>4. ConnTypeOK'
    BY <1>2, <2>2 DEF FrameInv, ConnTypeOK, connsvr, Seqs
  <2> QED
    BY <1>2, <2>1, <2>3, <2>4, QueuesStep DEF FrameInv
<1>3. CASE DataNext /\ UNCHANGED <<connsvr, gamesvr>>
  <2>1. UNCHANGED <<c2g, g2c, asked, answered>>
    BY <1>3, DataStep DEF FrameInv
  <2>2. SessionInv' /\ ConnTypeOK' /\ GameInv'
    BY <1>3, <2>1 DEF FrameInv, SessionInv, ConnTypeOK, GameInv, GameTypeOK,
         ObjectsTypeOK, connsvr, gamesvr, Seqs
  <2> QED
    BY <1>3, <2>2, DataInvStep DEF FrameInv
<1>4. CASE UNCHANGED vars
  BY <1>4 DEF vars, links, connsvr, gamesvr, datasvr, FrameInv, SessionInv, ConnTypeOK,
       GameInv, GameTypeOK, ObjectsTypeOK, DataInv, Seqs
<1> QED
  BY <1>1, <1>2, <1>3, <1>4 DEF Next

LEMMA FrameStart == Init => FrameInv
<1> SUFFICES ASSUME Init PROVE FrameInv
  OBVIOUS
<1>1. /\ c2g = <<>> /\ g2c = <<>> /\ g2d = <<>> /\ d2g = <<>>
      /\ asked = <<>> /\ answered = <<>>
  BY DEF Init, LinksInit
<1>2. SessionInv
  BY <1>1, EmptyQueue DEF SessionInv
<1>3. ConnTypeOK
  BY ConnSvrAssumption DEF Init, ConnInit, ConnTypeOK
<1>4. GameInv
  BY DEF Init, GameInit, ObjectsInit, GameInv, GameTypeOK, ObjectsTypeOK
<1>5. DataInv
  <2>1. \A u \in DOMAIN sg_data : IsRow(sg_data[u])
    BY DEF Init, DataInit, IsRow
  <2> QED
    BY <1>1, <2>1, EmptyQueue, FS_EmptySet, DataServiceAssumption
      DEF DataInv, Init, DataInit
<1> QED
  BY <1>2, <1>3, <1>4, <1>5 DEF FrameInv

LEMMA FrameAlways == Spec => []FrameInv
  BY FrameStart, FrameStep, PTL DEF Spec

\* Every queue keeps to its mark, and everything that is kept or sent has its
\* type: descriptors, indices, cities, counters and numbers of requests.
THEOREM TypesCorrect == Spec => []TypeOK
<1>1. FrameInv => TypeOK
  <2> SUFFICES ASSUME FrameInv PROVE TypeOK
    OBVIOUS
  <2>1. LinksTypeOK
    <3>1. \A s \in Seqs : asked[s].body \in Bodies /\ asked[s].conn \in Nat
      <4> TAKE s \in Seqs
      <4> DEFINE R == [conn : Nat, body : Bodies]
      <4>1. asked \in Seq(R) /\ s \in 1..Len(asked)
        BY DEF FrameInv, SessionInv, Seqs
      <4> HIDE DEF R
      <4>2. asked[s] \in R
        BY <4>1
      <4> QED
        BY <4>2 DEF R
    <3>2. DOMAIN answered = Seqs /\ \A s \in Seqs : answered[s] \in Nat
      BY DEF FrameInv, SessionInv, Seqs
    <3> QED
      BY <3>1, <3>2 DEF LinksTypeOK, FrameInv, SessionInv, DataInv, Queue
  <2>2. DataTypeOK
    BY DEF FrameInv, DataInv, DataTypeOK, IsRow
  <2> QED
    BY <2>1, <2>2 DEF FrameInv, GameInv, TypeOK
<1> QED
  BY <1>1, FrameAlways, PTL

-----------------------------------------------------------------------------
(* AnswerOnce *)

\* A request is in one place at a time: on its way to gamesvr, with a logic, or
\* answered.
Pending(f) == {<<id, f[id].seq>> : id \in DOMAIN f}
OnceInv == Once(c2g, Pending(logics), answered)

LEMMA OnceGameStep ==
    ASSUME FrameInv, OnceInv, Quiet \/ AnswersNow \/ Begins \/ Ends \/ GoesOn
    PROVE  OnceInv'
<1> DEFINE W == Pending(logics)
           V == Pending(logics')
<1>1. Queue(c2g) /\ answered \in Seq(Nat)
  BY DEF FrameInv, SessionInv
<1>2. Once(c2g, W, answered) /\ (OnceInv' <=> Once(c2g', V, answered'))
  BY DEF OnceInv
<1>3. CASE Quiet
  <2>1. V \subseteq W
    BY <1>3 DEF Quiet, Fewer, Pending
  <2>2. SeqsOf(c2g') \subseteq SeqsOf(c2g) /\ Distinct(c2g', {0}) /\ answered' = answered
    BY <1>1, <1>2, <1>3, ShrinksMsgs DEF Quiet, Once
  <2> HIDE DEF V, W
  <2> QED
    BY <1>2, <2>1, <2>2, OnceFewer
<1>4. CASE AnswersNow
  <2>1. V = W /\ c2g # <<>> /\ c2g' = Tail(c2g) /\ Counted(answered, Head(c2g).seq, answered')
    BY <1>4 DEF AnswersNow, Sends
  <2> HIDE DEF V, W
  <2> QED
    BY <1>1, <1>2, <2>1, OnceNow
<1>5. CASE Begins
  <2>1. PICK l : l.seq \in {0, Head(c2g).seq} /\ logics' = With(logics, NextLogic, l)
    BY <1>5 DEF Begins
  <2>2. /\ DOMAIN logics' = DOMAIN logics \cup {NextLogic}
        /\ logics'[NextLogic] = l
        /\ \A k \in DOMAIN logics' \ {NextLogic} : logics'[k] = logics[k]
    BY <2>1 DEF With
  <2>3. V \subseteq W \cup {<<NextLogic, Head(c2g).seq>>, <<NextLogic, 0>>}
    BY <2>1, <2>2 DEF Pending
  <2>4. c2g # <<>> /\ c2g' = Tail(c2g) /\ answered' = answered
    BY <1>5 DEF Begins
  <2> HIDE DEF V, W
  <2> QED
    BY <1>1, <1>2, <2>3, <2>4, OnceAccept
<1>6. CASE Ends
  <2> DEFINE w == <<Resumed, logics[Resumed].seq>>
  <2>1. /\ Resumed \in DOMAIN logics /\ logics' = Without(logics, {Resumed})
        /\ c2g' = c2g /\ Counted(answered, logics[Resumed].seq, answered')
    BY <1>6 DEF Ends, Sends
  <2>2. w \in W /\ w[2] = logics[Resumed].seq
    BY <2>1 DEF Pending
  <2>3. V \subseteq W \ {w}
    BY <2>1 DEF Pending, Without
  <2> HIDE DEF V, W, w
  <2> QED
    BY <1>1, <1>2, <2>1, <2>2, <2>3, OnceLater
<1>7. CASE GoesOn
  <2>1. PICK l : l.seq = logics[Resumed].seq /\ logics' = [logics EXCEPT ![Resumed] = l]
    BY <1>7 DEF GoesOn
  <2>2. /\ DOMAIN logics' = DOMAIN logics
        /\ \A k \in DOMAIN logics : logics'[k].seq = logics[k].seq
    BY <1>7, <2>1 DEF GoesOn
  <2>3. V = W
    BY <2>2 DEF Pending
  <2> QED
    BY <1>2, <1>7, <2>3 DEF GoesOn
<1> QED
  BY <1>3, <1>4, <1>5, <1>6, <1>7

LEMMA OnceStep == FrameInv /\ OnceInv /\ [Next]_vars => OnceInv'
<1> SUFFICES ASSUME FrameInv, OnceInv, [Next]_vars PROVE OnceInv'
  OBVIOUS
<1>1. CASE ConnNext /\ UNCHANGED gamesvr
  <2> DEFINE W == Pending(logics)
  <2>1. Once(c2g, W, answered) /\ (OnceInv' <=> Once(c2g', W, answered'))
    BY <1>1 DEF OnceInv, gamesvr
  <2> HIDE DEF W
  <2> QED
    BY <1>1, <2>1, ConnStep, OnceConn DEF FrameInv
<1>2. CASE GameNext
  BY <1>2, GameStep, OnceGameStep
<1>3. CASE DataNext /\ UNCHANGED gamesvr
  BY <1>3, DataStep DEF FrameInv, OnceInv, gamesvr
<1>4. CASE UNCHANGED vars
  BY <1>4 DEF vars, links, gamesvr, OnceInv
<1> QED
  BY <1>1, <1>2, <1>3, <1>4 DEF Next

LEMMA OnceStart == Init => OnceInv
<1> SUFFICES ASSUME Init PROVE OnceInv
  OBVIOUS
<1>1. c2g = <<>> /\ answered = <<>> /\ DOMAIN logics = {}
  BY DEF Init, LinksInit, GameInit
<1>2. Pending(logics) = {} /\ 1..Len(answered) = {}
  BY <1>1 DEF Pending
<1> QED
  BY <1>1, <1>2, EmptyQueue DEF OnceInv, Once

\* No request is answered twice, whatever is lost or late, and however often
\* gamesvr is killed and started with messages that wait for it.
THEOREM AnsweredOnce == Spec => []AnswerOnce
<1>1. FrameInv /\ OnceInv => AnswerOnce
  BY DEF FrameInv, SessionInv, OnceInv, Once, AnswerOnce, Seqs
<1> QED
  BY OnceStart, <1>1, OnceStep, FrameAlways, PTL DEF Spec

-----------------------------------------------------------------------------
(* AnswersExpected *)

\* No two requests, jobs or answers have the same id, so that the answer that ends
\* the wait of a logic is the last there is for it; and what is on its way for a
\* logic is what its step waits for.
Want(l) == [cmd |-> Expects(l), uid |-> l.uid, pw |-> l.password_hash]
LogicMeant(id) == \A w : w = Want(logics[id]) => Meant(id, w)
ExpectInv == /\ Apart(g2d, jobs, d2g, {}, logic_count)
             /\ \A id \in DOMAIN logics : LogicMeant(id)

LEMMA RequestWanted ==
    \A r, id, l : RequestOf(r, id, l) => Wanted(r, Want(l)) /\ r.seq = id
  BY DEF RequestOf, Wanted, Want

\* A logic that does not take part in a step.
LEMMA LogicKept ==
    ASSUME DataInv, UNCHANGED datasvr, Msgs(d2g') \subseteq Msgs(d2g),
           NEW id, LogicMeant(id), logics'[id] = logics[id],
           \/ UNCHANGED g2d
           \/ \E m : m.seq # id /\ g2d' = Push(g2d, <<m>>)
    PROVE  LogicMeant(id)'
<1> SUFFICES ASSUME NEW w, w = Want(logics'[id]) PROVE Meant(id, w)'
  BY DEF LogicMeant, Want, Expects
<1>1. Meant(id, w)
  BY DEF LogicMeant
<1>2. CASE UNCHANGED g2d
  BY <1>1, <1>2, MeantKept
<1>3. CASE \E m : m.seq # id /\ g2d' = Push(g2d, <<m>>)
  <2>1. PICK m : m.seq # id /\ g2d' = Push(g2d, <<m>>)
    BY <1>3
  <2>2. IsSeq(<<m>>) /\ \A k \in Msgs(<<m>>) : k.seq = id => Wanted(k, w)
    BY <2>1, OneMsg
  <2> QED
    BY <1>1, <2>1, <2>2, MeantKept
<1> QED
  BY <1>2, <1>3

\* A logic that sends its first request, or its next one.
LEMMA LogicAsks ==
    ASSUME DataInv, UNCHANGED datasvr,
           NEW id, id \notin SeqsOf(g2d) \cup JobSeqs(jobs) \cup SeqsOf(d2g'),
           NEW l, NEW r, RequestOf(r, id, l), logics'[id] = l, g2d' = Push(g2d, <<r>>)
    PROVE  LogicMeant(id)'
<1> SUFFICES ASSUME NEW w, w = Want(l) PROVE Meant(id, w)'
  BY DEF LogicMeant, Want, Expects
<1>1. Wanted(r, w)
  BY RequestWanted
<1> QED
  BY <1>1, MeantNew

LEMMA ExpectGameStep ==
    ASSUME FrameInv, ExpectInv, UNCHANGED datasvr,
           Quiet \/ AnswersNow \/ Begins \/ Ends \/ GoesOn
    PROVE  ExpectInv'
<1>1. /\ DataInv /\ Queue(g2d) /\ Queue(d2g) /\ jobs' = jobs
      /\ logic_count \in Nat /\ DOMAIN logics \subseteq 1..logic_count
  BY DEF FrameInv, DataInv, GameInv, GameTypeOK, datasvr
<1>2. /\ NextLogic \in Nat /\ logic_count <= NextLogic
      /\ NextLogic \in 0..NextLogic /\ NextLogic \notin 0..logic_count
      /\ NextLogic \notin DOMAIN logics
  BY <1>1 DEF NextLogic
<1>3. /\ Apart(g2d, jobs, d2g, {}, logic_count)
      /\ Distinct(g2d, {}) /\ Distinct(d2g, {})
      /\ \A id \in DOMAIN logics : LogicMeant(id)
  BY DEF ExpectInv, Apart
<1>4. CASE Quiet
  <2>1. /\ SeqsOf(d2g') \subseteq SeqsOf(d2g) /\ Distinct(d2g', {})
        /\ Msgs(d2g') \subseteq Msgs(d2g) /\ g2d' = g2d
    BY <1>1, <1>3, <1>4, ShrinksMsgs DEF Quiet
  <2>2. logic_count' \in Nat /\ logic_count <= logic_count'
    BY <1>1, <1>2, <1>4 DEF Quiet
  <2>3. Apart(g2d, jobs, d2g', {}, logic_count')
    BY <1>1, <1>3, <2>1, <2>2, ApartFewer
  <2>4. \A id \in DOMAIN logics' : LogicMeant(id)'
    BY <1>1, <1>3, <1>4, <2>1, LogicKept DEF Quiet, Fewer
  <2> QED
    BY <1>1, <2>1, <2>3, <2>4 DEF ExpectInv
<1>5. Apart(g2d, jobs, d2g, {}, NextLogic)
  BY <1>1, <1>2, <1>3, ApartFewer
<1>6. CASE AnswersNow
  <2>1. \A id \in DOMAIN logics' : LogicMeant(id)'
    BY <1>1, <1>3, <1>6, LogicKept DEF AnswersNow
  <2> QED
    BY <1>1, <1>5, <1>6, <2>1 DEF ExpectInv, AnswersNow
<1>7. CASE Begins
  <2>1. PICK l, r : /\ RequestOf(r, NextLogic, l)
                    /\ logics' = With(logics, NextLogic, l) /\ g2d' = Push(g2d, <<r>>)
    BY <1>7 DEF Begins
  <2>2. /\ DOMAIN logics' = DOMAIN logics \cup {NextLogic}
        /\ logics'[NextLogic] = l
        /\ \A k \in DOMAIN logics : logics'[k] = logics[k]
    BY <1>2, <2>1 DEF With
  <2>3. NextLogic \notin SeqsOf(g2d) \cup JobSeqs(jobs) \cup SeqsOf(d2g) /\ r.seq = NextLogic
    BY <1>2, <1>3, <2>1 DEF Apart, RequestOf
  <2>4. d2g' = d2g /\ logic_count' = NextLogic
    BY <1>7 DEF Begins
  <2>5. Apart(g2d', jobs, d2g, {}, NextLogic)
    BY <1>1, <1>2, <1>5, <2>1, <2>3, ApartSend
  <2>6. ASSUME NEW id, id = NextLogic PROVE LogicMeant(id)'
    BY <1>1, <2>1, <2>2, <2>3, <2>4, <2>6, LogicAsks
  <2>7. \A id \in DOMAIN logics : LogicMeant(id)'
    BY <1>1, <1>2, <1>3, <2>1, <2>2, <2>3, <2>4, LogicKept
  <2> QED
    BY <1>1, <2>2, <2>4, <2>5, <2>6, <2>7 DEF ExpectInv
<1> DEFINE id0 == Head(d2g).seq
<1>8. d2g # <<>> /\ d2g' = Tail(d2g) =>
          /\ Apart(g2d, jobs, d2g', {}, logic_count)
          /\ id0 \in 0..logic_count
          /\ id0 \notin SeqsOf(g2d) \cup JobSeqs(jobs) \cup SeqsOf(d2g')
          /\ Msgs(d2g') \subseteq Msgs(d2g)
  <2> SUFFICES ASSUME d2g # <<>>, d2g' = Tail(d2g)
               PROVE  /\ Apart(g2d, jobs, Tail(d2g), {}, logic_count)
                      /\ id0 \in 0..logic_count
                      /\ id0 \notin SeqsOf(g2d) \cup JobSeqs(jobs) \cup SeqsOf(Tail(d2g))
                      /\ Msgs(Tail(d2g)) \subseteq Msgs(d2g)
    OBVIOUS
  <2>1. Msgs(Tail(d2g)) \subseteq Msgs(d2g)
    BY <1>1, TailMsgs
  <2>2. \A Z : Apart(g2d, jobs, d2g, Z, logic_count) =>
            /\ Apart(g2d, jobs, Tail(d2g), Z, logic_count)
            /\ Head(d2g).seq \in 0..logic_count
            /\ \/ Head(d2g).seq \in Z
               \/ Head(d2g).seq \notin SeqsOf(g2d) \cup JobSeqs(jobs) \cup SeqsOf(Tail(d2g))
    BY <1>1, ApartTaken
  <2> QED
    BY <1>3, <2>1, <2>2
<1>9. CASE Ends
  <2>1. d2g # <<>> /\ d2g' = Tail(d2g) /\ g2d' = g2d /\ logic_count' = logic_count
    BY <1>9 DEF Ends
  <2>2. /\ DOMAIN logics' \subseteq DOMAIN logics
        /\ \A id \in DOMAIN logics' : logics'[id] = logics[id]
    BY <1>9 DEF Ends, Without
  <2>3. \A id \in DOMAIN logics' : LogicMeant(id)'
    BY <1>1, <1>3, <1>8, <2>1, <2>2, LogicKept
  <2> QED
    BY <1>1, <1>8, <2>1, <2>3 DEF ExpectInv
<1>10. CASE GoesOn
  <2>1. PICK l, r : /\ RequestOf(r, id0, l)
                    /\ logics' = [logics EXCEPT ![id0] = l] /\ g2d' = Push(g2d, <<r>>)
    BY <1>10 DEF GoesOn, Resumed
  <2>2. /\ d2g # <<>> /\ d2g' = Tail(d2g) /\ id0 \in DOMAIN logics
        /\ logic_count' = logic_count
    BY <1>10 DEF GoesOn, Resumed
  <2>3. /\ DOMAIN logics' = DOMAIN logics /\ logics'[id0] = l
        /\ \A id \in DOMAIN logics \ {id0} : logics'[id] = logics[id]
    BY <2>1, <2>2
  <2>4. r.seq = id0
    BY <2>1 DEF RequestOf
  <2> HIDE DEF id0
  <2>5. Apart(g2d', jobs, d2g', {}, logic_count)
    BY <1>1, <1>8, <2>1, <2>2, <2>4, ApartSend
  <2>6. ASSUME NEW id, id = id0 PROVE LogicMeant(id)'
    BY <1>1, <1>8, <2>1, <2>2, <2>3, <2>6, LogicAsks
  <2>7. \A id \in DOMAIN logics \ {id0} : LogicMeant(id)'
    BY <1>1, <1>3, <1>8, <2>1, <2>2, <2>3, <2>4, LogicKept
  <2> QED
    BY <1>1, <2>2, <2>3, <2>5, <2>6, <2>7 DEF ExpectInv
<1> QED
  BY <1>4, <1>6, <1>7, <1>9, <1>10

LEMMA ExpectDataStep == ASSUME FrameInv, ExpectInv, DataNext, UNCHANGED gamesvr
                        PROVE  ExpectInv'
<1>1. DataInv /\ RowsStay /\ (Takes \/ Executes \/ Loses \/ Replies)
  BY DataStep DEF FrameInv
<1>2. Apart(g2d', jobs', d2g', {}, logic_count)
  BY <1>1, DataApart DEF ExpectInv
<1>3. ASSUME NEW id \in DOMAIN logics' PROVE LogicMeant(id)'
  <2> SUFFICES ASSUME NEW w, w = Want(logics[id]) PROVE Meant(id, w)'
    BY DEF LogicMeant, gamesvr
  <2>1. Meant(id, w)
    BY DEF ExpectInv, LogicMeant, gamesvr
  <2> QED
    BY <1>1, <2>1, DataMeant
<1> QED
  BY <1>2, <1>3 DEF ExpectInv, gamesvr

LEMMA ExpectStep == FrameInv /\ ExpectInv /\ [Next]_vars => ExpectInv'
<1> SUFFICES ASSUME FrameInv, ExpectInv, [Next]_vars PROVE ExpectInv'
  OBVIOUS
<1>1. UNCHANGED <<gamesvr, datasvr, g2d, d2g>> => ExpectInv'
  BY DEF gamesvr, datasvr, ExpectInv, LogicMeant, Meant, TrueTo, Verified
<1>2. CASE ConnNext /\ UNCHANGED <<gamesvr, datasvr>>
  BY <1>1, <1>2, ConnStep DEF FrameInv
<1>3. CASE GameNext /\ UNCHANGED datasvr
  BY <1>3, GameStep, ExpectGameStep
<1>4. CASE DataNext /\ UNCHANGED gamesvr
  BY <1>4, ExpectDataStep
<1>5. CASE UNCHANGED vars
  BY <1>1, <1>5 DEF vars, links
<1> QED
  BY <1>2, <1>3, <1>4, <1>5 DEF Next

LEMMA ExpectStart == Init => ExpectInv
<1> SUFFICES ASSUME Init PROVE ExpectInv
  OBVIOUS
<1>1. g2d = <<>> /\ d2g = <<>> /\ jobs = {} /\ logic_count = 0 /\ DOMAIN logics = {}
  BY DEF Init, LinksInit, GameInit, DataInit
<1> QED
  BY <1>1, EmptyQueue DEF ExpectInv, Apart, JobSeqs

\* Every answer that can still arrive for a logic is the one answer its step waits
\* for, whatever is lost, late or killed: none resumes another step, or another
\* logic.
THEOREM ExpectedOnly == Spec => []AnswersExpected
<1>1. FrameInv /\ ExpectInv => AnswersExpected
  <2> SUFFICES ASSUME FrameInv, ExpectInv, NEW id \in DOMAIN logics
               PROVE  /\ Cardinality(InFlight(id).g2d) + Cardinality(InFlight(id).d2g)
                            + Cardinality(InFlight(id).jobs) <= 1
                      /\ Cmds(id) \subseteq {Expects(logics[id])}
    BY DEF AnswersExpected
  <2> DEFINE A == {i \in DOMAIN g2d : g2d[i].seq = id}
             C == {i \in DOMAIN d2g : d2g[i].seq = id}
             B == Jobs(jobs, id)
  <2>1. InFlight(id).g2d = A /\ InFlight(id).d2g = C /\ InFlight(id).jobs = B
    BY DEF InFlight, Jobs
  <2>2. /\ Count(g2d, id) \in Nat /\ Cardinality(B) \in Nat /\ Count(d2g, id) \in Nat
        /\ Count(g2d, id) + Cardinality(B) + Count(d2g, id) <= 1
    BY OneOnTheWay DEF ExpectInv
  <2>3. Cardinality(A) = Count(g2d, id) /\ Cardinality(C) = Count(d2g, id)
    BY DEF Count
  <2> HIDE DEF A, B, C
  <2>4. Cardinality(A) + Cardinality(C) + Cardinality(B) <= 1
    BY <2>2, <2>3
  <2>5. Meant(id, Want(logics[id])) /\ Want(logics[id]).cmd = Expects(logics[id])
    BY DEF ExpectInv, LogicMeant, Want
  <2>6. Cmds(id) \subseteq {Expects(logics[id])}
    BY <2>1, <2>5 DEF A, B, C, Cmds, Meant, Wanted, Msgs, Jobs
  <2> QED
    BY <2>1, <2>4, <2>6
<1> QED
  BY <1>1, ExpectStart, ExpectStep, FrameAlways, PTL DEF Spec

-----------------------------------------------------------------------------
(* PlayerVerified *)

\* Only the last step of a login gives a player an account, that of its logic,
\* and the answer it acts on was true of it.
LEMMA LoginVerified ==
    ASSUME FrameInv, ExpectInv, ResumeLoginOk
    PROVE  Verified(logics[Resumed].uid, logics[Resumed].password_hash)
<1>1. /\ d2g # <<>> /\ Head(d2g) \in Msgs(d2g)
      /\ Resumed \in DOMAIN logics /\ Head(d2g).ret = 0
      /\ logics[Resumed].type = "LOGIN" /\ logics[Resumed].step = 2
  BY TailMsgs DEF ResumeLoginOk, FromDatasvr, Waits, FrameInv, DataInv
<1> DEFINE w == Want(logics[Resumed])
<1>2. Meant(Resumed, w) /\ w.cmd = "GET"
  BY <1>1 DEF ExpectInv, LogicMeant, Want, Expects
<1>3. w.uid = logics[Resumed].uid /\ w.pw = logics[Resumed].password_hash
  BY DEF Want
<1> HIDE DEF w
<1>4. Head(d2g).cmd = "GET" /\ TrueTo(Head(d2g), w)
  BY <1>1, <1>2 DEF Meant, Resumed
<1> QED
  BY <1>1, <1>3, <1>4 DEF TrueTo

LEMMA PlayersStep ==
    ASSUME FrameInv, ExpectInv, PlayerVerified, GameNext, NEW i \in DOMAIN players',
           players'[i].uid # 0
    PROVE  Verified(players'[i].uid, players'[i].password_hash)
<1>1. \A k \in DOMAIN players : players[k].uid # 0 =>
          Verified(players[k].uid, players[k].password_hash)
  BY DEF PlayerVerified, Verified
<1>2. CASE ConnStart
  <2>1. PICK idx : players' = With(players, idx, NewPlayer(Head(c2g).conn_fd))
    BY <1>2 DEF ConnStart
  <2> QED
    BY <1>1, <2>1 DEF With, NewPlayer
<1>3. CASE ConnStop
  BY <1>1, <1>3 DEF ConnStop, DelPlayer, Without
<1>4. CASE ResumeLoginOk
  <2> DEFINE l == logics[Resumed]
             own == players[ItsPlayer]
  <2>1. PICK new : players' = [players EXCEPT ![ItsPlayer] = LoggedIn(own, l, new)]
    BY <1>4 DEF ResumeLoginOk
  <2>2. /\ LoggedIn(own, l, new).uid = l.uid
        /\ LoggedIn(own, l, new).password_hash = l.password_hash
    BY DEF LoggedIn
  <2> QED
    BY <1>1, <1>4, <2>1, <2>2, LoginVerified
<1>5. CASE RestartWiped
  BY <1>5 DEF RestartWiped
<1>6. CASE ConnStartFull \/ ResumeLoginNoCity \/ ResumeLoginNoPlayer \/ Kill \/ Restart
  BY <1>1, <1>6 DEF ConnStartFull, ResumeLoginNoCity, ResumeLoginNoPlayer, Kill, Die, Restart
<1>7. CASE ConnProc \/ ResumeFinish \/ ResumeAnswer \/ ResumeLoginSaved
  BY <1>1, <1>7 DEF ConnProc, ResumeFinish, ResumeAnswer, ResumeLoginSaved
<1>8. CASE ResumeNoLogic \/ \E l \in 1..logic_count : OnTimer(l)
  BY <1>1, <1>8 DEF ResumeNoLogic, OnTimer, gamesvr
<1> QED
  BY <1>2, <1>3, <1>4, <1>5, <1>6, <1>7, <1>8 DEF GameNext

LEMMA VerifiedStep == FrameInv /\ ExpectInv /\ PlayerVerified /\ [Next]_vars => PlayerVerified'
<1> SUFFICES ASSUME FrameInv, ExpectInv, PlayerVerified, [Next]_vars PROVE PlayerVerified'
  OBVIOUS
<1>1. CASE GameNext /\ UNCHANGED datasvr
  BY <1>1, PlayersStep DEF PlayerVerified, Verified, datasvr
<1>2. CASE DataNext /\ UNCHANGED gamesvr
  <2>1. RowsStay
    BY <1>2, DataStep DEF FrameInv
  <2> QED
    BY <1>2, <2>1 DEF PlayerVerified, RowsStay, Verified, gamesvr
<1>3. CASE UNCHANGED <<gamesvr, datasvr>>
  BY <1>3 DEF PlayerVerified, gamesvr, datasvr
<1> QED
  BY <1>1, <1>2, <1>3 DEF Next, vars

\* A player that counts as logged in has an account whose password was given,
\* through retries, late answers, logics of other players and units used again.
THEOREM LoggedInVerified == Spec => []PlayerVerified
<1>1. Init => PlayerVerified
  BY DEF Init, GameInit, ObjectsInit, PlayerVerified
<1> QED
  BY <1>1, VerifiedStep, ExpectStart, ExpectStep, FrameAlways, PTL DEF Spec

-----------------------------------------------------------------------------
(* c2g, and the STOPs in it *)

\* The STOP of player i is in queue q; it is there before place k.
StopIn(q, i) == \E k \in DOMAIN q : q[k].cmd = "STOP" /\ q[k].player_idx = i
StopBefore(q, k, i) == \E j \in 1..k - 1 : q[j].cmd = "STOP" /\ q[j].player_idx = i

\* The queue has nothing but STARTs and STOPs, one STOP for each of some players.
StopsApart(q, P) ==
    /\ \A k \in DOMAIN q : q[k].cmd \in {"START", "STOP"}
    /\ \A k \in DOMAIN q : q[k].cmd = "STOP" => q[k].player_idx \in P
    /\ \A j, k \in DOMAIN q : /\ q[j].cmd = "STOP" /\ q[k].cmd = "STOP"
                              /\ q[j].player_idx = q[k].player_idx
                              => j = k

LEMMA TailPlaces ==
    ASSUME NEW q, Queue(q), q # <<>>
    PROVE  /\ Len(q) \in Nat /\ DOMAIN q = 1..Len(q) /\ 1 \in DOMAIN q /\ Head(q) = q[1]
           /\ DOMAIN Tail(q) = 1..Len(q) - 1
           /\ \A k \in 1..Len(q) - 1 : Tail(q)[k] = q[k + 1]
<1>1. PICK S : q \in Seq(S)
  BY DEF Queue, IsSeq
<1>2. 1 \in 0..Len(q) /\ Tail(q) = SubSeq(q, 1 + 1, Len(q)) /\ 1 \in DOMAIN q
  BY <1>1
<1>3. /\ DOMAIN SubSeq(q, 1 + 1, Len(q)) = 1..Len(q) - 1
      /\ \A k \in 1..Len(q) - 1 : SubSeq(q, 1 + 1, Len(q))[k] = q[k + 1]
  BY <1>1, <1>2, Suffix
<1> QED
  BY <1>1, <1>2, <1>3

LEMMA AppendPlaces ==
    ASSUME NEW q, Queue(q), NEW m
    PROVE  /\ Len(q) \in Nat /\ DOMAIN q = 1..Len(q)
           /\ DOMAIN Append(q, m) = 1..Len(q) + 1
           /\ \A k \in 1..Len(q) : Append(q, m)[k] = q[k]
           /\ Append(q, m)[Len(q) + 1] = m
<1>1. PICK S : q \in Seq(S)
  BY DEF Queue, IsSeq
<1>2. q \in Seq(S \cup {m})
  BY <1>1
<1> QED
  BY <1>2

\* The first message is taken: the STOPs of others stay where they were.
LEMMA StopInTail ==
    ASSUME NEW q, Queue(q), q # <<>>, NEW i,
           Head(q).cmd # "STOP" \/ Head(q).player_idx # i
    PROVE  /\ StopIn(Tail(q), i) <=> StopIn(q, i)
           /\ \A k \in DOMAIN Tail(q) : StopBefore(q, k + 1, i) => StopBefore(Tail(q), k, i)
<1> DEFINE r == Tail(q)
           n == Len(q)
<1>1. /\ n \in Nat /\ DOMAIN q = 1..n /\ 1 \in DOMAIN q /\ Head(q) = q[1]
      /\ DOMAIN r = 1..n - 1 /\ \A k \in 1..n - 1 : r[k] = q[k + 1]
  BY TailPlaces
<1> HIDE DEF r, n
<1>2. ASSUME NEW k \in 2..n, q[k].cmd = "STOP", q[k].player_idx = i
      PROVE  k - 1 \in 1..n - 1 /\ r[k - 1].cmd = "STOP" /\ r[k - 1].player_idx = i
  <2>1. k - 1 \in 1..n - 1 /\ (k - 1) + 1 = k
    BY <1>1
  <2>2. r[k - 1] = q[k]
    BY <1>1, <2>1
  <2> QED
    BY <1>2, <2>1, <2>2
<1>3. ASSUME NEW k \in DOMAIN q, q[k].cmd = "STOP", q[k].player_idx = i
      PROVE  k \in 2..n
  <2>1. k # 1
    BY <1>1, <1>3
  <2> QED
    BY <1>1, <2>1
<1>4. StopIn(q, i) => StopIn(r, i)
  BY <1>1, <1>2, <1>3 DEF StopIn
<1>5. StopIn(r, i) => StopIn(q, i)
  <2> SUFFICES ASSUME NEW k \in 1..n - 1, r[k].cmd = "STOP", r[k].player_idx = i
               PROVE  StopIn(q, i)
    BY <1>1 DEF StopIn
  <2>1. k + 1 \in 1..n
    BY <1>1
  <2> QED
    BY <1>1, <2>1 DEF StopIn
<1>6. ASSUME NEW k \in DOMAIN r, StopBefore(q, k + 1, i) PROVE StopBefore(r, k, i)
  <2>1. PICK j \in 1..(k + 1) - 1 : q[j].cmd = "STOP" /\ q[j].player_idx = i
    BY <1>6 DEF StopBefore
  <2>2. k \in Nat /\ k <= n - 1
    BY <1>1
  <2>3. j \in DOMAIN q /\ j <= k
    BY <1>1, <2>2
  <2>4. j \in 2..n
    BY <1>3, <2>1, <2>3
  <2>5. j - 1 \in 1..k - 1
    BY <1>1, <2>2, <2>3, <2>4
  <2> QED
    BY <1>2, <2>1, <2>4, <2>5 DEF StopBefore
<1> QED
  BY <1>4, <1>5, <1>6 DEF r

LEMMA StopInAppend ==
    ASSUME NEW q, Queue(q), NEW m, NEW i
    PROVE  /\ StopIn(Append(q, m), i)
                <=> StopIn(q, i) \/ (m.cmd = "STOP" /\ m.player_idx = i)
           /\ \A k \in DOMAIN q : StopBefore(q, k, i) => StopBefore(Append(q, m), k, i)
           /\ StopIn(q, i) => StopBefore(Append(q, m), Len(q) + 1, i)
<1> DEFINE r == Append(q, m)
           n == Len(q)
<1>1. /\ n \in Nat /\ DOMAIN q = 1..n /\ DOMAIN r = 1..n + 1
      /\ \A k \in 1..n : r[k] = q[k]
      /\ r[n + 1] = m
  BY AppendPlaces
<1> HIDE DEF r, n
<1>2. DOMAIN r = DOMAIN q \cup {n + 1} /\ (n + 1) - 1 = n
  BY <1>1
<1>3. StopIn(r, i) <=> StopIn(q, i) \/ (m.cmd = "STOP" /\ m.player_idx = i)
  BY <1>1, <1>2 DEF StopIn
<1>4. ASSUME NEW k \in DOMAIN q, StopBefore(q, k, i) PROVE StopBefore(r, k, i)
  <2>1. 1..k - 1 \subseteq 1..n
    BY <1>1
  <2> QED
    BY <1>1, <1>4, <2>1 DEF StopBefore
<1>5. StopIn(q, i) => StopBefore(r, n + 1, i)
  BY <1>1, <1>2 DEF StopIn, StopBefore
<1> QED
  BY <1>3, <1>4, <1>5 DEF r, n

LEMMA StopsApartTail ==
    ASSUME NEW q, Queue(q), q # <<>>, NEW P, StopsApart(q, P)
    PROVE  /\ StopsApart(Tail(q), P)
           /\ Head(q).cmd = "STOP" =>
                  /\ Head(q).player_idx \in P
                  /\ StopsApart(Tail(q), P \ {Head(q).player_idx})
           /\ Head(q).cmd \in {"START", "STOP"}
<1> DEFINE r == Tail(q)
           n == Len(q)
<1>1. /\ n \in Nat /\ DOMAIN q = 1..n /\ 1 \in DOMAIN q /\ Head(q) = q[1]
      /\ DOMAIN r = 1..n - 1 /\ \A k \in 1..n - 1 : r[k] = q[k + 1]
  BY TailPlaces
<1> HIDE DEF r, n
<1>2. \A k \in DOMAIN r : k \in Int /\ k + 1 \in DOMAIN q /\ k + 1 # 1 /\ r[k] = q[k + 1]
  BY <1>1
<1>3. \A j, k \in DOMAIN r : j + 1 = k + 1 => j = k
  BY <1>2
<1>4. StopsApart(r, P)
  BY <1>2, <1>3 DEF StopsApart
<1>5. ASSUME Head(q).cmd = "STOP"
      PROVE  Head(q).player_idx \in P /\ StopsApart(r, P \ {Head(q).player_idx})
  <2>1. \A k \in DOMAIN r : r[k].cmd = "STOP" => r[k].player_idx # Head(q).player_idx
    BY <1>1, <1>2, <1>5 DEF StopsApart
  <2> QED
    BY <1>1, <1>4, <1>5, <2>1 DEF StopsApart
<1>6. Head(q).cmd \in {"START", "STOP"}
  BY <1>1 DEF StopsApart
<1> QED
  BY <1>4, <1>5, <1>6 DEF r

LEMMA StopsApartAppend ==
    ASSUME NEW q, Queue(q), NEW P, StopsApart(q, P), NEW m, m.cmd \in {"START", "STOP"},
           m.cmd = "STOP" => m.player_idx \in P /\ ~StopIn(q, m.player_idx)
    PROVE  StopsApart(Append(q, m), P)
<1> DEFINE r == Append(q, m)
           n == Len(q)
<1>1. /\ n \in Nat /\ DOMAIN q = 1..n /\ DOMAIN r = 1..n + 1
      /\ \A k \in 1..n : r[k] = q[k]
      /\ r[n + 1] = m
  BY AppendPlaces
<1> HIDE DEF r, n
<1>2. DOMAIN r = DOMAIN q \cup {n + 1}
  BY <1>1
<1>3. StopsApart(r, P)
  BY <1>1, <1>2 DEF StopsApart, StopIn
<1> QED
  BY <1>3 DEF r

-----------------------------------------------------------------------------
(* Patience: what is true of the sessions of clients like tcpclient *)

\* Player i is in use, and its STOP is not on its way; request s is the one of the
\* connection on fd.
Live(i) == i \in DOMAIN players /\ ~StopIn(c2g, i)
Of(s, fd) == s \in Seqs /\ fd \in DOMAIN conn_map /\ conn_map[fd].conn = asked[s].conn

\* Each connection has one request, and those that are open have different
\* accounts.
AskInv ==
    /\ \A s \in Seqs : asked[s].conn \in 1..accepted
    /\ \A s, t \in Seqs : asked[s].conn = asked[t].conn => s = t
    /\ \A s, t \in Seqs : \A f, g : Of(s, f) /\ Of(t, g)
          /\ asked[s].body.uid = asked[t].body.uid => s = t
\* What was delivered was answered, and to its own client.
DeliverInv ==
    /\ \A d \in delivered : answered[d[2]] # 0 /\ asked[d[2]].conn = d[1]
    /\ \A m \in Msgs(g2c) : m.seq # 0 => answered[m.seq] # 0
\* A START is for an open connection; a player that has its descriptor or its
\* account has a STOP in front of it.
Meets(m, i) == players[i].conn_fd = m.conn_fd \/ players[i].uid = asked[m.seq].body.uid
StartInv ==
    \A k \in DOMAIN c2g : c2g[k].cmd = "START" =>
        /\ Of(c2g[k].seq, c2g[k].conn_fd)
        /\ \A i \in DOMAIN players : Meets(c2g[k], i) => StopBefore(c2g, k, i)
QueueInv == StopsApart(c2g, DOMAIN players)
\* Each player has a descriptor of its own; the one of a live player is open, and
\* its connection knows no other player.
PlayerInv ==
    /\ \A i \in DOMAIN players : players[i].conn_fd \in Fds
    /\ \A i, j \in DOMAIN players : players[i].conn_fd = players[j].conn_fd => i = j
    /\ \A i : Live(i) =>
          \E s \in Seqs : /\ Of(s, players[i].conn_fd)
                          /\ players[i].uid \in {0, asked[s].body.uid}
                          /\ conn_map[players[i].conn_fd].player_idx \in {0, i}
\* A connection that has an answer knows a player, and that one is live.
IsConn(c) == c = [player_idx |-> c.player_idx, conn |-> c.conn]
KnownInv ==
    \A fd \in DOMAIN conn_map :
        /\ IsConn(conn_map[fd])
        /\ \A s \in Seqs : <<conn_map[fd].conn, s>> \in delivered => conn_map[fd].player_idx # 0
        /\ conn_map[fd].player_idx # 0 =>
              Live(conn_map[fd].player_idx) /\ players[conn_map[fd].player_idx].conn_fd = fd
\* What gamesvr sends is from live players to their own connections.
Told(m) == /\ m.cmd \in {"START", "PROC"}
           /\ Live(m.player_idx) /\ players[m.player_idx].conn_fd = m.conn_fd
           /\ m.seq # 0 => Of(m.seq, m.conn_fd)
ToldInv == \A m \in Msgs(g2c) : Told(m)
\* A logic that will answer is a live player's that has no account yet.
Answers(l) == /\ l.type = "REG" \/ (l.type = "LOGIN" /\ l.step = 2)
              /\ Live(l.player_idx)
              /\ Of(l.seq, players[l.player_idx].conn_fd)
              /\ l.uid = asked[l.seq].body.uid
              /\ players[l.player_idx].uid = 0
LogicInv == \A id \in DOMAIN logics : logics[id].type # "UPDATE_PLAYER" => Answers(logics[id])
\* The map leads to players that have the account.
MapInv ==
    \A u \in DOMAIN uid_to_player_idx_map :
        /\ uid_to_player_idx_map[u] \in DOMAIN players
        /\ players[uid_to_player_idx_map[u]].uid = u /\ u # 0

Patience == /\ AskInv /\ DeliverInv /\ StartInv /\ QueueInv /\ PlayerInv
            /\ KnownInv /\ ToldInv /\ LogicInv /\ MapInv
Base == FrameInv /\ OnceInv /\ ConnsApart

\* One descriptor for a request, and one request for a descriptor.
OneEach == /\ \A s, f, g : Of(s, f) /\ Of(s, g) => f = g
           /\ \A s, t, f : Of(s, f) /\ Of(t, f) => s = t
           /\ \A s, f : Of(s, f) => s # 0 /\ s \in Seqs /\ f \in Fds /\ f \in DOMAIN conn_map

LEMMA OneRequest == ASSUME Base, Patience PROVE OneEach
<1>1. \A s, f, g : Of(s, f) /\ Of(s, g) => f = g
  BY DEF Base, ConnsApart, Of
<1>2. \A s, t, f : Of(s, f) /\ Of(t, f) => s = t
  BY DEF Patience, AskInv, Of
<1>3. \A s \in Seqs : s # 0
  BY DEF Seqs
<1>4. \A s, f : Of(s, f) => s # 0 /\ s \in Seqs /\ f \in Fds /\ f \in DOMAIN conn_map
  BY <1>3 DEF Base, FrameInv, ConnTypeOK, Of
<1> QED
  BY <1>1, <1>2, <1>4 DEF OneEach

\* A request that is on its way, or a logic's, has no answer, and is nowhere else.
PendingOnce ==
    /\ \A k \in DOMAIN c2g : c2g[k].seq # 0 => answered[c2g[k].seq] = 0
    /\ \A j, k \in DOMAIN c2g : c2g[j].seq = c2g[k].seq /\ c2g[j].seq # 0 => j = k
    /\ \A id \in DOMAIN logics : logics[id].seq # 0 =>
          /\ answered[logics[id].seq] = 0
          /\ \A k \in DOMAIN c2g : c2g[k].seq # logics[id].seq
    /\ \A id, x \in DOMAIN logics : logics[id].seq = logics[x].seq /\ logics[id].seq # 0 => id = x

LEMMA OnePlace == ASSUME OnceInv PROVE PendingOnce
<1> DEFINE W == Pending(logics)
<1>1. Once(c2g, W, answered)
  BY DEF OnceInv
<1>2. \A k \in DOMAIN c2g : c2g[k].seq \in SeqsOf(c2g)
  BY DEF SeqsOf, Msgs
<1>3. \A id \in DOMAIN logics : <<id, logics[id].seq>> \in W
  BY DEF Pending
<1> HIDE DEF W
<1>4. \A k \in DOMAIN c2g : c2g[k].seq # 0 => answered[c2g[k].seq] = 0
  BY <1>1, <1>2 DEF Once
<1>5. \A j, k \in DOMAIN c2g : c2g[j].seq = c2g[k].seq /\ c2g[j].seq # 0 => j = k
  BY <1>1 DEF Once, Distinct
<1>6. ASSUME NEW id \in DOMAIN logics, logics[id].seq # 0
      PROVE  /\ answered[logics[id].seq] = 0
             /\ \A k \in DOMAIN c2g : c2g[k].seq # logics[id].seq
  <2>1. <<id, logics[id].seq>>[2] = logics[id].seq
    OBVIOUS
  <2> QED
    BY <1>1, <1>2, <1>3, <1>6, <2>1 DEF Once
<1>7. ASSUME NEW id \in DOMAIN logics, NEW x \in DOMAIN logics,
             logics[id].seq = logics[x].seq, logics[id].seq # 0
      PROVE  id = x
  <2>1. <<id, logics[id].seq>>[2] = logics[id].seq /\ <<x, logics[x].seq>>[2] = logics[x].seq
    OBVIOUS
  <2>2. <<id, logics[id].seq>> = <<x, logics[x].seq>>
    BY <1>1, <1>3, <1>7, <2>1 DEF Once
  <2> QED
    BY <2>2
<1> QED
  BY <1>4, <1>5, <1>6, <1>7 DEF PendingOnce

-----------------------------------------------------------------------------
(* Patience: the steps of connsvr *)

\* Requests are added, and descriptors opened or closed that have none; no session
\* is touched.
AskedStay == /\ Seqs \subseteq Seqs'
             /\ \A s \in Seqs : asked'[s] = asked[s] /\ answered'[s] = answered[s]
ConnsStay ==
    /\ \A s \in Seqs : \A f : Of(s, f)' <=> Of(s, f)
    /\ \A s \in Seqs : \A f : Of(s, f) => conn_map'[f] = conn_map[f]
    /\ \A f \in DOMAIN conn_map' :
          \/ f \in DOMAIN conn_map /\ conn_map'[f] = conn_map[f]
          \/ /\ conn_map'[f].player_idx = 0 /\ IsConn(conn_map'[f])
             /\ \A s \in Seqs : asked[s].conn # conn_map'[f].conn
Aside == /\ UNCHANGED <<gamesvr, g2c, delivered>> /\ AskedStay /\ ConnsStay
         /\ \/ UNCHANGED c2g
            \/ \E m : m.cmd = "START" /\ c2g' = Append(c2g, m)

LEMMA AsideStep ==
    ASSUME Base, Patience, Aside
    PROVE  (DeliverInv /\ QueueInv /\ PlayerInv /\ KnownInv /\ ToldInv /\ LogicInv /\ MapInv)'
<1>1. Queue(c2g)
  BY DEF Base, FrameInv, SessionInv
<1>2. UNCHANGED <<players, logics, uid_to_player_idx_map, g2c, delivered>> /\ AskedStay /\ ConnsStay
  BY DEF Aside, gamesvr
<1>3. \A i : StopIn(c2g', i) <=> StopIn(c2g, i)
  <2> TAKE i
  <2>1. CASE UNCHANGED c2g
    BY <2>1
  <2>2. ASSUME NEW m, m.cmd = "START", c2g' = Append(c2g, m)
        PROVE  StopIn(c2g', i) <=> StopIn(c2g, i)
    BY <1>1, <2>2, StopInAppend
  <2> QED
    BY <2>1, <2>2 DEF Aside
<1>4. \A i : Live(i)' <=> Live(i)
  BY <1>2, <1>3 DEF Live
<1>5. OneEach
  BY OneRequest
<1>6. DeliverInv'
  <2>1. \A d \in delivered : d[2] \in Seqs
    BY DEF Base, FrameInv, ConnTypeOK
  <2>2. \A m \in Msgs(g2c) : m.seq # 0 => m.seq \in Seqs
    BY DEF Base, FrameInv, SessionInv, AnswerMsg, Seqs
  <2> QED
    BY <1>2, <2>1, <2>2 DEF Patience, DeliverInv, AskedStay
<1>7. QueueInv'
  <2>1. CASE UNCHANGED c2g
    BY <1>2, <2>1 DEF Patience, QueueInv
  <2>2. ASSUME NEW m, m.cmd = "START", c2g' = Append(c2g, m) PROVE QueueInv'
    BY <1>1, <1>2, <2>2, StopsApartAppend DEF Patience, QueueInv
  <2> QED
    BY <2>1, <2>2 DEF Aside
<1>8. PlayerInv'
  <2>1. ASSUME NEW i, Live(i)'
        PROVE  \E s \in Seqs' : /\ Of(s, players[i].conn_fd)'
                                /\ players[i].uid \in {0, asked'[s].body.uid}
                                /\ conn_map'[players[i].conn_fd].player_idx \in {0, i}
    BY <1>2, <1>4, <2>1 DEF Patience, PlayerInv, AskedStay, ConnsStay
  <2> QED
    BY <1>2, <2>1 DEF Patience, PlayerInv
<1>9. KnownInv'
  <2> SUFFICES ASSUME NEW f \in DOMAIN conn_map'
               PROVE  /\ IsConn(conn_map'[f])
                      /\ \A s \in Seqs' : <<conn_map'[f].conn, s>> \in delivered
                             => conn_map'[f].player_idx # 0
                      /\ conn_map'[f].player_idx # 0 =>
                            /\ Live(conn_map[f].player_idx)'
                            /\ players[conn_map'[f].player_idx].conn_fd = f
    BY <1>2 DEF KnownInv
  <2>1. CASE f \in DOMAIN conn_map /\ conn_map'[f] = conn_map[f]
    <3>1. \A c, s : <<c, s>> \in delivered => s \in Seqs
      BY DEF Base, FrameInv, ConnTypeOK
    <3> QED
      BY <1>4, <2>1, <3>1 DEF Patience, KnownInv
  <2>2. CASE /\ conn_map'[f].player_idx = 0 /\ IsConn(conn_map'[f])
             /\ \A s \in Seqs : asked[s].conn # conn_map'[f].conn
    <3>1. \A c, s : <<c, s>> \in delivered => s \in Seqs /\ asked[s].conn = c
      <4> SUFFICES ASSUME NEW c, NEW s, <<c, s>> \in delivered
                   PROVE  s \in Seqs /\ asked[s].conn = c
        OBVIOUS
      <4>1. <<c, s>>[2] = s /\ <<c, s>>[1] = c
        OBVIOUS
      <4> QED
        BY <4>1 DEF Base, FrameInv, ConnTypeOK, Patience, DeliverInv
    <3> QED
      BY <2>2, <3>1
  <2> QED
    BY <1>2, <2>1, <2>2 DEF ConnsStay
<1>10. ToldInv'
  <2>1. \A m \in Msgs(g2c) : Told(m)'
    BY <1>2, <1>4, <1>5 DEF Patience, ToldInv, Told, ConnsStay, OneEach
  <2> QED
    BY <1>2, <2>1 DEF ToldInv
<1>11. LogicInv'
  <2>1. \A l : Answers(l) => Answers(l)'
    BY <1>2, <1>4, <1>5 DEF Answers, ConnsStay, AskedStay, OneEach
  <2> QED
    BY <1>2, <2>1 DEF Patience, LogicInv
<1>12. MapInv'
  BY <1>2 DEF Patience, MapInv
<1> QED
  BY <1>6, <1>7, <1>8, <1>9, <1>10, <1>11, <1>12

\* When no request is added and no message, the STARTs are as they were, and the
\* requests too.
LEMMA AsideQuiet ==
    ASSUME Base, Patience, Aside, UNCHANGED <<c2g, asked>>, accepted' \in Nat, accepted <= accepted'
    PROVE  Patience'
<1>1. OneEach /\ UNCHANGED players /\ ConnsStay /\ Seqs' = Seqs
  BY OneRequest DEF Aside, gamesvr, Seqs
<1>2. AskInv'
  <2>1. \A s \in Seqs : asked[s].conn \in 1..accepted'
    <3>1. accepted \in Nat /\ 1..accepted \subseteq 1..accepted'
      BY DEF Base, ConnsApart
    <3> QED
      BY <3>1 DEF Patience, AskInv
  <2>2. \A s, f : Of(s, f)' => Of(s, f)
    BY <1>1 DEF ConnsStay, Of
  <2> QED
    BY <1>1, <2>1, <2>2 DEF Patience, AskInv
<1>3. StartInv'
  <2>1. \A s, f : Of(s, f) => Of(s, f)'
    BY <1>1 DEF ConnsStay, OneEach
  <2>2. \A m, i : Meets(m, i)' <=> Meets(m, i)
    BY <1>1 DEF Meets
  <2> QED
    BY <1>1, <2>1, <2>2 DEF Patience, StartInv, StopBefore
<1> QED
  BY <1>2, <1>3, AsideStep DEF Patience

\* A connection without a request has no player, and none has its descriptor but
\* those whose STOP is on its way.
NoRequest(fd) == \A s \in Seqs : asked[s].conn # conn_map[fd].conn

LEMMA NoSession ==
    ASSUME Base, Patience, NEW fd \in DOMAIN conn_map, NoRequest(fd)
    PROVE  /\ conn_map[fd].player_idx = 0
           /\ \A s : ~Of(s, fd)
           /\ \A i : Live(i) => players[i].conn_fd # fd
<1>1. \A s : ~Of(s, fd)
  BY DEF NoRequest, Of
<1>2. \A i : Live(i) => players[i].conn_fd # fd
  BY <1>1 DEF Patience, PlayerInv
<1>3. conn_map[fd].player_idx = 0
  BY <1>2 DEF Patience, KnownInv
<1> QED
  BY <1>1, <1>2, <1>3

LEMMA AcceptStep ==
    ASSUME Base, Patience, NEW fd \in Fds, DoTcpAccept(fd), UNCHANGED gamesvr
    PROVE  Patience'
<1>1. /\ fd \notin DOMAIN conn_map
      /\ accepted' = accepted + 1 /\ UNCHANGED <<links, delivered>>
      /\ DOMAIN conn_map' = DOMAIN conn_map \cup {fd}
      /\ conn_map'[fd].conn = accepted + 1 /\ conn_map'[fd].player_idx = 0
      /\ IsConn(conn_map'[fd])
      /\ \A f \in DOMAIN conn_map : conn_map'[f] = conn_map[f]
  BY DEF DoTcpAccept, IsConn
<1>2. accepted \in Nat /\ \A s \in Seqs : asked[s].conn # accepted + 1
  BY DEF Base, ConnsApart, Patience, AskInv
<1>3. AskedStay /\ UNCHANGED <<c2g, asked, g2c>>
  BY <1>1 DEF AskedStay, links, Seqs
<1>4. ConnsStay
  BY <1>1, <1>2, <1>3 DEF ConnsStay, Of, Seqs
<1>5. Aside
  BY <1>1, <1>3, <1>4 DEF Aside
<1>6. accepted' \in Nat /\ accepted <= accepted'
  BY <1>1, <1>2
<1> QED
  BY <1>3, <1>5, <1>6, AsideQuiet

\* A connection that has no request closes.
LEMMA CloseStep ==
    ASSUME Base, Patience, NEW fd \in DOMAIN conn_map, NoRequest(fd), ReleaseConn(fd),
           UNCHANGED <<links, accepted, delivered, gamesvr>>
    PROVE  Patience'
<1>1. /\ DOMAIN conn_map' = DOMAIN conn_map \ {fd}
      /\ \A f \in DOMAIN conn_map' : conn_map'[f] = conn_map[f]
  BY DEF ReleaseConn
<1>2. AskedStay /\ UNCHANGED <<c2g, asked, g2c>>
  BY DEF AskedStay, links, Seqs
<1>3. \A s : ~Of(s, fd)
  BY NoSession
<1>4. ConnsStay
  BY <1>1, <1>2, <1>3 DEF ConnsStay, Of, Seqs
<1>5. Aside
  BY <1>2, <1>4 DEF Aside
<1>6. accepted' \in Nat /\ accepted <= accepted'
  BY DEF Base, ConnsApart
<1> QED
  BY <1>2, <1>5, <1>6, AsideQuiet

\* The first request of a connection: a START, or, when c2g is full, the end.
LEMMA RequestStays ==
    ASSUME Base, NEW r, asked' = Append(asked, r), answered' = Append(answered, 0)
    PROVE  /\ Len(asked) \in Nat /\ Seqs' = Seqs \cup {Len(asked) + 1}
           /\ Len(asked) + 1 \notin Seqs /\ asked'[Len(asked) + 1] = r
           /\ AskedStay
<1> DEFINE n == Len(asked)
<1>1. PICK S, T : asked \in Seq(S) /\ answered \in Seq(T) /\ Len(answered) = n
  BY DEF Base, FrameInv, SessionInv
<1>2. n \in Nat /\ asked \in Seq(S \cup {r}) /\ answered \in Seq(T \cup {0})
  BY <1>1
<1>3. /\ Len(asked') = n + 1 /\ asked'[n + 1] = r
      /\ \A s \in 1..n : asked'[s] = asked[s] /\ answered'[s] = answered[s]
  BY <1>1, <1>2
<1> HIDE DEF n
<1>4. Seqs = 1..n /\ Seqs' = 1..n + 1
  BY <1>3 DEF Seqs, n
<1>5. Seqs' = Seqs \cup {n + 1} /\ n + 1 \notin Seqs
  BY <1>2, <1>4
<1> QED
  BY <1>2, <1>3, <1>4, <1>5 DEF AskedStay, n

LEMMA AskStep ==
    ASSUME Base, Patience, PatientClients, UNCHANGED gamesvr,
           NEW fd \in Fds, NEW body \in Bodies, DoTcpRead(fd, body)
    PROVE  Patience'
<1>0. PICK n : n = Len(asked) + 1
  OBVIOUS
<1> DEFINE c == conn_map[fd]
           r == [conn |-> c.conn, body |-> body]
           m == ToGame("START", fd, 0, n, c.conn)
<1>1. /\ fd \in DOMAIN conn_map /\ MaySend(c.conn, body)
      /\ asked' = Append(asked, r) /\ answered' = Append(answered, 0)
      /\ UNCHANGED <<accepted, delivered, g2c>>
  BY DEF DoTcpRead
<1>2. "again" \notin Faults /\ "shared" \notin Faults
  BY DEF PatientClients
<1>3. NoRequest(fd)
  BY <1>1, <1>2 DEF MaySend, Asked, NoRequest
<1>4. /\ c.player_idx = 0
      /\ \A s : ~Of(s, fd)
      /\ \A i : Live(i) => players[i].conn_fd # fd
  BY <1>1, <1>3, NoSession
<1>5. \A s, f : Of(s, f) => asked[s].body.uid # body.uid
  <2> SUFFICES ASSUME NEW s, NEW f, Of(s, f), asked[s].body.uid = body.uid PROVE FALSE
    OBVIOUS
  <2>1. asked[s].conn = c.conn \/ ~Open(asked[s].conn)
    BY <1>1, <1>2 DEF MaySend, Of
  <2> QED
    BY <1>3, <2>1 DEF NoRequest, Open, Of
<1>6. IF Len(c2g) < Hwm THEN c2g' = Append(c2g, m) /\ UNCHANGED conn_map
      ELSE ReleaseConn(fd) /\ UNCHANGED c2g
  BY <1>0, <1>4 DEF DoTcpRead
<1>7. /\ Seqs' = Seqs \cup {n} /\ n \notin Seqs /\ asked'[n] = r /\ AskedStay
  BY <1>0, <1>1, RequestStays
<1>8. /\ m.cmd = "START" /\ m.seq = n /\ m.conn_fd = fd /\ r.conn = c.conn /\ r.body = body
  BY DEF ToGame
<1> HIDE DEF m, r
<1>9. /\ DOMAIN conn_map' \subseteq DOMAIN conn_map
      /\ \A f \in DOMAIN conn_map' : conn_map'[f] = conn_map[f]
      /\ \A f \in DOMAIN conn_map \ {fd} : f \in DOMAIN conn_map'
      /\ Len(c2g) < Hwm => fd \in DOMAIN conn_map'
  BY <1>1, <1>6 DEF ReleaseConn
<1>10. ConnsStay
  <2>1. \A s \in Seqs : \A f : Of(s, f) => f # fd
    BY <1>4
  <2>2. \A s \in Seqs : \A f : Of(s, f)' <=> Of(s, f)
    BY <1>7, <1>9, <2>1 DEF Of, AskedStay
  <2>3. \A s \in Seqs : \A f : Of(s, f) => conn_map'[f] = conn_map[f]
    BY <1>9, <2>1 DEF Of
  <2> QED
    BY <1>9, <2>2, <2>3 DEF ConnsStay
<1>11. Aside
  BY <1>1, <1>6, <1>7, <1>8, <1>10 DEF Aside
<1>12. Len(c2g) < Hwm => Of(n, fd)'
  BY <1>1, <1>7, <1>8, <1>9 DEF Of
<1>13. AskInv'
  <2>1. \A s \in Seqs' : asked'[s].conn \in 1..accepted'
    <3>1. c.conn \in 1..accepted /\ \A s \in Seqs : asked[s].conn \in 1..accepted
      BY <1>1 DEF Patience, AskInv, Base, ConnsApart
    <3> HIDE DEF c
    <3>2. asked'[n].conn \in 1..accepted
      BY <1>7, <1>8, <3>1
    <3>3. \A s \in Seqs : asked'[s].conn \in 1..accepted
      BY <1>7, <3>1 DEF AskedStay
    <3> QED
      BY <1>1, <1>7, <3>2, <3>3
  <2>2. \A s, t \in Seqs' : asked'[s].conn = asked'[t].conn => s = t
    BY <1>3, <1>7, <1>8 DEF Patience, AskInv, AskedStay, NoRequest
  <2>3. ASSUME NEW s \in Seqs', NEW t \in Seqs', NEW f, NEW g, Of(s, f)', Of(t, g)',
               asked'[s].body.uid = asked'[t].body.uid
        PROVE  s = t
    <3>1. ASSUME NEW x \in Seqs, NEW h, Of(x, h)'
          PROVE  Of(x, h) /\ asked'[x].body.uid # body.uid
      BY <1>5, <1>7, <1>10, <3>1 DEF ConnsStay, AskedStay
    <3>2. CASE s \in Seqs /\ t \in Seqs
      BY <1>7, <2>3, <3>1, <3>2 DEF Patience, AskInv, AskedStay
    <3>3. CASE s \in Seqs /\ t = n
      BY <1>7, <1>8, <2>3, <3>1, <3>3
    <3>4. CASE s = n /\ t \in Seqs
      BY <1>7, <1>8, <2>3, <3>1, <3>4
    <3> QED
      BY <1>7, <3>2, <3>3, <3>4
  <2> QED
    BY <2>1, <2>2, <2>3 DEF AskInv
<1>14. StartInv'
  <2>1. Queue(c2g) /\ UNCHANGED players
    BY DEF Base, FrameInv, SessionInv, gamesvr
  <2>2. \A k \in DOMAIN c2g : c2g[k].cmd = "START" => Of(c2g[k].seq, c2g[k].conn_fd)
    BY DEF Patience, StartInv
  <2>3. ASSUME NEW k \in DOMAIN c2g, c2g[k].cmd = "START", NEW x, x = c2g[k]
        PROVE  /\ Of(x.seq, x.conn_fd)'
               /\ \A i \in DOMAIN players : Meets(x, i)' => StopBefore(c2g, k, i)
    <3>1. /\ Of(x.seq, x.conn_fd)
          /\ \A i \in DOMAIN players : Meets(x, i) => StopBefore(c2g, k, i)
      BY <2>3 DEF Patience, StartInv
    <3>2. x.seq \in Seqs
      BY <3>1 DEF Of
    <3>3. \A i : Meets(x, i)' <=> Meets(x, i)
      BY <1>7, <2>1, <3>2 DEF AskedStay, Meets
    <3> QED
      BY <1>10, <3>1, <3>2, <3>3 DEF ConnsStay
  <2>4. CASE UNCHANGED c2g
    <3> SUFFICES ASSUME NEW k \in DOMAIN c2g, NEW x, x = c2g[k], x.cmd = "START"
                 PROVE  /\ Of(x.seq, x.conn_fd)'
                        /\ \A i \in DOMAIN players : Meets(x, i)' => StopBefore(c2g, k, i)
      BY <2>1, <2>4 DEF StartInv
    <3> QED
      BY <2>3
  <2>5. CASE Len(c2g) < Hwm /\ c2g' = Append(c2g, m)
    <3>1. /\ Len(c2g) \in Nat /\ DOMAIN c2g = 1..Len(c2g)
          /\ DOMAIN c2g' = 1..Len(c2g) + 1
          /\ \A k \in 1..Len(c2g) : c2g'[k] = c2g[k]
          /\ c2g'[Len(c2g) + 1] = m
      BY <2>1, <2>5, AppendPlaces
    <3>2. /\ \A i : \A k \in DOMAIN c2g : StopBefore(c2g, k, i) => StopBefore(c2g', k, i)
          /\ \A i : StopIn(c2g, i) => StopBefore(c2g', Len(c2g) + 1, i)
      BY <2>1, <2>5, StopInAppend
    <3> SUFFICES ASSUME NEW k \in DOMAIN c2g', NEW x, x = c2g'[k], x.cmd = "START"
                 PROVE  /\ Of(x.seq, x.conn_fd)'
                        /\ \A i \in DOMAIN players : Meets(x, i)' => StopBefore(c2g', k, i)
      BY <2>1 DEF StartInv
    <3>3. CASE k \in DOMAIN c2g
      BY <2>3, <3>1, <3>2, <3>3
    <3>4. CASE k = Len(c2g) + 1
      <4>1. x = m
        BY <3>1, <3>4
      <4>2. Of(x.seq, x.conn_fd)'
        BY <1>8, <1>12, <2>5, <4>1
      <4>3. ASSUME NEW i \in DOMAIN players, Meets(x, i)' PROVE StopIn(c2g, i)
        <5> SUFFICES ASSUME Live(i) PROVE FALSE
          BY DEF Live
        <5>1. players[i].conn_fd = fd \/ players[i].uid = body.uid
          BY <1>7, <1>8, <2>1, <4>1, <4>3 DEF Meets
        <5>2. players[i].conn_fd # fd
          BY <1>4
        <5>3. PICK s \in Seqs : /\ Of(s, players[i].conn_fd)
                                /\ players[i].uid \in {0, asked[s].body.uid}
          BY DEF Patience, PlayerInv
        <5>4. body.uid # 0
          BY LinksAssumption DEF Body
        <5> QED
          BY <1>5, <5>1, <5>2, <5>3, <5>4
      <4> QED
        BY <3>2, <3>4, <4>2, <4>3
    <3>5. k \in DOMAIN c2g \/ k = Len(c2g) + 1
      BY <3>1
    <3> QED
      BY <3>3, <3>4, <3>5
  <2> QED
    BY <1>6, <2>4, <2>5
<1> QED
  BY <1>11, <1>13, <1>14, AsideStep DEF Patience

\* Each message of c2g has a place of its own: one for the START of each descriptor
\* and one for the STOP of its player.
Place(m) == IF m.cmd = "START" THEN 2 * m.conn_fd
            ELSE 2 * players[m.player_idx].conn_fd - 1

LEMMA EvenOrOdd == \A a, b \in Int : /\ 2 * a # 2 * b - 1
                                     /\ 2 * a = 2 * b => a = b
                                     /\ 2 * a - 1 = 2 * b - 1 => a = b
  OBVIOUS

LEMMA UpTo == ASSUME NEW n \in Nat PROVE IsFiniteSet(1..n) /\ Cardinality(1..n) = n
<1>1. 1 \in Int /\ n \in Int
  OBVIOUS
<1>2. IsFiniteSet(1..n) /\ Cardinality(1..n) = IF 1 > n THEN 0 ELSE n - 1 + 1
  BY <1>1, FS_Interval
<1>3. (IF 1 > n THEN 0 ELSE n - 1 + 1) = n
  OBVIOUS
<1> QED
  BY <1>2, <1>3

LEMMA PlacesApart ==
    ASSUME Base, Patience, NEW j \in DOMAIN c2g, NEW k \in DOMAIN c2g,
           Place(c2g[j]) = Place(c2g[k])
    PROVE  j = k
<1>1. OneEach /\ PendingOnce
  BY OneRequest, OnePlace DEF Base
<1>2. Fds \subseteq Int
  BY ConnSvrAssumption DEF Fds
<1>3. \A x \in DOMAIN c2g :
          \/ /\ c2g[x].cmd = "START" /\ Place(c2g[x]) = 2 * c2g[x].conn_fd
             /\ c2g[x].conn_fd \in Fds /\ Of(c2g[x].seq, c2g[x].conn_fd)
          \/ /\ c2g[x].cmd = "STOP" /\ c2g[x].player_idx \in DOMAIN players
             /\ players[c2g[x].player_idx].conn_fd \in Fds
             /\ Place(c2g[x]) = 2 * players[c2g[x].player_idx].conn_fd - 1
  <2> SUFFICES ASSUME NEW x \in DOMAIN c2g
               PROVE  \/ /\ c2g[x].cmd = "START" /\ Place(c2g[x]) = 2 * c2g[x].conn_fd
                         /\ c2g[x].conn_fd \in Fds /\ Of(c2g[x].seq, c2g[x].conn_fd)
                      \/ /\ c2g[x].cmd = "STOP" /\ c2g[x].player_idx \in DOMAIN players
                         /\ players[c2g[x].player_idx].conn_fd \in Fds
                         /\ Place(c2g[x]) = 2 * players[c2g[x].player_idx].conn_fd - 1
    OBVIOUS
  <2>1. c2g[x].cmd \in {"START", "STOP"}
    BY DEF Patience, QueueInv, StopsApart
  <2>2. CASE c2g[x].cmd = "START"
    BY <1>1, <2>2 DEF Patience, StartInv, OneEach, Place
  <2>3. CASE c2g[x].cmd = "STOP"
    BY <2>3 DEF Patience, QueueInv, StopsApart, PlayerInv, Place
  <2> QED
    BY <2>1, <2>2, <2>3
<1>4. CASE c2g[j].cmd = "START" /\ c2g[k].cmd = "START"
  <2>1. c2g[j].conn_fd = c2g[k].conn_fd
    BY <1>2, <1>3, <1>4, EvenOrOdd
  <2>2. c2g[j].seq = c2g[k].seq /\ c2g[j].seq # 0
    BY <1>1, <1>3, <1>4, <2>1 DEF OneEach
  <2> QED
    BY <1>1, <2>2 DEF PendingOnce
<1>5. CASE c2g[j].cmd = "STOP" /\ c2g[k].cmd = "STOP"
  <2>1. players[c2g[j].player_idx].conn_fd = players[c2g[k].player_idx].conn_fd
    <3>1. PICK a, b \in Fds : /\ a = players[c2g[j].player_idx].conn_fd
                              /\ b = players[c2g[k].player_idx].conn_fd
      BY <1>3, <1>5
    <3>2. 2 * a - 1 = 2 * b - 1 /\ a \in Int /\ b \in Int
      BY <1>2, <1>3, <1>5, <3>1
    <3> QED
      BY <3>1, <3>2, EvenOrOdd
  <2>2. c2g[j].player_idx = c2g[k].player_idx
    BY <1>3, <1>5, <2>1 DEF Patience, PlayerInv
  <2> QED
    BY <1>5, <2>2 DEF Patience, QueueInv, StopsApart
<1>6. ASSUME NEW x \in DOMAIN c2g, NEW y \in DOMAIN c2g,
             c2g[x].cmd = "START", c2g[y].cmd = "STOP"
      PROVE  Place(c2g[x]) # Place(c2g[y])
  <2>1. PICK a, b \in Fds : Place(c2g[x]) = 2 * a /\ Place(c2g[y]) = 2 * b - 1
    BY <1>3, <1>6
  <2>2. 2 * a # 2 * b - 1
    BY <1>2, EvenOrOdd
  <2> QED
    BY <2>1, <2>2
<1>7. ~(c2g[j].cmd = "START" /\ c2g[k].cmd = "STOP")
  BY <1>6
<1>8. ~(c2g[j].cmd = "STOP" /\ c2g[k].cmd = "START")
  BY <1>6
<1> QED
  BY <1>3, <1>4, <1>5, <1>7, <1>8

\* As long as a live player is there, c2g has room for its STOP.
LEMMA RoomForStop ==
    ASSUME Base, Patience, RoomForAll, NEW i, Live(i)
    PROVE  Len(c2g) < Hwm
<1> DEFINE n == Len(c2g)
           fd == players[i].conn_fd
           C == 2 * ConnPoolSize
           S == 1..n
           T == (1..C) \ {2 * fd - 1}
           f == [k \in S |-> Place(c2g[k])]
<1>1. n \in Nat /\ Hwm \in Nat /\ DOMAIN c2g = S /\ C \in Nat /\ C <= Hwm
  <2>1. PICK X : c2g \in Seq(X)
    BY DEF Base, ConnsApart, IsSeq
  <2> QED
    BY <2>1, LinksAssumption, ConnSvrAssumption DEF RoomForAll
<1>2. \A a \in Fds : 2 * a \in 1..C /\ 2 * a - 1 \in 1..C /\ a \in Int
  BY ConnSvrAssumption DEF Fds
<1>3. i \in DOMAIN players /\ fd \in Fds
  BY DEF Patience, PlayerInv, Live
<1>4. IsFiniteSet(S) /\ Cardinality(S) = n
  BY <1>1, UpTo
<1>5. IsFiniteSet(T) /\ Cardinality(T) = C - 1
  <2>1. IsFiniteSet(1..C) /\ Cardinality(1..C) = C
    BY <1>1, UpTo
  <2>2. 2 * fd - 1 \in 1..C
    BY <1>2, <1>3
  <2> HIDE DEF C, fd
  <2> QED
    BY <2>1, <2>2, FS_RemoveElement
<1>6. ASSUME NEW k \in S PROVE Place(c2g[k]) \in T
  <2>1. c2g[k].cmd \in {"START", "STOP"}
    BY <1>1 DEF Patience, QueueInv, StopsApart
  <2>2. CASE c2g[k].cmd = "START"
    <3>1. c2g[k].conn_fd \in Fds
      BY <1>1, <2>2, OneRequest DEF Patience, StartInv, OneEach
    <3> QED
      BY <1>2, <1>3, <2>2, <3>1, EvenOrOdd DEF Place
  <2>3. CASE c2g[k].cmd = "STOP"
    <3>1. c2g[k].player_idx \in DOMAIN players /\ c2g[k].player_idx # i
      BY <1>1, <2>3 DEF Patience, QueueInv, StopsApart, Live, StopIn
    <3>2. players[c2g[k].player_idx].conn_fd \in Fds /\ players[c2g[k].player_idx].conn_fd # fd
      BY <1>3, <3>1 DEF Patience, PlayerInv
    <3>3. PICK a \in Fds : a = players[c2g[k].player_idx].conn_fd
      BY <3>2
    <3>4. 2 * a - 1 \in 1..C /\ a \in Int /\ fd \in Int /\ a # fd
      BY <1>2, <1>3, <3>2, <3>3
    <3>5. Place(c2g[k]) = 2 * a - 1
      BY <2>3, <3>3 DEF Place
    <3> HIDE DEF fd, C
    <3>6. 2 * a - 1 # 2 * fd - 1
      BY <3>4
    <3> QED
      BY <3>4, <3>5, <3>6
  <2> QED
    BY <2>1, <2>2, <2>3
<1>7. f \in [S -> T]
  BY <1>6
<1>8. \A x, y \in S : f[x] = f[y] => x = y
  BY <1>1, PlacesApart
<1> HIDE DEF S, T, f, C, n
<1>9. ~(Cardinality(T) < Cardinality(S))
  BY <1>4, <1>5, <1>7, <1>8, FS_PigeonHole
<1>10. n < Hwm
  BY <1>1, <1>4, <1>5, <1>9
<1> QED
  BY <1>10 DEF n

\* A connection whose client has all its answers closes, and its player's STOP
\* goes out.
LEMMA LeaveStep ==
    ASSUME Base, Patience, PatientClients, RoomForAll, UNCHANGED gamesvr,
           NEW fd \in Fds, DoTcpReadEnd(fd), conn_map[fd].player_idx # 0
    PROVE  Patience'
<1>0. PICK i : i = conn_map[fd].player_idx
  OBVIOUS
<1> DEFINE c == conn_map[fd]
           m == ToGame("STOP", NoFd, i, 0, c.conn)
<1>1. /\ fd \in DOMAIN conn_map /\ MayClose(fd) /\ ReleaseConn(fd)
      /\ c2g' = Push(c2g, <<m>>)
      /\ UNCHANGED <<accepted, delivered, g2c, asked, answered, players, logics,
                     uid_to_player_idx_map>>
  BY <1>0 DEF DoTcpReadEnd, gamesvr
<1>2. /\ DOMAIN conn_map' = DOMAIN conn_map \ {fd}
      /\ \A f \in DOMAIN conn_map' : conn_map'[f] = conn_map[f]
  BY <1>1 DEF ReleaseConn
<1>3. Live(i) /\ players[i].conn_fd = fd
  BY <1>0, <1>1 DEF Patience, KnownInv
<1>4. ~Waiting(c.conn) /\ \A x \in Msgs(g2c) : x.conn_fd # fd
  <2>1. "hangup" \notin Faults
    BY DEF PatientClients
  <2> QED
    BY <1>1, <2>1 DEF MayClose, Msgs
<1>5. OneEach /\ PendingOnce /\ Queue(c2g)
  BY OneRequest, OnePlace DEF Base, FrameInv, SessionInv
<1>6. \A s : Of(s, fd) => answered[s] # 0
  <2> SUFFICES ASSUME NEW s, Of(s, fd) PROVE answered[s] # 0
    OBVIOUS
  <2>1. <<c.conn, s>> \in delivered
    BY <1>4 DEF Waiting, Asked, Of
  <2>2. <<c.conn, s>>[2] = s
    OBVIOUS
  <2> QED
    BY <2>1, <2>2 DEF Patience, DeliverInv
<1>7. c2g' = Append(c2g, m) /\ m.cmd = "STOP" /\ m.player_idx = i
  BY <1>1, <1>3, <1>5, PushOne, RoomForStop DEF Queue, ToGame
<1> HIDE DEF m
<1>8. Seqs' = Seqs
  BY <1>1 DEF Seqs
<1>9. \A s, f : Of(s, f)' <=> Of(s, f) /\ f # fd
  BY <1>1, <1>2, <1>8 DEF Of
<1>10. \A x : StopIn(c2g', x) <=> StopIn(c2g, x) \/ x = i
  BY <1>5, <1>7, StopInAppend
<1>11. \A x : Live(x)' <=> Live(x) /\ x # i
  BY <1>1, <1>10 DEF Live
<1>12. \A x : Live(x) /\ x # i => players[x].conn_fd # fd
  BY <1>3 DEF Patience, PlayerInv, Live
<1>13. AskInv'
  BY <1>1, <1>8, <1>9 DEF Patience, AskInv
<1>14. DeliverInv'
  BY <1>1 DEF Patience, DeliverInv
<1>15. StartInv'
  <2>1. /\ Len(c2g) \in Nat /\ DOMAIN c2g = 1..Len(c2g)
        /\ DOMAIN c2g' = 1..Len(c2g) + 1
        /\ \A k \in 1..Len(c2g) : c2g'[k] = c2g[k]
        /\ c2g'[Len(c2g) + 1] = m
    BY <1>5, <1>7, AppendPlaces
  <2>2. \A x : \A k \in DOMAIN c2g : StopBefore(c2g, k, x) => StopBefore(c2g', k, x)
    BY <1>5, <1>7, StopInAppend
  <2> SUFFICES ASSUME NEW k \in DOMAIN c2g', NEW x, x = c2g'[k], x.cmd = "START"
               PROVE  /\ Of(x.seq, x.conn_fd)'
                      /\ \A p \in DOMAIN players : Meets(x, p)' => StopBefore(c2g', k, p)
    BY <1>1 DEF StartInv
  <2>3. k \in DOMAIN c2g /\ x = c2g[k]
    <3>1. k # Len(c2g) + 1
      BY <1>7, <2>1
    <3> QED
      BY <2>1, <3>1
  <2>4. /\ Of(x.seq, x.conn_fd)
        /\ \A p \in DOMAIN players : Meets(x, p) => StopBefore(c2g, k, p)
    BY <2>3 DEF Patience, StartInv
  <2>5. x.conn_fd # fd
    BY <1>5, <1>6, <2>3, <2>4 DEF OneEach, PendingOnce
  <2>6. \A p : Meets(x, p)' <=> Meets(x, p)
    BY <1>1 DEF Meets
  <2> QED
    BY <1>9, <2>2, <2>3, <2>4, <2>5, <2>6
<1>16. QueueInv'
  <2>1. /\ m.cmd \in {"START", "STOP"} /\ StopsApart(c2g, DOMAIN players)
        /\ m.player_idx \in DOMAIN players /\ ~StopIn(c2g, m.player_idx)
    BY <1>3, <1>7 DEF Live, Patience, QueueInv
  <2>2. StopsApart(Append(c2g, m), DOMAIN players)
    BY <1>5, <2>1, StopsApartAppend
  <2> QED
    BY <1>1, <1>7, <2>2 DEF QueueInv
<1>17. PlayerInv'
  <2>1. ASSUME NEW x, Live(x)', NEW f, f = players[x].conn_fd
        PROVE  \E s \in Seqs : /\ Of(s, f)' /\ players[x].uid \in {0, asked[s].body.uid}
                               /\ conn_map'[f].player_idx \in {0, x}
    <3>1. PICK s \in Seqs : /\ Of(s, f) /\ players[x].uid \in {0, asked[s].body.uid}
                            /\ conn_map[f].player_idx \in {0, x}
      BY <1>11, <2>1 DEF Patience, PlayerInv
    <3>2. f # fd /\ f \in DOMAIN conn_map
      BY <1>5, <1>11, <1>12, <2>1, <3>1 DEF OneEach
    <3>3. conn_map'[f] = conn_map[f] /\ Of(s, f)'
      BY <1>2, <1>9, <3>1, <3>2
    <3> QED
      BY <3>1, <3>3
  <2>2. ASSUME NEW x, Live(x)'
        PROVE  \E s \in Seqs' : /\ Of(s, players[x].conn_fd)'
                                /\ players'[x].uid \in {0, asked'[s].body.uid}
                                /\ conn_map'[players'[x].conn_fd].player_idx \in {0, x}
    BY <1>1, <1>8, <2>1, <2>2
  <2>3. /\ \A x \in DOMAIN players' : players'[x].conn_fd \in Fds
        /\ \A x, y \in DOMAIN players' : players'[x].conn_fd = players'[y].conn_fd => x = y
    BY <1>1 DEF Patience, PlayerInv
  <2> QED
    BY <2>2, <2>3 DEF PlayerInv
<1>18. KnownInv'
  <2> SUFFICES ASSUME NEW f \in DOMAIN conn_map \ {fd}
               PROVE  /\ \A s \in Seqs : <<conn_map[f].conn, s>> \in delivered
                             => conn_map[f].player_idx # 0
                      /\ IsConn(conn_map[f])
                      /\ \A x : x = conn_map[f].player_idx /\ x # 0
                            => Live(x)' /\ players[x].conn_fd = f
    BY <1>1, <1>2, <1>8 DEF KnownInv
  <2> QED
    BY <1>3, <1>11 DEF Patience, KnownInv
<1>19. ToldInv'
  <2>1. ASSUME NEW x \in Msgs(g2c) PROVE Told(x)'
    BY <1>1, <1>3, <1>4, <1>9, <1>11 DEF Patience, ToldInv, Told
  <2> QED
    BY <1>1, <2>1 DEF ToldInv
<1>20. LogicInv'
  <2>1. ASSUME NEW id \in DOMAIN logics, NEW l, l = logics[id], Answers(l) PROVE Answers(l)'
    <3>1. players[l.player_idx].conn_fd # fd
      <4>1. Of(l.seq, players[l.player_idx].conn_fd)
        BY <2>1 DEF Answers
      <4>2. answered[l.seq] = 0
        BY <1>5, <2>1, <4>1 DEF OneEach, PendingOnce
      <4> QED
        BY <1>6, <4>1, <4>2
    <3>2. l.player_idx # i
      BY <1>3, <3>1
    <3> QED
      BY <1>1, <1>9, <1>11, <2>1, <3>1, <3>2 DEF Answers
  <2> QED
    BY <1>1, <2>1 DEF Patience, LogicInv
<1>21. MapInv'
  BY <1>1 DEF Patience, MapInv
<1> QED
  BY <1>13, <1>14, <1>15, <1>16, <1>17, <1>18, <1>19, <1>20, <1>21 DEF Patience

\* A client gets a message: its connection knows the player from then on.
LEMMA ToldStep ==
    ASSUME Base, Patience, UNCHANGED gamesvr, ZmqRead
    PROVE  Patience'
<1>0. PICK m : m = Head(g2c)
  OBVIOUS
<1> DEFINE c == conn_map[m.conn_fd]
<1>1. /\ Queue(g2c) /\ g2c # <<>> /\ g2c' = Tail(g2c) /\ m.conn_fd \in DOMAIN conn_map
      /\ UNCHANGED <<accepted, c2g, asked, answered, players, logics, uid_to_player_idx_map>>
      /\ delivered' = IF m.seq = 0 THEN delivered
                      ELSE delivered \cup {<<c.conn, m.seq>>}
  BY <1>0 DEF ZmqRead, gamesvr, Base, FrameInv, SessionInv
<1>2. m \in Msgs(g2c) /\ Msgs(g2c') \subseteq Msgs(g2c)
  BY <1>0, <1>1, TailMsgs
<1>3. Told(m) /\ Live(m.player_idx) /\ players[m.player_idx].conn_fd = m.conn_fd
  BY <1>2 DEF Patience, ToldInv, Told
<1>4. m.player_idx # 0
  <2>1. m.player_idx \in PlayerUnits
    BY <1>3 DEF Live, Base, FrameInv, GameInv, GameTypeOK, ObjectsTypeOK
  <2>2. 0 \notin PlayerUnits
    BY GameObjectsAssumption DEF PlayerUnits
  <2> QED
    BY <2>1, <2>2
<1>5. /\ DOMAIN conn_map' = DOMAIN conn_map
      /\ \A f \in DOMAIN conn_map : /\ conn_map'[f].conn = conn_map[f].conn
                                    /\ f # m.conn_fd => conn_map'[f] = conn_map[f]
                                    /\ IsConn(conn_map'[f])
      /\ conn_map'[m.conn_fd].player_idx = m.player_idx
  <2>1. m.cmd # "STOP"
    BY <1>3 DEF Told
  <2>2. CASE m.cmd = "START" \/ c.player_idx = 0
    <3>1. conn_map' = [conn_map EXCEPT ![m.conn_fd].player_idx = m.player_idx]
      BY <1>0, <2>1, <2>2 DEF ZmqRead
    <3>2. DOMAIN conn_map' = DOMAIN conn_map
      BY <3>1
    <3>3. \A f \in DOMAIN conn_map : f # m.conn_fd => conn_map'[f] = conn_map[f]
      BY <3>1
    <3>4. conn_map'[m.conn_fd] = [c EXCEPT !.player_idx = m.player_idx]
      BY <1>1, <3>1
    <3>5. IsConn(c)
      BY <1>1 DEF Patience, KnownInv
    <3>6. PICK d : d = c
      OBVIOUS
    <3>7. [d EXCEPT !.player_idx = m.player_idx]
            = [player_idx |-> m.player_idx, conn |-> d.conn]
      BY <3>5, <3>6 DEF IsConn
    <3>8. conn_map'[m.conn_fd] = [player_idx |-> m.player_idx, conn |-> c.conn]
      BY <3>4, <3>6, <3>7
    <3> HIDE DEF c
    <3>9. /\ conn_map'[m.conn_fd].player_idx = m.player_idx
          /\ conn_map'[m.conn_fd].conn = c.conn
          /\ IsConn(conn_map'[m.conn_fd])
      BY <3>8 DEF IsConn
    <3>10. \A f \in DOMAIN conn_map : IsConn(conn_map[f])
      BY DEF Patience, KnownInv
    <3> QED
      BY <3>2, <3>3, <3>9, <3>10 DEF c
  <2>3. CASE ~(m.cmd = "START" \/ c.player_idx = 0)
    <3>1. conn_map' = conn_map
      BY <1>0, <2>1, <2>3 DEF ZmqRead
    <3>2. Live(c.player_idx) /\ players[c.player_idx].conn_fd = m.conn_fd
      BY <1>1, <2>3 DEF Patience, KnownInv
    <3>3. c.player_idx = m.player_idx
      BY <1>3, <3>2 DEF Patience, PlayerInv, Live
    <3> QED
      BY <3>1, <3>3 DEF Patience, KnownInv
  <2> QED
    BY <2>2, <2>3

<1>6. Seqs' = Seqs /\ OneEach
  BY <1>1, OneRequest DEF Seqs
<1>7. \A s, f : Of(s, f)' <=> Of(s, f)
  BY <1>1, <1>5, <1>6 DEF Of
<1>8. \A x : Live(x)' <=> Live(x)
  BY <1>1 DEF Live
<1>9. AskInv'
  BY <1>1, <1>6, <1>7 DEF Patience, AskInv
<1>10. m.seq # 0 => asked[m.seq].conn = c.conn /\ answered[m.seq] # 0
  BY <1>2, <1>3 DEF Patience, DeliverInv, Told, Of
<1>11. DeliverInv'
  <2>1. ASSUME NEW d \in delivered' PROVE answered[d[2]] # 0 /\ asked[d[2]].conn = d[1]
    <3>1. CASE d \in delivered
      BY <3>1 DEF Patience, DeliverInv
    <3>2. CASE d = <<c.conn, m.seq>> /\ m.seq # 0
      BY <1>10, <3>2
    <3> QED
      BY <1>1, <2>1, <3>1, <3>2
  <2> QED
    BY <1>1, <1>2, <2>1 DEF Patience, DeliverInv
<1>12. StartInv'
  <2>1. \A x, i : Meets(x, i)' <=> Meets(x, i)
    BY <1>1 DEF Meets
  <2>2. StartInv
    BY DEF Patience
  <2>3. ASSUME NEW k \in DOMAIN c2g, NEW x, x = c2g[k], x.cmd = "START"
        PROVE  /\ Of(x.seq, x.conn_fd)'
               /\ \A i \in DOMAIN players : Meets(x, i)' => StopBefore(c2g, k, i)
    BY <1>7, <2>1, <2>2, <2>3 DEF StartInv
  <2> QED
    BY <1>1, <2>3 DEF StartInv
<1>13. QueueInv'
  BY <1>1 DEF Patience, QueueInv
<1>14. PlayerInv'
  <2>1. ASSUME NEW x, Live(x), NEW f, f = players[x].conn_fd
        PROVE  \E s \in Seqs : /\ Of(s, f)' /\ players[x].uid \in {0, asked[s].body.uid}
                               /\ conn_map'[f].player_idx \in {0, x}
    <3>1. PICK s \in Seqs : /\ Of(s, f) /\ players[x].uid \in {0, asked[s].body.uid}
                            /\ conn_map[f].player_idx \in {0, x}
      BY <2>1 DEF Patience, PlayerInv
    <3>2. conn_map'[f].player_idx \in {0, x}
      <4>1. CASE f = m.conn_fd
        <5>1. x = m.player_idx
          BY <1>3, <2>1, <4>1 DEF Patience, PlayerInv, Live
        <5> QED
          BY <1>5, <4>1, <5>1
      <4>2. CASE f # m.conn_fd
        BY <1>5, <1>6, <3>1, <4>2 DEF OneEach
      <4> QED
        BY <4>1, <4>2
    <3> QED
      BY <1>7, <3>1, <3>2
  <2>2. ASSUME NEW x, Live(x)'
        PROVE  \E s \in Seqs' : /\ Of(s, players[x].conn_fd)'
                                /\ players'[x].uid \in {0, asked'[s].body.uid}
                                /\ conn_map'[players'[x].conn_fd].player_idx \in {0, x}
    BY <1>1, <1>6, <1>8, <2>1, <2>2
  <2>3. /\ \A x \in DOMAIN players' : players'[x].conn_fd \in Fds
        /\ \A x, y \in DOMAIN players' : players'[x].conn_fd = players'[y].conn_fd => x = y
    BY <1>1 DEF Patience, PlayerInv
  <2> QED
    BY <2>2, <2>3 DEF PlayerInv
<1>15. KnownInv'
  <2> SUFFICES ASSUME NEW f \in DOMAIN conn_map
               PROVE  /\ IsConn(conn_map'[f])
                      /\ \A s \in Seqs : <<conn_map[f].conn, s>> \in delivered'
                             => conn_map'[f].player_idx # 0
                      /\ \A x : x = conn_map'[f].player_idx /\ x # 0
                            => Live(x) /\ players[x].conn_fd = f
    BY <1>1, <1>5, <1>6, <1>8 DEF KnownInv
  <2>1. CASE f = m.conn_fd
    BY <1>3, <1>4, <1>5, <2>1
  <2>2. CASE f # m.conn_fd
    <3>1. conn_map'[f] = conn_map[f] /\ IsConn(conn_map'[f]) /\ conn_map[f].conn # c.conn
      BY <1>1, <1>5, <2>2 DEF Base, ConnsApart
    <3>2. \A s : <<conn_map[f].conn, s>> \in delivered' => <<conn_map[f].conn, s>> \in delivered
      BY <1>1, <3>1
    <3> QED
      BY <3>1, <3>2 DEF Patience, KnownInv
  <2> QED
    BY <2>1, <2>2
<1>16. ToldInv'
  <2>1. \A x : Told(x) => Told(x)'
    BY <1>1, <1>7, <1>8 DEF Told
  <2> QED
    BY <1>2, <2>1 DEF Patience, ToldInv
<1>17. LogicInv'
  <2>1. \A l : Answers(l) => Answers(l)'
    BY <1>1, <1>7, <1>8 DEF Answers
  <2> QED
    BY <1>1, <2>1 DEF Patience, LogicInv
<1>18. MapInv'
  BY <1>1 DEF Patience, MapInv
<1> QED
  BY <1>9, <1>11, <1>12, <1>13, <1>14, <1>15, <1>16, <1>17, <1>18 DEF Patience

\* Any step of connsvr: without the faults of impatient clients nothing else happens.
LEMMA PatientConn ==
    ASSUME Base, Patience, PatientClients, RoomForAll, ConnNext, UNCHANGED gamesvr
    PROVE  Patience'
<1>0. "reset" \notin Faults /\ "hangup" \notin Faults
  BY DEF PatientClients
<1>1. ASSUME NEW fd \in Fds, DoTcpAccept(fd) PROVE Patience'
  BY <1>1, AcceptStep
<1>2. ASSUME NEW fd \in Fds, NEW body \in Bodies, DoTcpRead(fd, body) PROVE Patience'
  BY <1>2, AskStep
<1>3. ASSUME NEW fd \in Fds, DoTcpReadEnd(fd) PROVE Patience'
  <2>1. CASE conn_map[fd].player_idx # 0
    BY <1>3, <2>1, LeaveStep
  <2>2. CASE conn_map[fd].player_idx = 0
    <3>1. /\ fd \in DOMAIN conn_map /\ MayClose(fd) /\ ReleaseConn(fd)
          /\ UNCHANGED <<links, accepted, delivered>>
      BY <1>3, <2>2 DEF DoTcpReadEnd, links
    <3>2. NoRequest(fd)
      BY <1>0, <2>2, <3>1 DEF MayClose, Waiting, Asked, NoRequest, Patience, KnownInv
    <3> QED
      BY <3>1, <3>2, CloseStep
  <2> QED
    BY <2>1, <2>2
<1>4. CASE ZmqRead
  BY <1>4, ToldStep
<1>5. ~ZmqReadNoConn
  <2> SUFFICES ASSUME ZmqReadNoConn PROVE FALSE
    OBVIOUS
  <2>1. Queue(g2c) /\ g2c # <<>>
    BY DEF ZmqReadNoConn, Base, FrameInv, SessionInv
  <2>2. Head(g2c) \in Msgs(g2c)
    BY <2>1, TailMsgs
  <2>3. Told(Head(g2c))
    BY <2>2 DEF Patience, ToldInv
  <2>4. Head(g2c).conn_fd \in DOMAIN conn_map
    BY <2>3, OneRequest DEF Told, Patience, PlayerInv, OneEach
  <2> QED
    BY <2>4 DEF ZmqReadNoConn
<1> QED
  BY <1>0, <1>1, <1>2, <1>3, <1>4, <1>5 DEF ConnNext, DoTcpReadFail, ZmqReadSendFail

-----------------------------------------------------------------------------
(* Good data: what is true of datasvr for clients like tcpclient *)

\* Each account has one city, and every login will find its account.
GoodRequest(m) == /\ m.cmd = "GET" => Verified(m.uid, m.pw)
                  /\ m.cmd = "SET" => m.cities = 1 \/ m.uid = 0
                  /\ m.cmd = "REG" => m.cities = 1 /\ m.uid # 0
GoodAnswer(a) == a.cmd = "GET" => a.ret = 0 /\ a.cities = 1
GoodRows == \A u \in DOMAIN sg_data : sg_data[u].cities = 1 /\ u # 0
KnownLogins == \A body \in Bodies : body.cmd = "LOGIN" => Verified(body.uid, body.pw)
GoodData == /\ GoodRows /\ KnownLogins
            /\ \A m \in Msgs(g2d) : GoodRequest(m)
            /\ \A j \in jobs : GoodRequest(j.request) /\ GoodAnswer(j.answer)
            /\ \A m \in Msgs(d2g) : GoodAnswer(m)
\* A player has its city when it has its account.
GoodPlayers == \A i \in DOMAIN players :
    Cardinality(players[i].city_list) = IF players[i].uid = 0 THEN 0 ELSE 1

\* One job becomes another one on the same request, with a good answer.
Improves == \E i \in jobs : \E k : /\ k.request = i.request /\ GoodAnswer(k.answer)
                                 /\ jobs' = (jobs \ {i}) \cup {k}

LEMMA AnsweredGood ==
    ASSUME DataInv, NEW j \in jobs, j.answer = NoAnswer, NEW ret, NEW n,
           Answered(j.request, ret, n), j.request.cmd = "GET" => ret = 0 /\ n = 1
    PROVE  Improves
<1> DEFINE i == Job(j.request)
           a == FromData(j.request.cmd, j.request.seq, ret, n)
           k == [i EXCEPT !.answer = a]
<1>1. i \in jobs /\ i.request = j.request
  BY JobExists
<1>2. jobs' = (jobs \ {i}) \cup {k}
  BY DEF Answered
<1>3. IsJob(i)
  BY <1>1 DEF DataInv
<1> HIDE DEF i
<1>4. GoodAnswer(a)
  BY DEF FromData, GoodAnswer
<1> HIDE DEF a
<1>5. k = [request |-> i.request, nth |-> i.nth, answer |-> a]
  BY <1>3 DEF IsJob
<1> HIDE DEF k
<1>6. k.request = i.request /\ k.answer = a
  BY <1>5
<1> QED
  BY <1>1, <1>2, <1>4, <1>6 DEF Improves

\* A registration and a saved player leave one city with each account.
LEMMA InsertGood ==
    ASSUME GoodRows, NEW m, m.cities = 1 /\ m.uid # 0, sg_data' = Insert(m)
    PROVE  GoodRows'
<1>1. /\ DOMAIN sg_data' = DOMAIN sg_data \cup {m.uid}
      /\ \A u \in DOMAIN sg_data : u # m.uid => sg_data'[u] = sg_data[u]
      /\ sg_data'[m.uid] = [password_hash |-> m.pw, cities |-> m.cities]
  BY DEF Insert
<1> QED
  BY <1>1 DEF GoodRows

LEMMA UpdateGood ==
    ASSUME GoodRows, NEW m, m.cities = 1 \/ m.uid = 0, sg_data' = Update(m),
           \A u \in DOMAIN sg_data : IsRow(sg_data[u])
    PROVE  GoodRows'
<1>1. /\ DOMAIN sg_data' = DOMAIN sg_data
      /\ \A u \in DOMAIN sg_data :
            sg_data'[u] = IF u = m.uid THEN [sg_data[u] EXCEPT !.cities = m.cities]
                          ELSE sg_data[u]
  BY DEF Update
<1>2. ASSUME NEW u \in DOMAIN sg_data PROVE sg_data'[u].cities = 1 /\ u # 0
  <2>1. PICK r : r = sg_data[u]
    OBVIOUS
  <2>2. IsRow(r) /\ r.cities = 1 /\ u # 0
    BY <2>1 DEF GoodRows
  <2>3. CASE u = m.uid
    <3>1. sg_data'[u] = [r EXCEPT !.cities = m.cities]
      BY <1>1, <2>1, <2>3
    <3>2. [r EXCEPT !.cities = m.cities]
            = [password_hash |-> r.password_hash, cities |-> m.cities]
      BY <2>2 DEF IsRow
    <3>3. sg_data'[u].cities = m.cities
      BY <3>1, <3>2
    <3> QED
      BY <2>2, <2>3, <3>3
  <2>4. CASE u # m.uid
    BY <1>1, <2>1, <2>2, <2>4
  <2> QED
    BY <2>3, <2>4
<1> QED
  BY <1>1, <1>2 DEF GoodRows

\* A statement that is executed has a good answer.
LEMMA WorksGood ==
    ASSUME DataInv, GoodData, PatientClients,
           NEW j \in jobs, j.answer = NoAnswer, Works(j.request)
    PROVE  /\ GoodRows'
           /\ Improves \/ \E i \in jobs : jobs' = jobs \ {i}
<1> DEFINE m == j.request
<1>1. GoodRequest(m) /\ GoodRows /\ "refused" \notin Faults
  BY DEF GoodData, PatientClients
<1>2. \A u \in DOMAIN sg_data : IsRow(sg_data[u])
  BY DEF DataInv
<1>3. UNCHANGED sg_data => GoodRows'
  BY <1>1 DEF GoodRows
<1>4. CASE Reg(m)
  BY <1>1, <1>3, <1>4, AnsweredGood, InsertGood DEF Reg, GoodRequest
<1>5. CASE Get(m)
  <2>1. m.uid \in DOMAIN sg_data /\ sg_data[m.uid].password_hash = m.pw
    BY <1>1, <1>5 DEF Get, GoodRequest, Verified
  <2>2. sg_data[m.uid].cities = 1
    BY <1>1, <2>1 DEF GoodRows
  <2> QED
    BY <1>3, <1>5, <2>1, <2>2, AnsweredGood DEF Get
<1>6. CASE Set(m)
  BY <1>1, <1>2, <1>6, AnsweredGood, UpdateGood DEF Set, GoodRequest
<1>7. CASE Lose(m)
  BY <1>1, <1>2, <1>3, <1>7, JobExists, InsertGood, UpdateGood DEF Lose, GoodRequest
<1> QED
  BY <1>1, <1>4, <1>5, <1>6, <1>7 DEF Works, Fail

LEMMA GoodDataStep ==
    ASSUME DataInv, GoodData, PatientClients, DataNext
    PROVE  GoodData'
<1>1. RowsStay
  BY DataStep
<1>2. /\ \A m : GoodRequest(m) => GoodRequest(m)'
      /\ \A m : GoodAnswer(m) => GoodAnswer(m)'
  BY <1>1 DEF RowsStay, GoodRequest, GoodAnswer
<1>3. KnownLogins'
  BY <1>1 DEF RowsStay, GoodData, KnownLogins
<1>4. CASE Take
  <2>1. PICK j : /\ j = [request |-> Head(g2d), nth |-> Number(Head(g2d)), answer |-> NoAnswer]
                 /\ jobs' = jobs \cup {j}
    BY <1>4 DEF Take
  <2>2. j.request = Head(g2d) /\ j.answer = NoAnswer
    BY <2>1
  <2>3. Head(g2d) \in Msgs(g2d) /\ Msgs(Tail(g2d)) \subseteq Msgs(g2d)
    BY <1>4, TailMsgs DEF Take, DataInv
  <2>4. GoodRequest(j.request) /\ GoodAnswer(j.answer)
    BY <2>2, <2>3 DEF GoodData, GoodAnswer, NoAnswer, FromData
  <2> QED
    BY <1>2, <1>3, <1>4, <2>1, <2>3, <2>4 DEF Take, GoodData, GoodRows
<1>5. ASSUME NEW j \in jobs, j.answer = NoAnswer, Works(j.request) PROVE GoodData'
  <2>1. UNCHANGED links
    BY <1>5 DEF Works, Reg, Get, Set, Fail, Lose, Answered
  <2>2. /\ GoodRows'
        /\ Improves \/ \E i \in jobs : jobs' = jobs \ {i}
    BY <1>5, WorksGood
  <2>3. \A i \in jobs' : GoodRequest(i.request) /\ GoodAnswer(i.answer)
    BY <2>2 DEF Improves, GoodData
  <2> QED
    BY <1>2, <1>3, <2>1, <2>2, <2>3 DEF GoodData, links
<1>6. ASSUME NEW j \in jobs, Reply(j) PROVE GoodData'
  <2>1. Msgs(d2g') \subseteq Msgs(d2g) \cup {j.answer}
    BY <1>6, PushMsgs, OneMsg DEF Reply, DataInv
  <2>2. jobs' \subseteq jobs /\ UNCHANGED <<g2d, sg_data>>
    BY <1>6 DEF Reply
  <2> QED
    BY <1>2, <1>3, <1>6, <2>1, <2>2 DEF GoodData, GoodRows
<1> QED
  BY <1>4, <1>5, <1>6 DEF DataNext

-----------------------------------------------------------------------------
(* Patience: the steps of gamesvr *)

\* A START: a player for its descriptor, and an answer at once, or a logic, or
\* nothing.
Grows == \A s \in Seqs : answered[s] # 0 => answered'[s] # 0
Joins(m, idx) ==
    /\ c2g # <<>> /\ m = Head(c2g) /\ m.cmd = "START" /\ c2g' = Tail(c2g)
    /\ UNCHANGED <<connsvr, asked, uid_to_player_idx_map>> /\ Grows
    /\ idx \in PlayerUnits \ DOMAIN players
    /\ players' = With(players, idx, NewPlayer(m.conn_fd))
    /\ \A x \in Msgs(g2c') :
          \/ x \in Msgs(g2c)
          \/ /\ x.cmd = "START" /\ x.player_idx = idx /\ x.conn_fd = m.conn_fd
             /\ x.seq = m.seq /\ answered'[m.seq] # 0
    /\ \A id \in DOMAIN logics' :
          \/ id \in DOMAIN logics /\ logics'[id] = logics[id]
          \/ /\ \/ logics'[id].type = "REG"
                \/ logics'[id].type = "LOGIN" /\ logics'[id].step = 2
             /\ logics'[id].player_idx = idx /\ logics'[id].seq = m.seq
             /\ logics'[id].uid = asked[m.seq].body.uid

\* No request is for account 0.
LEMMA RequestBody ==
    ASSUME Base, NEW s \in Seqs
    PROVE  asked[s].body \in Bodies /\ asked[s].body.uid # 0
<1>0. \A S : \A q \in Seq(S) : \A k \in 1..Len(q) : q[k] \in S
  OBVIOUS
<1>1. asked \in Seq([conn : Nat, body : Bodies]) /\ s \in 1..Len(asked)
  <2>1. asked \in Seq([conn : Nat, body : Bodies])
    BY DEF Base, FrameInv, SessionInv
  <2> QED
    BY <2>1 DEF Seqs
<1>2. asked[s] \in [conn : Nat, body : Bodies]
  BY <1>0, <1>1
<1>3. asked[s].body \in Bodies
  BY <1>2
<1>4. asked[s].body \in Body
  BY <1>3, LinksAssumption
<1> QED
  BY <1>3, <1>4 DEF Body

\* Nobody has the descriptor or the account of the START that is handled.
LEMMA HeadFree ==
    ASSUME Base, Patience, c2g # <<>>, NEW m, m = Head(c2g), m.cmd = "START"
    PROVE  /\ Of(m.seq, m.conn_fd)
           /\ \A i \in DOMAIN players : ~Meets(m, i)
           /\ conn_map[m.conn_fd].player_idx = 0
           /\ asked[m.seq].body.uid # 0
           /\ asked[m.seq].body.uid \notin DOMAIN uid_to_player_idx_map
<1>1. Queue(c2g) /\ 1 \in DOMAIN c2g /\ m = c2g[1]
  BY TailPlaces DEF Base, FrameInv, SessionInv
<1>2. Of(m.seq, m.conn_fd) /\ \A i \in DOMAIN players : Meets(m, i) => StopBefore(c2g, 1, i)
  BY <1>1 DEF Patience, StartInv
<1>3. \A i : ~StopBefore(c2g, 1, i)
  BY DEF StopBefore
<1>4. \A i \in DOMAIN players : ~Meets(m, i)
  BY <1>2, <1>3
<1>5. m.conn_fd \in DOMAIN conn_map /\ m.seq \in Seqs
  BY <1>2 DEF Of
<1>6. conn_map[m.conn_fd].player_idx = 0
  BY <1>4, <1>5 DEF Patience, KnownInv, Live, Meets
<1>8. asked[m.seq].body.uid # 0
  BY <1>5, RequestBody
<1>9. asked[m.seq].body.uid \notin DOMAIN uid_to_player_idx_map
  BY <1>4 DEF Patience, MapInv, Meets
<1> QED
  BY <1>2, <1>4, <1>6, <1>8, <1>9

LEMMA JoinsStep ==
    ASSUME Base, Patience, NEW m, NEW idx, Joins(m, idx)
    PROVE  Patience'
<1>1. /\ Queue(c2g) /\ c2g # <<>> /\ m = Head(c2g) /\ m.cmd = "START" /\ c2g' = Tail(c2g)
      /\ UNCHANGED <<conn_map, accepted, delivered, asked, uid_to_player_idx_map>>
      /\ Grows /\ idx \notin DOMAIN players /\ Seqs' = Seqs
  BY DEF Joins, connsvr, Base, FrameInv, SessionInv, Seqs
<1>2. /\ Of(m.seq, m.conn_fd)
      /\ \A i \in DOMAIN players : ~Meets(m, i)
      /\ conn_map[m.conn_fd].player_idx = 0
      /\ asked[m.seq].body.uid # 0
  BY <1>1, HeadFree
<1>3. OneEach /\ PendingOnce
  BY OneRequest, OnePlace DEF Base
<1>4. /\ DOMAIN players' = DOMAIN players \cup {idx}
      /\ \A i \in DOMAIN players : players'[i] = players[i]
      /\ players'[idx].conn_fd = m.conn_fd /\ players'[idx].uid = 0
  BY <1>1 DEF Joins, With, NewPlayer
<1>5. \A s, f : Of(s, f)' <=> Of(s, f)
  BY <1>1 DEF Of
<1>6. \A i : StopIn(c2g', i) <=> StopIn(c2g, i)
  BY <1>1, StopInTail
<1>7. ~StopIn(c2g, idx)
  BY <1>1 DEF Patience, QueueInv, StopsApart, StopIn
<1>8. \A i : Live(i)' <=> Live(i) \/ i = idx
  BY <1>4, <1>6, <1>7 DEF Live
<1>9. AskInv'
  BY <1>1, <1>5 DEF Patience, AskInv
<1>10. DeliverInv'
  <2>1. \A d \in delivered : answered'[d[2]] # 0 /\ asked[d[2]].conn = d[1]
    BY <1>1 DEF Patience, DeliverInv, Grows, Base, FrameInv, ConnTypeOK
  <2>2. \A x \in Msgs(g2c) : x.seq # 0 => x.seq \in Seqs
    BY DEF Base, FrameInv, SessionInv, AnswerMsg, Seqs
  <2>3. \A x \in Msgs(g2c') : x.seq # 0 => answered'[x.seq] # 0
    BY <1>1, <2>2 DEF Patience, DeliverInv, Grows, Joins
  <2> QED
    BY <1>1, <2>1, <2>3 DEF DeliverInv
<1>11. StartInv'
  <2>1. /\ 1 \in DOMAIN c2g /\ m = c2g[1] /\ Len(c2g) \in Nat /\ DOMAIN c2g = 1..Len(c2g)
        /\ DOMAIN c2g' = 1..Len(c2g) - 1
        /\ \A k \in 1..Len(c2g) - 1 : c2g'[k] = c2g[k + 1]
    BY <1>1, TailPlaces
  <2>2. \A i : \A k \in DOMAIN c2g' : StopBefore(c2g, k + 1, i) => StopBefore(c2g', k, i)
    BY <1>1, StopInTail
  <2> SUFFICES ASSUME NEW k \in DOMAIN c2g', NEW x, x = c2g'[k], x.cmd = "START"
               PROVE  /\ Of(x.seq, x.conn_fd)'
                      /\ \A i \in DOMAIN players' : Meets(x, i)' => StopBefore(c2g', k, i)
    BY DEF StartInv
  <2>3. k + 1 \in DOMAIN c2g /\ k + 1 # 1 /\ x = c2g[k + 1]
    BY <2>1
  <2>4. /\ Of(x.seq, x.conn_fd)
        /\ \A i \in DOMAIN players : Meets(x, i) => StopBefore(c2g, k + 1, i)
    BY <2>3 DEF Patience, StartInv
  <2>5. ASSUME NEW i \in DOMAIN players, Meets(x, i)' PROVE StopBefore(c2g', k, i)
    <3>1. Meets(x, i)
      BY <1>1, <1>4, <2>5 DEF Meets
    <3> QED
      BY <2>2, <2>4, <3>1
  <2>6. ~Meets(x, idx)'
    <3>1. x.conn_fd # m.conn_fd
      BY <1>2, <1>3, <2>1, <2>3, <2>4 DEF OneEach, PendingOnce
    <3>3. asked[x.seq].body.uid # 0
      BY <2>4, RequestBody DEF Of
    <3> QED
      BY <1>1, <1>4, <3>1, <3>3 DEF Meets
  <2> QED
    BY <1>4, <1>5, <2>4, <2>5, <2>6
<1>12. QueueInv'
  <2>1. StopsApart(c2g', DOMAIN players)
    BY <1>1, StopsApartTail DEF Patience, QueueInv
  <2>2. StopsApart(c2g', DOMAIN players')
    BY <1>4, <2>1 DEF StopsApart
  <2> QED
    BY <2>2 DEF QueueInv
<1>13. PlayerInv'
  <2>1. m.conn_fd \in Fds
    BY <1>2, <1>3 DEF OneEach
  <2>2. \A i \in DOMAIN players' : players'[i].conn_fd \in Fds
    BY <1>4, <2>1 DEF Patience, PlayerInv
  <2>3. \A i, j \in DOMAIN players' : players'[i].conn_fd = players'[j].conn_fd => i = j
    BY <1>2, <1>4 DEF Patience, PlayerInv, Meets
  <2>4. ASSUME NEW i, Live(i)', NEW f, f = players'[i].conn_fd
        PROVE  \E s \in Seqs : /\ Of(s, f) /\ players'[i].uid \in {0, asked[s].body.uid}
                               /\ conn_map[f].player_idx \in {0, i}
    <3>1. CASE i = idx
      <4>1. Of(m.seq, f) /\ m.seq \in Seqs
        BY <1>2, <1>3, <1>4, <2>4, <3>1 DEF OneEach
      <4> QED
        BY <1>2, <1>4, <2>4, <3>1, <4>1
    <3>2. CASE i # idx
      <4>1. Live(i) /\ players'[i] = players[i]
        BY <1>4, <1>8, <2>4, <3>2 DEF Live
      <4> QED
        BY <2>4, <4>1 DEF Patience, PlayerInv
    <3> QED
      BY <3>1, <3>2
  <2>5. ASSUME NEW i, Live(i)'
        PROVE  \E s \in Seqs' : /\ Of(s, players[i].conn_fd)'
                                /\ players'[i].uid \in {0, asked'[s].body.uid}
                                /\ conn_map'[players'[i].conn_fd].player_idx \in {0, i}
    BY <1>1, <1>5, <2>4, <2>5
  <2> QED
    BY <2>2, <2>3, <2>5 DEF PlayerInv
<1>14. KnownInv'
  <2> SUFFICES ASSUME NEW f \in DOMAIN conn_map
               PROVE  /\ IsConn(conn_map[f])
                      /\ \A s \in Seqs : <<conn_map[f].conn, s>> \in delivered
                             => conn_map[f].player_idx # 0
                      /\ \A x : x = conn_map[f].player_idx /\ x # 0
                            => Live(x)' /\ players'[x].conn_fd = f
    BY <1>1 DEF KnownInv
  <2> QED
    BY <1>4, <1>8 DEF Patience, KnownInv, Live
<1>15. ToldInv'
  <2>1. ASSUME NEW x \in Msgs(g2c') PROVE Told(x)'
    <3>1. CASE x \in Msgs(g2c)
      <4>1. Told(x)
        BY <3>1 DEF Patience, ToldInv
      <4> QED
        BY <1>4, <1>5, <1>8, <4>1 DEF Told, Live
    <3>2. CASE /\ x.cmd = "START" /\ x.player_idx = idx /\ x.conn_fd = m.conn_fd
               /\ x.seq = m.seq
      BY <1>2, <1>4, <1>5, <1>8, <3>2 DEF Told
    <3> QED
      BY <2>1, <3>1, <3>2 DEF Joins
  <2> QED
    BY <2>1 DEF ToldInv
<1>16. LogicInv'
  <2>1. ASSUME NEW id \in DOMAIN logics', NEW l, l = logics'[id], l.type # "UPDATE_PLAYER"
        PROVE  Answers(l)'
    <3>1. CASE id \in DOMAIN logics /\ l = logics[id]
      <4>1. Answers(l)
        BY <2>1, <3>1 DEF Patience, LogicInv
      <4>2. players'[l.player_idx] = players[l.player_idx]
        BY <1>4, <4>1 DEF Answers, Live
      <4> QED
        BY <1>1, <1>5, <1>8, <4>1, <4>2 DEF Answers
    <3>2. CASE /\ l.type = "REG" \/ (l.type = "LOGIN" /\ l.step = 2)
               /\ l.player_idx = idx /\ l.seq = m.seq /\ l.uid = asked[m.seq].body.uid
      BY <1>1, <1>2, <1>4, <1>5, <1>8, <3>2 DEF Answers
    <3> QED
      BY <2>1, <3>1, <3>2 DEF Joins
  <2> QED
    BY <2>1 DEF LogicInv
<1>17. MapInv'
  BY <1>1, <1>4 DEF Patience, MapInv
<1> QED
  BY <1>9, <1>10, <1>11, <1>12, <1>13, <1>14, <1>15, <1>16, <1>17 DEF Patience

\* A STOP: its player goes, and a logic saves it.
Parts(idx) ==
    /\ c2g # <<>> /\ Head(c2g).cmd = "STOP" /\ idx = Head(c2g).player_idx /\ c2g' = Tail(c2g)
    /\ UNCHANGED <<connsvr, asked, g2c, answered>>
    /\ DelPlayer(idx)
    /\ \A id \in DOMAIN logics' : \/ id \in DOMAIN logics /\ logics'[id] = logics[id]
                                  \/ logics'[id].type = "UPDATE_PLAYER"

LEMMA PartsStep ==
    ASSUME Base, Patience, NEW idx, Parts(idx)
    PROVE  Patience'
<1>1. /\ Queue(c2g) /\ c2g # <<>> /\ Head(c2g).cmd = "STOP" /\ idx = Head(c2g).player_idx
      /\ c2g' = Tail(c2g)
      /\ UNCHANGED <<conn_map, accepted, delivered, asked, g2c, answered>> /\ Seqs' = Seqs
  BY DEF Parts, connsvr, Base, FrameInv, SessionInv, Seqs
<1>2. /\ DOMAIN players' = DOMAIN players \ {idx}
      /\ \A i \in DOMAIN players' : players'[i] = players[i]
      /\ DOMAIN uid_to_player_idx_map' \subseteq DOMAIN uid_to_player_idx_map
      /\ \A u \in DOMAIN uid_to_player_idx_map' :
            /\ uid_to_player_idx_map'[u] = uid_to_player_idx_map[u]
            /\ ~(u = players[idx].uid /\ uid_to_player_idx_map[u] = idx)
  BY DEF Parts, DelPlayer, Without
<1>3. /\ 1 \in DOMAIN c2g /\ Head(c2g) = c2g[1] /\ Len(c2g) \in Nat
      /\ DOMAIN c2g = 1..Len(c2g) /\ DOMAIN c2g' = 1..Len(c2g) - 1
      /\ \A k \in 1..Len(c2g) - 1 : c2g'[k] = c2g[k + 1]
  BY <1>1, TailPlaces
<1>4. \A s, f : Of(s, f)' <=> Of(s, f)
  BY <1>1 DEF Of
<1>5. \A i : i # idx => /\ StopIn(c2g', i) <=> StopIn(c2g, i)
                        /\ \A k \in DOMAIN c2g' : StopBefore(c2g, k + 1, i) => StopBefore(c2g', k, i)
  BY <1>1, StopInTail
<1>6. \A i : Live(i)' <=> Live(i)
  <2>1. StopIn(c2g, idx)
    BY <1>1, <1>3 DEF StopIn
  <2> QED
    BY <1>2, <1>5, <2>1 DEF Live
<1>7. \A i : Live(i) => players'[i] = players[i]
  BY <1>2, <1>6 DEF Live
<1>8. AskInv' /\ DeliverInv'
  BY <1>1, <1>4 DEF Patience, AskInv, DeliverInv
<1>9. StartInv'
  <2> SUFFICES ASSUME NEW k \in DOMAIN c2g', NEW x, x = c2g'[k], x.cmd = "START"
               PROVE  /\ Of(x.seq, x.conn_fd)'
                      /\ \A i \in DOMAIN players' : Meets(x, i)' => StopBefore(c2g', k, i)
    BY DEF StartInv
  <2>1. k + 1 \in DOMAIN c2g /\ x = c2g[k + 1]
    BY <1>3
  <2>2. /\ Of(x.seq, x.conn_fd)
        /\ \A i \in DOMAIN players : Meets(x, i) => StopBefore(c2g, k + 1, i)
    BY <2>1 DEF Patience, StartInv
  <2>3. \A i \in DOMAIN players' : Meets(x, i)' <=> Meets(x, i)
    BY <1>1, <1>2 DEF Meets
  <2> QED
    BY <1>2, <1>4, <1>5, <2>2, <2>3
<1>10. QueueInv'
  BY <1>1, <1>2, StopsApartTail DEF Patience, QueueInv
<1>11. PlayerInv'
  <2>1. \A i \in DOMAIN players' : players'[i].conn_fd \in Fds
    BY <1>2 DEF Patience, PlayerInv
  <2>2. \A i, j \in DOMAIN players' : players'[i].conn_fd = players'[j].conn_fd => i = j
    BY <1>2 DEF Patience, PlayerInv
  <2>3. ASSUME NEW i, Live(i)', NEW f, f = players'[i].conn_fd
        PROVE  \E s \in Seqs : /\ Of(s, f) /\ players'[i].uid \in {0, asked[s].body.uid}
                               /\ conn_map[f].player_idx \in {0, i}
    BY <1>6, <1>7, <2>3 DEF Patience, PlayerInv
  <2>4. ASSUME NEW i, Live(i)'
        PROVE  \E s \in Seqs' : /\ Of(s, players[i].conn_fd)'
                                /\ players'[i].uid \in {0, asked'[s].body.uid}
                                /\ conn_map'[players'[i].conn_fd].player_idx \in {0, i}
    BY <1>1, <1>4, <2>3, <2>4
  <2> QED
    BY <2>1, <2>2, <2>4 DEF PlayerInv
<1>12. KnownInv'
  <2> SUFFICES ASSUME NEW f \in DOMAIN conn_map
               PROVE  /\ IsConn(conn_map[f])
                      /\ \A s \in Seqs : <<conn_map[f].conn, s>> \in delivered
                             => conn_map[f].player_idx # 0
                      /\ \A x : x = conn_map[f].player_idx /\ x # 0
                            => Live(x)' /\ players'[x].conn_fd = f
    BY <1>1 DEF KnownInv
  <2> QED
    BY <1>6, <1>7 DEF Patience, KnownInv
<1>13. ToldInv'
  <2>1. \A x : Told(x) => Told(x)'
    BY <1>4, <1>6, <1>7 DEF Told
  <2> QED
    BY <1>1, <2>1 DEF Patience, ToldInv
<1>14. LogicInv'
  <2>1. \A l : Answers(l) => Answers(l)'
    BY <1>1, <1>4, <1>6, <1>7 DEF Answers
  <2>2. ASSUME NEW id \in DOMAIN logics', logics'[id].type # "UPDATE_PLAYER", NEW l, l = logics'[id]
        PROVE  Answers(l)'
    <3>1. id \in DOMAIN logics /\ l = logics[id]
      BY <2>2 DEF Parts
    <3> QED
      BY <2>1, <2>2, <3>1 DEF Patience, LogicInv
  <2> QED
    BY <2>2 DEF LogicInv
<1>15. MapInv'
  BY <1>2 DEF Patience, MapInv
<1> QED
  BY <1>8, <1>9, <1>10, <1>11, <1>12, <1>13, <1>14, <1>15 DEF Patience

\* A logic ends without an answer.
LEMMA FewerStep ==
    ASSUME Base, Patience, Fewer, UNCHANGED <<connsvr, c2g, g2c, asked, answered, players,
                                              uid_to_player_idx_map>>
    PROVE  Patience'
<1>1. UNCHANGED <<conn_map, accepted, delivered>> /\ Seqs' = Seqs
  BY DEF connsvr, Seqs
<1>2. \A s, f : Of(s, f)' <=> Of(s, f)
  BY <1>1 DEF Of
<1>3. \A i : Live(i)' <=> Live(i)
  BY DEF Live
<1>4. AskInv' /\ DeliverInv' /\ QueueInv' /\ MapInv'
  BY <1>1, <1>2 DEF Patience, AskInv, DeliverInv, QueueInv, MapInv
<1>5. StartInv'
  <2>1. \A m, i : Meets(m, i)' <=> Meets(m, i)
    BY DEF Meets
  <2> QED
    BY <1>2, <2>1 DEF Patience, StartInv
<1>6. PlayerInv' /\ KnownInv'
  BY <1>1, <1>2, <1>3 DEF Patience, PlayerInv, KnownInv
<1>7. ToldInv'
  <2>1. \A x : Told(x) => Told(x)'
    BY <1>2, <1>3 DEF Told
  <2> QED
    BY <2>1 DEF Patience, ToldInv
<1>8. LogicInv'
  <2>1. \A l : Answers(l) => Answers(l)'
    BY <1>1, <1>2, <1>3 DEF Answers
  <2> QED
    BY <2>1 DEF Patience, LogicInv, Fewer
<1> QED
  BY <1>4, <1>5, <1>6, <1>7, <1>8 DEF Patience

\* Logic id ends with its answer; its player may have its account from then on.
Concludes(id, l, idx) ==
    /\ id \in DOMAIN logics /\ l = logics[id] /\ idx = l.player_idx
    /\ logics' = Without(logics, {id})
    /\ UNCHANGED <<connsvr, c2g, asked>> /\ Grows
    /\ \A x \in Msgs(g2c') :
          \/ x \in Msgs(g2c)
          \/ /\ x.cmd \in {"START", "PROC"} /\ x.player_idx = idx
             /\ x.conn_fd = players[idx].conn_fd
             /\ x.seq # 0 => x.seq = l.seq /\ answered'[l.seq] # 0
    /\ DOMAIN players' = DOMAIN players
    /\ \A i \in DOMAIN players : /\ players'[i].conn_fd = players[i].conn_fd
                                 /\ i # idx => players'[i] = players[i]
    /\ players'[idx].uid \in {0, l.uid}
    /\ \A u \in DOMAIN uid_to_player_idx_map' :
          \/ /\ u \in DOMAIN uid_to_player_idx_map
             /\ uid_to_player_idx_map'[u] = uid_to_player_idx_map[u]
          \/ u = l.uid /\ uid_to_player_idx_map'[u] = idx /\ players'[idx].uid = l.uid

LEMMA ConcludesStep ==
    ASSUME Base, Patience, NEW id, NEW l, NEW idx, Concludes(id, l, idx),
           l.type # "UPDATE_PLAYER"
    PROVE  Patience'
<1>1. /\ id \in DOMAIN logics /\ l = logics[id] /\ idx = l.player_idx
      /\ UNCHANGED <<conn_map, accepted, delivered, c2g, asked>> /\ Grows /\ Seqs' = Seqs
  BY DEF Concludes, connsvr, Seqs
<1>2. /\ DOMAIN players' = DOMAIN players
      /\ \A i \in DOMAIN players : /\ players'[i].conn_fd = players[i].conn_fd
                                   /\ i # idx => players'[i] = players[i]
      /\ players'[idx].uid \in {0, l.uid}
  BY DEF Concludes
<1>3. /\ Live(idx) /\ Of(l.seq, players[idx].conn_fd) /\ l.uid = asked[l.seq].body.uid
      /\ players[idx].uid = 0
  BY <1>1 DEF Patience, LogicInv, Answers
<1>4. OneEach /\ PendingOnce
  BY OneRequest, OnePlace DEF Base
<1>5. l.seq \in Seqs /\ l.seq # 0 /\ l.uid # 0 /\ idx \in DOMAIN players
  BY <1>3, <1>4, RequestBody DEF OneEach, Live
<1>6. \A s, f : Of(s, f)' <=> Of(s, f)
  BY <1>1 DEF Of
<1>7. \A i : Live(i)' <=> Live(i)
  BY <1>1, <1>2 DEF Live
<1>8. AskInv' /\ QueueInv'
  BY <1>1, <1>2, <1>6 DEF Patience, AskInv, QueueInv
<1>9. DeliverInv'
  <2>1. \A d \in delivered : answered'[d[2]] # 0 /\ asked[d[2]].conn = d[1]
    BY <1>1 DEF Patience, DeliverInv, Grows, Base, FrameInv, ConnTypeOK
  <2>2. \A x \in Msgs(g2c) : x.seq # 0 => x.seq \in Seqs
    BY DEF Base, FrameInv, SessionInv, AnswerMsg, Seqs
  <2>3. \A x \in Msgs(g2c') : x.seq # 0 => answered'[x.seq] # 0
    BY <1>1, <2>2 DEF Patience, DeliverInv, Grows, Concludes
  <2> QED
    BY <1>1, <2>1, <2>3 DEF DeliverInv
<1>10. StartInv'
  <2> SUFFICES ASSUME NEW k \in DOMAIN c2g, NEW x, x = c2g[k], x.cmd = "START"
               PROVE  /\ Of(x.seq, x.conn_fd)'
                      /\ \A i \in DOMAIN players : Meets(x, i)' => StopBefore(c2g, k, i)
    BY <1>1, <1>2 DEF StartInv
  <2>1. /\ Of(x.seq, x.conn_fd)
        /\ \A i \in DOMAIN players : Meets(x, i) => StopBefore(c2g, k, i)
    BY DEF Patience, StartInv
  <2>2. ASSUME NEW i \in DOMAIN players, Meets(x, i)' PROVE Meets(x, i)
    <3>1. CASE i # idx
      BY <1>1, <1>2, <2>2, <3>1 DEF Meets
    <3>2. CASE i = idx
      <4>1. asked[x.seq].body.uid # l.uid
        <5> SUFFICES ASSUME asked[x.seq].body.uid = l.uid PROVE FALSE
          OBVIOUS
        <5>1. x.seq = l.seq
          BY <1>3, <1>5, <2>1 DEF Patience, AskInv, Of
        <5> QED
          BY <1>1, <1>4, <1>5, <5>1 DEF PendingOnce
      <4> QED
        BY <1>1, <1>2, <1>3, <2>2, <3>2, <4>1 DEF Meets
    <3> QED
      BY <3>1, <3>2
  <2> QED
    BY <1>6, <2>1, <2>2
<1>11. PlayerInv'
  <2>1. \A i \in DOMAIN players' : players'[i].conn_fd \in Fds
    BY <1>2 DEF Patience, PlayerInv
  <2>2. \A i, j \in DOMAIN players' : players'[i].conn_fd = players'[j].conn_fd => i = j
    BY <1>2 DEF Patience, PlayerInv
  <2>3. ASSUME NEW i, Live(i)', NEW f, f = players'[i].conn_fd
        PROVE  \E s \in Seqs : /\ Of(s, f) /\ players'[i].uid \in {0, asked[s].body.uid}
                               /\ conn_map[f].player_idx \in {0, i}
    <3>1. Live(i) /\ i \in DOMAIN players /\ f = players[i].conn_fd
      BY <1>2, <1>7, <2>3 DEF Live
    <3>2. PICK s \in Seqs : /\ Of(s, f) /\ players[i].uid \in {0, asked[s].body.uid}
                            /\ conn_map[f].player_idx \in {0, i}
      BY <3>1 DEF Patience, PlayerInv
    <3>3. players'[i].uid \in {0, asked[s].body.uid}
      <4>1. CASE i = idx
        <5>1. s = l.seq
          BY <1>3, <1>4, <3>1, <3>2, <4>1 DEF OneEach
        <5> QED
          BY <1>2, <1>3, <4>1, <5>1
      <4>2. CASE i # idx
        BY <1>2, <3>1, <3>2, <4>2
      <4> QED
        BY <4>1, <4>2
    <3> QED
      BY <3>2, <3>3
  <2>4. ASSUME NEW i, Live(i)'
        PROVE  \E s \in Seqs' : /\ Of(s, players[i].conn_fd)'
                                /\ players'[i].uid \in {0, asked'[s].body.uid}
                                /\ conn_map'[players'[i].conn_fd].player_idx \in {0, i}
    BY <1>1, <1>6, <2>3, <2>4
  <2> QED
    BY <2>1, <2>2, <2>4 DEF PlayerInv
<1>12. KnownInv'
  <2> SUFFICES ASSUME NEW f \in DOMAIN conn_map
               PROVE  /\ IsConn(conn_map[f])
                      /\ \A s \in Seqs : <<conn_map[f].conn, s>> \in delivered
                             => conn_map[f].player_idx # 0
                      /\ \A x : x = conn_map[f].player_idx /\ x # 0
                            => Live(x)' /\ players'[x].conn_fd = f
    BY <1>1 DEF KnownInv
  <2> QED
    BY <1>2, <1>7 DEF Patience, KnownInv, Live
<1>13. ToldInv'
  <2>1. ASSUME NEW x \in Msgs(g2c') PROVE Told(x)'
    <3>1. CASE x \in Msgs(g2c)
      <4>1. Told(x)
        BY <3>1 DEF Patience, ToldInv
      <4> QED
        BY <1>2, <1>6, <1>7, <4>1 DEF Told, Live
    <3>2. CASE /\ x.cmd \in {"START", "PROC"} /\ x.player_idx = idx
               /\ x.conn_fd = players[idx].conn_fd
               /\ x.seq # 0 => x.seq = l.seq
      <4>1. x.seq # 0 => Of(x.seq, x.conn_fd)'
        BY <1>3, <1>6, <3>2
      <4> QED
        BY <1>2, <1>3, <1>5, <1>7, <3>2, <4>1 DEF Told
    <3> QED
      BY <2>1, <3>1, <3>2 DEF Concludes
  <2> QED
    BY <2>1 DEF ToldInv
<1>14. LogicInv'
  <2>1. ASSUME NEW k \in DOMAIN logics', NEW n, n = logics'[k], n.type # "UPDATE_PLAYER"
        PROVE  Answers(n)'
    <3>1. k \in DOMAIN logics /\ k # id /\ n = logics[k]
      BY <2>1 DEF Concludes, Without
    <3>2. Answers(n)
      BY <2>1, <3>1 DEF Patience, LogicInv
    <3>3. n.player_idx # idx
      <4> SUFFICES ASSUME n.player_idx = idx PROVE FALSE
        OBVIOUS
      <4>1. n.seq = l.seq
        BY <1>3, <1>4, <3>2 DEF Answers, OneEach
      <4> QED
        BY <1>1, <1>4, <1>5, <3>1, <4>1 DEF PendingOnce
    <3>4. players'[n.player_idx] = players[n.player_idx]
      BY <1>2, <3>2, <3>3 DEF Answers, Live
    <3> QED
      BY <1>1, <1>6, <1>7, <3>2, <3>4 DEF Answers
  <2> QED
    BY <2>1 DEF LogicInv
<1>15. MapInv'
  <2>1. ASSUME NEW u \in DOMAIN uid_to_player_idx_map', NEW i, i = uid_to_player_idx_map'[u]
        PROVE  i \in DOMAIN players /\ players'[i].uid = u /\ u # 0
    <3>1. CASE u \in DOMAIN uid_to_player_idx_map /\ i = uid_to_player_idx_map[u]
      BY <1>2, <1>3, <3>1 DEF Patience, MapInv
    <3>2. CASE u = l.uid /\ i = idx /\ players'[idx].uid = l.uid
      BY <1>5, <3>2
    <3> QED
      BY <2>1, <3>1, <3>2 DEF Concludes
  <2> QED
    BY <1>2, <2>1 DEF MapInv
<1> QED
  BY <1>8, <1>9, <1>10, <1>11, <1>12, <1>13, <1>14, <1>15 DEF Patience

-----------------------------------------------------------------------------
(* Which of these a step of gamesvr is *)

Sound == Base /\ Patience /\ ExpectInv /\ GoodData /\ GoodPlayers /\ CityOwnership /\ Up
Session == \/ \E m, idx : Joins(m, idx)
           \/ \E idx : Parts(idx)
           \/ Fewer /\ UNCHANGED <<connsvr, c2g, g2c, asked, answered, players,
                                   uid_to_player_idx_map>>
           \/ \E id, l, idx : Concludes(id, l, idx) /\ l.type # "UPDATE_PLAYER"
SendsGood == UNCHANGED g2d \/ \E r : GoodRequest(r) /\ g2d' = Push(g2d, <<r>>)

LEMMA SendsGrow ==
    ASSUME SessionInv, NEW t, Sends(t)
    PROVE  Grows /\ (t \in Seqs => answered'[t] # 0)
<1>0. \A S : \A q \in Seq(S) : \A k \in 1..Len(q) : q[k] \in S
  OBVIOUS
<1>1. answered \in Seq(Nat) /\ Len(answered) = Len(asked)
  BY DEF SessionInv
<1>2. \A s \in Seqs : answered[s] \in Nat
  BY <1>0, <1>1 DEF Seqs
<1>3. \A s \in Seqs : answered'[s] = answered[s] + IF s = t THEN 1 ELSE 0
  BY <1>1 DEF Sends, Counted, Seqs
<1> QED
  BY <1>2, <1>3 DEF Grows

\* A START: the account of a login is nobody's, so that nobody is kicked off.
LEMMA StartJoins ==
    ASSUME Sound, PatientClients, ConnStart, UNCHANGED connsvr
    PROVE  (\E m, idx : Joins(m, idx)) /\ SendsGood /\ GoodPlayers'
<1>0. PICK idx \in PlayerUnits \ DOMAIN players :
          LET m == Head(c2g)
              ps == With(players, idx, NewPlayer(m.conn_fd))
          IN  players' = ps /\ HandleRequest(m, idx, ps)
  BY DEF ConnStart
<1>1. PICK m : m = Head(c2g)
  OBVIOUS
<1> DEFINE ps == With(players, idx, NewPlayer(m.conn_fd))
           body == asked[m.seq].body
<1>2. /\ c2g # <<>> /\ m.cmd = "START" /\ c2g' = Tail(c2g) /\ players' = ps
      /\ HandleRequest(m, idx, ps)
      /\ UNCHANGED <<asked, uid_to_player_idx_map>>
  BY <1>0, <1>1 DEF ConnStart, FromConnsvr
<1>3. /\ Of(m.seq, m.conn_fd) /\ body.uid # 0
      /\ body.uid \notin DOMAIN uid_to_player_idx_map
  BY <1>1, <1>2, HeadFree DEF Sound
<1>4. m.seq \in Seqs /\ body \in Bodies
  BY <1>3, RequestBody DEF Of, Sound
<1>5. body.cmd = "LOGIN" => body.check = "ok" /\ Verified(body.uid, body.pw)
  BY <1>4 DEF PatientClients, Sound, GoodData, KnownLogins
<1>6. ps[idx].conn_fd = m.conn_fd
  BY DEF With, NewPlayer
<1>7. SessionInv
  BY DEF Sound, Base, FrameInv
<1>8. GoodPlayers'
  <2>1. Cardinality({}) = 0
    BY FS_EmptySet
  <2>2. /\ DOMAIN players' = DOMAIN players \cup {idx}
        /\ \A i \in DOMAIN players : i # idx => players'[i] = players[i]
        /\ players'[idx].uid = 0 /\ players'[idx].city_list = {}
    BY <1>2 DEF With, NewPlayer
  <2> QED
    BY <2>1, <2>2 DEF Sound, GoodPlayers
\* What is sent and what is kept of the request.
<1> DEFINE TellsIt == \A x \in Msgs(g2c') :
               \/ x \in Msgs(g2c)
               \/ /\ x.cmd = "START" /\ x.player_idx = idx /\ x.conn_fd = m.conn_fd
                  /\ x.seq = m.seq /\ answered'[m.seq] # 0
           KeepsIt == \A id \in DOMAIN logics' :
               \/ id \in DOMAIN logics /\ logics'[id] = logics[id]
               \/ /\ \/ logics'[id].type = "REG"
                     \/ logics'[id].type = "LOGIN" /\ logics'[id].step = 2
                  /\ logics'[id].player_idx = idx /\ logics'[id].seq = m.seq
                  /\ logics'[id].uid = body.uid
<1>9. TellsIt /\ KeepsIt /\ Grows => Joins(m, idx)
  BY <1>0, <1>1, <1>2 DEF Joins
<1>10. UNCHANGED g2c => TellsIt
  OBVIOUS
<1>11. UNCHANGED answered => Grows
  BY DEF Grows
<1>12. UNCHANGED logics => KeepsIt
  OBVIOUS
<1>13. ASSUME NEW type, NEW step, Yield(type, step, m.seq, idx, body),
              type = "REG" \/ (type = "LOGIN" /\ step = 2)
       PROVE  KeepsIt
  <2>1. /\ DOMAIN logics' = DOMAIN logics \cup {NextLogic}
        /\ \A id \in DOMAIN logics : id # NextLogic => logics'[id] = logics[id]
        /\ logics'[NextLogic] = [type |-> type, step |-> step, seq |-> m.seq,
               player_idx |-> idx, uid |-> body.uid, password_hash |-> body.pw]
    BY <1>13 DEF Yield, With
  <2> QED
    BY <1>13, <2>1
<1> HIDE DEF ps, body, TellsIt, KeepsIt
<1>14. CASE Unregistered(body) \/ OnStep0Failed(body, idx, ps)
  <2>1. UNCHANGED <<logics, g2c, g2d, answered>>
    BY <1>14 DEF Unregistered, OnStep0Failed
  <2> QED
    BY <1>8, <1>9, <1>10, <1>11, <1>12, <2>1 DEF SendsGood
<1>15. CASE OnStep0Rejected(m, body, ps[idx], idx)
  <2> DEFINE a == Answer(ps[idx], idx, m.seq, body.cmd, -1)
  <2>1. SendAnswers(<<a>>) /\ UNCHANGED <<logics, g2d>> /\ body.cmd # "LOGIN"
    BY <1>5, <1>15 DEF OnStep0Rejected
  <2>2. /\ a.cmd = "START" /\ a.conn_fd = m.conn_fd /\ a.player_idx = idx /\ a.seq = m.seq
    BY <1>6, <2>1 DEF Answer, ToConn
  <2> HIDE DEF a
  <2>3. m.conn_fd \in Nat /\ idx \in Nat /\ m.seq \in 0..Len(asked)
    <3>1. RequestMsg(m, Len(asked))
      BY <1>1, <1>2, <1>7, TailMsgs DEF SessionInv
    <3> QED
      BY <1>0, <3>1, GameObjectsAssumption DEF RequestMsg, PlayerUnits
  <2>4. AnswerMsg(a, Len(asked))
    BY <2>2, <2>3 DEF AnswerMsg
  <2>5. Sends(m.seq)
    BY <1>7, <2>1, <2>2, <2>4, OneAnswer
  <2>6. Grows /\ answered'[m.seq] # 0
    BY <1>4, <1>7, <2>5, SendsGrow
  <2>7. Msgs(g2c') \subseteq Msgs(g2c) \cup {a}
    BY <1>7, <2>1, PushMsgs, OneMsg DEF SendAnswers, SessionInv
  <2>8. TellsIt
    BY <2>2, <2>6, <2>7 DEF TellsIt
  <2> QED
    BY <1>8, <1>9, <1>12, <2>1, <2>6, <2>8 DEF SendsGood
<1>16. CASE OnStep0Reg(m, body, idx)
  <2>1. /\ Yield("REG", 1, m.seq, idx, body) /\ UNCHANGED <<g2c, answered>>
        /\ g2d' = Push(g2d, <<ToData("REG", NextLogic, body.uid, body.pw, 1)>>)
    BY <1>16 DEF OnStep0Reg, SendToDatasvr
  <2>2. GoodRequest(ToData("REG", NextLogic, body.uid, body.pw, 1))
    BY <1>3 DEF GoodRequest, ToData, body
  <2>3. SendsGood
    BY <2>1, <2>2 DEF SendsGood
  <2>4. KeepsIt
    BY <1>13, <2>1
  <2> QED
    BY <1>8, <1>9, <1>10, <1>11, <2>1, <2>3, <2>4
<1>17. CASE OnStep0Login(m, body, idx)
  <2>1. /\ Yield("LOGIN", 2, m.seq, idx, body) /\ UNCHANGED <<g2c, answered>>
        /\ g2d' = Push(g2d, <<ToData("GET", NextLogic, body.uid, body.pw, 0)>>)
        /\ body.cmd = "LOGIN"
    BY <1>17 DEF OnStep0Login, SendToDatasvr
  <2>2. GoodRequest(ToData("GET", NextLogic, body.uid, body.pw, 0))
    BY <1>5, <2>1 DEF GoodRequest, ToData, body
  <2>3. SendsGood
    BY <2>1, <2>2 DEF SendsGood
  <2>4. KeepsIt
    BY <1>13, <2>1
  <2> QED
    BY <1>8, <1>9, <1>10, <1>11, <2>1, <2>3, <2>4
<1>18. ~OnStep0Kick(m, body, idx, ps)
  <2>1. FindPlayerIdxByUid(body.uid) = 0
    BY <1>3 DEF FindPlayerIdxByUid, body
  <2>2. ~(FindPlayerIdxByUid(body.uid) > 0)
    BY <2>1
  <2> QED
    BY <2>2 DEF OnStep0Kick
<1> QED
  BY <1>2, <1>14, <1>15, <1>16, <1>17, <1>18 DEF HandleRequest, body

\* A STOP: what is saved of the player is what it came with.
LEMMA StopParts ==
    ASSUME Sound, ConnStop, UNCHANGED connsvr
    PROVE  (\E idx : Parts(idx)) /\ SendsGood /\ GoodPlayers'
<1> DEFINE idx == Head(c2g).player_idx
<1>1. Queue(c2g) /\ c2g # <<>> /\ Head(c2g).cmd = "STOP" /\ c2g' = Tail(c2g)
  BY DEF ConnStop, FromConnsvr, Sound, Base, FrameInv, SessionInv
<1>2. idx \in DOMAIN players
  BY <1>1, StopsApartTail DEF Sound, Patience, QueueInv
<1>3. /\ SendToDatasvr(SetPlayerData(players[idx], NextLogic))
      /\ Yield("UPDATE_PLAYER", 1, 0, idx, [uid |-> 0, pw |-> 0])
      /\ DelPlayer(idx) /\ UNCHANGED <<g2c, asked, answered>>
  BY <1>2 DEF ConnStop
<1>4. \A id \in DOMAIN logics' : \/ id \in DOMAIN logics /\ logics'[id] = logics[id]
                                 \/ logics'[id].type = "UPDATE_PLAYER"
  BY <1>3 DEF Yield, With
<1>5. Parts(idx)
  BY <1>1, <1>3, <1>4 DEF Parts
<1>6. SendsGood
  <2> DEFINE r == SetPlayerData(players[idx], NextLogic)
  <2>1. /\ r.cmd = "SET" /\ r.uid = players[idx].uid
        /\ r.cities = Cardinality(players[idx].city_list)
    BY DEF SetPlayerData, ToData
  <2>2. r.cities = 1 \/ r.uid = 0
    BY <1>2, <2>1 DEF Sound, GoodPlayers
  <2> HIDE DEF r
  <2>3. GoodRequest(r)
    BY <2>1, <2>2 DEF GoodRequest
  <2>4. g2d' = Push(g2d, <<r>>)
    BY <1>3 DEF SendToDatasvr, r
  <2> QED
    BY <2>3, <2>4 DEF SendsGood
<1>7. GoodPlayers'
  BY <1>3 DEF DelPlayer, Without, Sound, GoodPlayers
<1> QED
  BY <1>5, <1>6, <1>7

\* An answer for a logic is the answer to its own request, and a good one.
LEMMA AnswerGood ==
    ASSUME Sound, FromDatasvr, Resumed \in DOMAIN logics, NEW l, l = logics[Resumed],
           l.type # "UPDATE_PLAYER"
    PROVE  /\ l.type = "REG" \/ (l.type = "LOGIN" /\ l.step = 2)
           /\ Answers(l) /\ l.player_idx \in DOMAIN players
           /\ l.seq \in Seqs /\ l.player_idx \in Nat /\ players[l.player_idx].conn_fd \in Nat
           /\ l.type = "LOGIN" => Head(d2g).ret = 0 /\ Head(d2g).cities = 1
<1>1. Answers(l) /\ (l.type = "REG" \/ (l.type = "LOGIN" /\ l.step = 2))
  BY DEF Sound, Patience, LogicInv, Answers
<1>2. l.player_idx \in DOMAIN players /\ l.seq \in Seqs
  BY <1>1 DEF Answers, Live, Of
<1>3. l.player_idx \in Nat /\ players[l.player_idx].conn_fd \in Nat
  <2>1. GameTypeOK
    BY DEF Sound, Base, FrameInv, GameInv
  <2>2. l.player_idx \in PlayerUnits /\ players[l.player_idx].conn_fd \in Nat
    BY <1>2, <2>1 DEF GameTypeOK, ObjectsTypeOK
  <2> QED
    BY <2>2, GameObjectsAssumption DEF PlayerUnits
<1>4. ASSUME l.type = "LOGIN" PROVE Head(d2g).ret = 0 /\ Head(d2g).cities = 1
  <2> DEFINE w == Want(logics[Resumed])
  <2>1. Head(d2g) \in Msgs(d2g)
    BY TailMsgs DEF FromDatasvr, Sound, Base, FrameInv, DataInv
  <2>2. Meant(Resumed, w) /\ w.cmd = "GET"
    BY <1>1, <1>4 DEF Sound, ExpectInv, LogicMeant, Want, Expects
  <2> HIDE DEF w
  <2>3. Head(d2g).cmd = "GET"
    BY <2>1, <2>2 DEF Meant, Resumed
  <2> QED
    BY <2>1, <2>3 DEF Sound, GoodData, GoodAnswer
<1> QED
  BY <1>1, <1>2, <1>3, <1>4

\* The answer to a registration.
LEMMA AnswerConcludes ==
    ASSUME Sound, ResumeAnswer, UNCHANGED connsvr
    PROVE  \E id, l, idx : Concludes(id, l, idx) /\ l.type # "UPDATE_PLAYER"
<1>1. PICK l : l = logics[Resumed]
  OBVIOUS
<1>2. PICK idx : idx = l.player_idx
  OBVIOUS
<1> DEFINE a == Answer(players[idx], idx, l.seq, l.type, Head(d2g).ret)
<1>3. /\ FromDatasvr /\ Resumed \in DOMAIN logics /\ l.type \in {"REG", "LOGIN"}
      /\ l.type = "LOGIN" => Head(d2g).ret # 0
      /\ SendAnswers(<<a>>) /\ logics' = Without(logics, {Resumed})
      /\ UNCHANGED <<c2g, asked, players, uid_to_player_idx_map>>
  BY <1>1, <1>2 DEF ResumeAnswer, Waits, Finish, ItsPlayer
<1>4. /\ l.type = "REG" /\ Answers(l) /\ idx \in DOMAIN players
      /\ l.seq \in Seqs /\ idx \in Nat /\ players[idx].conn_fd \in Nat
  BY <1>1, <1>2, <1>3, AnswerGood
<1>5. /\ a.cmd = "START" /\ a.conn_fd = players[idx].conn_fd
      /\ a.player_idx = idx /\ a.seq = l.seq
  BY <1>4 DEF Answer, ToConn
<1> HIDE DEF a
<1>6. SessionInv /\ l.seq \in 0..Len(asked)
  BY <1>4 DEF Sound, Base, FrameInv, SessionInv, Seqs
<1>7. AnswerMsg(a, Len(asked))
  BY <1>4, <1>5, <1>6 DEF AnswerMsg
<1>8. Sends(l.seq)
  BY <1>3, <1>5, <1>6, <1>7, OneAnswer
<1>9. Grows /\ answered'[l.seq] # 0
  BY <1>4, <1>6, <1>8, SendsGrow
<1>10. Msgs(g2c') \subseteq Msgs(g2c) \cup {a}
  BY <1>3, <1>6, PushMsgs, OneMsg DEF SendAnswers, SessionInv
<1>11. players[idx].uid = 0
  BY <1>2, <1>4 DEF Answers
<1>12. Concludes(Resumed, l, idx)
  BY <1>1, <1>2, <1>3, <1>4, <1>5, <1>9, <1>10, <1>11 DEF Concludes
<1> QED
  BY <1>4, <1>12

\* The answer to a login: the player, which had no city, has the one of its account.
LEMMA LoginConcludes ==
    ASSUME Sound, ResumeLoginOk, UNCHANGED connsvr
    PROVE  /\ \E id, l, idx : Concludes(id, l, idx) /\ l.type # "UPDATE_PLAYER"
           /\ GoodPlayers'
<1>1. PICK l : l = logics[Resumed]
  OBVIOUS
<1>2. PICK idx : idx = l.player_idx
  OBVIOUS
<1>3. PICK player : player = players[idx]
  OBVIOUS
<1> DEFINE a == Answer(player, idx, l.seq, "LOGIN", 0)
           b == ToConn("PROC", player.conn_fd, idx, 0, 0)
<1>4. /\ FromDatasvr /\ Resumed \in DOMAIN logics /\ l.type = "LOGIN"
      /\ SendAnswers(<<a, b>>) /\ logics' = Without(logics, {Resumed})
      /\ BindUid(l.uid, idx)
      /\ UNCHANGED <<c2g, asked>>
  BY <1>1, <1>2, <1>3 DEF ResumeLoginOk, Waits, Finish, ItsPlayer
<1>5. PICK new \in SUBSET (CityUnits \ cities) :
          /\ Cardinality(new) = Head(d2g).cities
          /\ players' = [players EXCEPT ![idx] = LoggedIn(player, l, new)]
  BY <1>1, <1>2, <1>3 DEF ResumeLoginOk, ItsPlayer
<1>6. /\ Answers(l) /\ idx \in DOMAIN players
      /\ l.seq \in Seqs /\ idx \in Nat /\ player.conn_fd \in Nat
      /\ Head(d2g).cities = 1
  BY <1>1, <1>2, <1>3, <1>4, AnswerGood
<1>7. l.uid # 0 /\ player.uid = 0
  BY <1>2, <1>3, <1>6, RequestBody DEF Answers, Sound
<1>8. /\ DOMAIN players' = DOMAIN players
      /\ \A i \in DOMAIN players : i # idx => players'[i] = players[i]
      /\ players'[idx] = LoggedIn(player, l, new)
  BY <1>5, <1>6
<1>9. /\ players'[idx].conn_fd = player.conn_fd /\ players'[idx].uid = l.uid
      /\ players'[idx].city_list = player.city_list \cup new
  BY <1>8 DEF LoggedIn
<1>10. GoodPlayers'
  <2>1. player.city_list \subseteq CityUnits /\ Cardinality(player.city_list) = 0
    BY <1>3, <1>6, <1>7
       DEF Sound, GoodPlayers, Base, FrameInv, GameInv, GameTypeOK, ObjectsTypeOK
  <2>2. player.city_list = {}
    <3>1. IsFiniteSet(player.city_list)
      BY <2>1, CitiesCounted
    <3> QED
      BY <2>1, <3>1, FS_EmptySet
  <2>3. Cardinality(players'[idx].city_list) = 1
    BY <1>5, <1>6, <1>9, <2>2
  <2> QED
    BY <1>7, <1>8, <1>9, <2>3 DEF Sound, GoodPlayers
<1>11. /\ a.cmd = "START" /\ a.conn_fd = players[idx].conn_fd
       /\ a.player_idx = idx /\ a.seq = l.seq
       /\ b.cmd = "PROC" /\ b.conn_fd = players[idx].conn_fd
       /\ b.player_idx = idx /\ b.seq = 0
  BY <1>3 DEF Answer, ToConn
<1> HIDE DEF a, b
<1>12. SessionInv /\ l.seq \in 0..Len(asked) /\ 0 \in 0..Len(asked)
  BY <1>6 DEF Sound, Base, FrameInv, SessionInv, Seqs
<1>13. AnswerMsg(a, Len(asked)) /\ AnswerMsg(b, Len(asked))
  BY <1>3, <1>6, <1>11, <1>12 DEF AnswerMsg
<1>14. Sends(l.seq)
  BY <1>4, <1>11, <1>12, <1>13, AnswerAndNotice
<1>15. Grows /\ answered'[l.seq] # 0
  BY <1>6, <1>12, <1>14, SendsGrow
<1>16. Msgs(g2c') \subseteq Msgs(g2c) \cup {a, b}
  BY <1>4, <1>12, PushMsgs, TwoMsgs DEF SendAnswers, SessionInv
<1>17. \A u \in DOMAIN uid_to_player_idx_map' :
          \/ /\ u \in DOMAIN uid_to_player_idx_map
             /\ uid_to_player_idx_map'[u] = uid_to_player_idx_map[u]
          \/ u = l.uid /\ uid_to_player_idx_map'[u] = idx
  BY <1>4 DEF BindUid, With
<1>18. \A x \in Msgs(g2c') :
          \/ x \in Msgs(g2c)
          \/ /\ x.cmd \in {"START", "PROC"} /\ x.player_idx = idx
             /\ x.conn_fd = players[idx].conn_fd
             /\ x.seq # 0 => x.seq = l.seq /\ answered'[l.seq] # 0
  BY <1>11, <1>15, <1>16
<1>19. \A i \in DOMAIN players : players'[i].conn_fd = players[i].conn_fd
  BY <1>3, <1>8, <1>9
<1>20. Concludes(Resumed, l, idx)
  BY <1>1, <1>2, <1>4, <1>8, <1>9, <1>15, <1>17, <1>18, <1>19 DEF Concludes
<1> QED
  BY <1>4, <1>10, <1>20

-----------------------------------------------------------------------------
(* Room for the objects *)

\* Units enough for all connections cannot all be those of others.
LEMMA UnitsLeft ==
    ASSUME NEW fd \in Fds, NEW n \in Nat, ConnPoolSize <= n,
           NEW f \in [1..n -> Fds \ {fd}], \A x, y \in 1..n : f[x] = f[y] => x = y
    PROVE  FALSE
<1>1. ConnPoolSize \in Nat /\ Fds = 1..ConnPoolSize
  BY ConnSvrAssumption DEF Fds
<1>2. IsFiniteSet(1..n) /\ Cardinality(1..n) = n
  BY UpTo
<1>3. IsFiniteSet(Fds) /\ Cardinality(Fds) = ConnPoolSize
  BY <1>1, UpTo
<1>4. IsFiniteSet(Fds \ {fd}) /\ Cardinality(Fds \ {fd}) = ConnPoolSize - 1
  BY <1>3, FS_RemoveElement
<1>5. Cardinality(Fds \ {fd}) < Cardinality(1..n)
  BY <1>1, <1>2, <1>4
<1> QED
  BY <1>2, <1>4, <1>5, FS_PigeonHole

\* A START finds a free player: the others have the other descriptors.
LEMMA RoomForPlayer == ASSUME Sound, RoomForAll PROVE ~ConnStartFull
<1> SUFFICES ASSUME ConnStartFull PROVE FALSE
  OBVIOUS
<1> DEFINE m == Head(c2g)
           f == [i \in 1..PlayerPoolSize |-> players[i].conn_fd]
<1>1. c2g # <<>> /\ m.cmd = "START" /\ \A i \in 1..PlayerPoolSize : i \in DOMAIN players
  BY DEF ConnStartFull, FromConnsvr, PlayerUnits
<1>2. m.conn_fd \in Fds /\ \A i \in DOMAIN players : players[i].conn_fd # m.conn_fd
  BY <1>1, HeadFree, OneRequest DEF Sound, Meets, OneEach
<1>3. \A i \in 1..PlayerPoolSize : f[i] \in Fds \ {m.conn_fd}
  BY <1>1, <1>2 DEF Sound, Patience, PlayerInv
<1>4. \A i, j \in 1..PlayerPoolSize : f[i] = f[j] => i = j
  BY <1>1 DEF Sound, Patience, PlayerInv
<1>5. PlayerPoolSize \in Nat /\ ConnPoolSize <= PlayerPoolSize
  BY GameObjectsAssumption DEF RoomForAll
<1>6. f \in [1..PlayerPoolSize -> Fds \ {m.conn_fd}]
  BY <1>3
<1> HIDE DEF f, m
<1> QED
  BY <1>2, <1>4, <1>5, <1>6, UnitsLeft

\* A set with one element, or none.
LEMMA SingleOrNone ==
    ASSUME NEW S, IsFiniteSet(S)
    PROVE  /\ Cardinality(S) = 0 => S = {}
           /\ Cardinality(S) = 1 => \A x, y \in S : x = y
<1>1. Cardinality(S) = 0 => S = {}
  BY FS_EmptySet
<1>2. ASSUME Cardinality(S) = 1, NEW x \in S, NEW y \in S PROVE x = y
  <2>1. PICK z : S = {z}
    BY <1>2, FS_Singleton
  <2> QED
    BY <2>1
<1> QED
  BY <1>1, <1>2

\* A login finds a free city: the cities in use are of players with other
\* descriptors, one each.
LEMMA RoomForCity == ASSUME Sound, RoomForAll PROVE ~ResumeLoginNoCity
<1> SUFFICES ASSUME ResumeLoginNoCity PROVE FALSE
  OBVIOUS
<1>1. PICK l, idx : l = logics[Resumed] /\ idx = l.player_idx
  OBVIOUS
<1>2. /\ FromDatasvr /\ Resumed \in DOMAIN logics /\ l.type = "LOGIN"
      /\ \/ Cardinality(CityUnits \ cities) < Head(d2g).cities
         \/ Cardinality(players[idx].city_list) + Head(d2g).cities > MaxCities
  BY <1>1 DEF ResumeLoginNoCity, Waits, ItsPlayer
<1>3. Answers(l) /\ idx \in DOMAIN players /\ Head(d2g).cities = 1
  BY <1>1, <1>2, AnswerGood
<1>4. players[idx].uid = 0 /\ Cardinality(players[idx].city_list) = 0
  BY <1>1, <1>3 DEF Answers, Sound, GoodPlayers
<1>5. \A i \in DOMAIN players : players[i].city_list \subseteq CityUnits
  BY DEF Sound, Base, FrameInv, GameInv, GameTypeOK, ObjectsTypeOK
<1>6. Cardinality(CityUnits \ cities) < 1
  <2>1. MaxCities \in Nat /\ MaxCities >= 1
    BY GameObjectsAssumption DEF RoomForAll
  <2>2. ~(0 + 1 > MaxCities)
    BY <2>1
  <2> QED
    BY <1>2, <1>3, <1>4, <2>2
<1>7. CityUnits \subseteq cities
  <2>1. (CityUnits \ cities) \in SUBSET CityUnits
    OBVIOUS
  <2>2. IsFiniteSet(CityUnits \ cities) /\ Cardinality(CityUnits \ cities) \in Nat
    BY <2>1, CitiesCounted
  <2>3. Cardinality(CityUnits \ cities) = 0
    BY <1>6, <2>2
  <2> QED
    BY <2>2, <2>3, SingleOrNone
<1> DEFINE Owner(c) == CHOOSE i \in DOMAIN players : c \in players[i].city_list
           f == [c \in 1..CityPoolSize |-> players[Owner(c)].conn_fd]
           fd == players[idx].conn_fd
<1>8. ASSUME NEW c \in 1..CityPoolSize
      PROVE  /\ Owner(c) \in DOMAIN players /\ c \in players[Owner(c)].city_list
             /\ Owner(c) # idx
  <2>1. c \in cities
    BY <1>7 DEF CityUnits
  <2>2. \E i \in DOMAIN players : c \in players[i].city_list
    BY <2>1 DEF Sound, CityOwnership
  <2>3. Owner(c) \in DOMAIN players /\ c \in players[Owner(c)].city_list
    BY <2>2
  <2>4. c \notin players[idx].city_list
    <3>1. IsFiniteSet(players[idx].city_list)
      BY <1>3, <1>5, CitiesCounted
    <3> QED
      BY <1>4, <3>1, SingleOrNone
  <2> QED
    BY <2>3, <2>4
<1> HIDE DEF Owner
<1>9. \A i, j \in DOMAIN players : players[i].conn_fd = players[j].conn_fd => i = j
  BY DEF Sound, Patience, PlayerInv
<1>10. fd \in Fds /\ \A i \in DOMAIN players : players[i].conn_fd \in Fds
  BY <1>3 DEF Sound, Patience, PlayerInv
<1>11. \A c \in 1..CityPoolSize : f[c] \in Fds \ {fd}
  BY <1>3, <1>8, <1>9, <1>10
<1>12. ASSUME NEW c \in 1..CityPoolSize, NEW d \in 1..CityPoolSize, f[c] = f[d] PROVE c = d
  <2>1. Owner(c) = Owner(d)
    BY <1>8, <1>9, <1>12
  <2>2. PICK i \in DOMAIN players : c \in players[i].city_list /\ d \in players[i].city_list
    BY <1>8, <2>1
  <2>3. Cardinality(players[i].city_list) \in {0, 1}
    BY DEF Sound, GoodPlayers
  <2>4. IsFiniteSet(players[i].city_list)
    BY <1>5, CitiesCounted
  <2> QED
    BY <2>2, <2>3, <2>4, SingleOrNone
<1>13. CityPoolSize \in Nat /\ ConnPoolSize <= CityPoolSize
  BY GameObjectsAssumption DEF RoomForAll
<1>14. f \in [1..CityPoolSize -> Fds \ {fd}]
  BY <1>11
<1> HIDE DEF f, fd
<1> QED
  BY <1>10, <1>12, <1>13, <1>14, UnitsLeft

-----------------------------------------------------------------------------
(* The steps of the system *)

\* Any step of gamesvr, which does not end.
LEMMA SessionStep ==
    ASSUME Sound, PatientClients, RoomForAll, GameNext, UNCHANGED connsvr
    PROVE  Session /\ SendsGood /\ GoodPlayers' /\ Up'
<1>1. "kill" \notin Faults
  BY DEF PatientClients
<1>2. UNCHANGED players => GoodPlayers'
  BY DEF Sound, GoodPlayers
<1>3. UNCHANGED g2d => SendsGood
  BY DEF SendsGood
<1>4. UNCHANGED status => Up'
  BY DEF Up, Sound
<1>5. CASE ConnStart
  BY <1>4, <1>5, StartJoins DEF Session, ConnStart
<1>6. CASE ConnStop
  BY <1>4, <1>6, StopParts DEF Session, ConnStop
<1>7. CASE ResumeNoLogic \/ ResumeFinish \/ \E l \in 1..logic_count : OnTimer(l)
  <2>1. UNCHANGED <<c2g, g2c, g2d, asked, answered, status, players, uid_to_player_idx_map>>
    BY <1>7 DEF ResumeNoLogic, ResumeFinish, OnTimer, gamesvr, links
  <2>2. Fewer
    BY <1>7 DEF ResumeNoLogic, ResumeFinish, OnTimer, gamesvr, Finish, Without, Fewer
  <2> QED
    BY <1>2, <1>3, <1>4, <2>1, <2>2 DEF Session
<1>8. CASE ResumeAnswer
  BY <1>2, <1>3, <1>4, <1>8, AnswerConcludes DEF Session, ResumeAnswer
<1>9. CASE ResumeLoginOk
  BY <1>3, <1>4, <1>9, LoginConcludes DEF Session, ResumeLoginOk
<1>10. ~ConnStartFull /\ ~ResumeLoginNoCity
  BY RoomForPlayer, RoomForCity
<1>11. ~ResumeLoginNoPlayer /\ ~ResumeLoginSaved
  <2> SUFFICES ASSUME ResumeLoginNoPlayer \/ ResumeLoginSaved PROVE FALSE
    OBVIOUS
  <2>1. PICK l : l = logics[Resumed]
    OBVIOUS
  <2>2. /\ FromDatasvr /\ Resumed \in DOMAIN logics /\ l.type = "LOGIN"
        /\ l.step = 1 \/ l.player_idx \notin DOMAIN players
    BY <2>1 DEF ResumeLoginNoPlayer, ResumeLoginSaved, Waits, ItsPlayer
  <2> QED
    BY <2>1, <2>2, AnswerGood
<1>12. ~ConnProc
  <2> SUFFICES ASSUME ConnProc PROVE FALSE
    OBVIOUS
  <2>1. Queue(c2g) /\ c2g # <<>> /\ Head(c2g).cmd = "PROC"
    BY DEF ConnProc, FromConnsvr, Sound, Base, FrameInv, SessionInv
  <2> QED
    BY <2>1, StopsApartTail DEF Sound, Patience, QueueInv
<1> QED
  BY <1>1, <1>5, <1>6, <1>7, <1>8, <1>9, <1>10, <1>11, <1>12
     DEF GameNext, Kill, Restart, RestartWiped, Start

LEMMA PatientGame == ASSUME Sound, PatientClients, RoomForAll, GameNext, UNCHANGED connsvr
                     PROVE  Patience'
  BY SessionStep, JoinsStep, PartsStep, FewerStep, ConcludesStep DEF Session, Sound

\* ... and what it sends to datasvr is good.
LEMMA GoodGameStep ==
    ASSUME Sound, PatientClients, RoomForAll, GameNext, UNCHANGED <<connsvr, datasvr>>
    PROVE  GoodData'
<1>1. UNCHANGED <<sg_data, jobs>> /\ SendsGood
  BY SessionStep DEF datasvr
<1>2. /\ \A m : GoodRequest(m)' <=> GoodRequest(m)
      /\ \A m : GoodAnswer(m)' <=> GoodAnswer(m)
  BY <1>1 DEF GoodRequest, GoodAnswer, Verified
<1>3. Msgs(d2g') \subseteq Msgs(d2g)
  <2>1. Queue(d2g)
    BY DEF Sound, Base, FrameInv, DataInv
  <2>2. Quiet \/ AnswersNow \/ Begins \/ Ends \/ GoesOn
    BY GameStep DEF Sound, Base
  <2>3. Shrinks(d2g, d2g')
    BY <2>1, <2>2, ShrinksWhen DEF Quiet, AnswersNow, Begins, Ends, GoesOn
  <2> QED
    BY <2>1, <2>3, ShrinksMsgs
<1>4. \A m \in Msgs(g2d') : GoodRequest(m)
  <2>1. CASE UNCHANGED g2d
    BY <2>1 DEF Sound, GoodData
  <2>2. ASSUME NEW r, GoodRequest(r), g2d' = Push(g2d, <<r>>)
        PROVE  \A m \in Msgs(g2d') : GoodRequest(m)
    <3>1. Msgs(g2d') \subseteq Msgs(g2d) \cup {r}
      BY <2>2, PushMsgs, OneMsg DEF Sound, Base, FrameInv, DataInv
    <3> QED
      BY <2>2, <3>1 DEF Sound, GoodData
  <2> QED
    BY <1>1, <2>1, <2>2 DEF SendsGood
<1>5. KnownLogins' /\ GoodRows'
  BY <1>1 DEF Sound, GoodData, KnownLogins, GoodRows, Verified
<1> QED
  BY <1>1, <1>2, <1>3, <1>4, <1>5 DEF Sound, GoodData

\* All of it: what holds whatever happens, and what holds with patient clients.
ServedInv == /\ PatientClients /\ RoomForAll
             /\ FrameInv /\ OnceInv /\ StopInv /\ ExpectInv /\ CityOwnership
             /\ Patience /\ GoodData /\ GoodPlayers /\ Up

LEMMA ServedSound == ServedInv => Sound
  BY DEF ServedInv, Sound, Base, StopInv

LEMMA ServedStart == PatientClients /\ RoomForAll /\ Init => ServedInv
<1> SUFFICES ASSUME PatientClients, RoomForAll, Init PROVE ServedInv
  OBVIOUS
<1>1. /\ c2g = <<>> /\ g2c = <<>> /\ g2d = <<>> /\ d2g = <<>> /\ asked = <<>>
      /\ DOMAIN conn_map = {} /\ delivered = {} /\ jobs = {}
      /\ DOMAIN players = {} /\ DOMAIN logics = {} /\ DOMAIN uid_to_player_idx_map = {}
      /\ status = "up" /\ cities = {}
  BY DEF Init, LinksInit, ConnInit, GameInit, ObjectsInit, DataInit
<1>2. /\ DOMAIN <<>> = {} /\ Len(<<>>) = 0 /\ 1..0 = {}
      /\ Msgs(<<>>) = {}
  BY EmptyQueue
<1>3. Seqs = {} /\ DOMAIN c2g = {} /\ Msgs(g2c) = {} /\ Msgs(g2d) = {} /\ Msgs(d2g) = {}
  BY <1>1, <1>2 DEF Seqs
<1>4. AskInv /\ DeliverInv /\ StartInv /\ QueueInv
  BY <1>1, <1>3 DEF AskInv, DeliverInv, StartInv, QueueInv, StopsApart
<1>5. PlayerInv /\ KnownInv /\ ToldInv /\ LogicInv /\ MapInv
  BY <1>1, <1>3 DEF PlayerInv, Live, KnownInv, ToldInv, LogicInv, MapInv
<1>6. GoodData
  <2>1. /\ DOMAIN sg_data = DOMAIN Rows
        /\ \A u \in DOMAIN Rows : sg_data[u].password_hash = Rows[u] /\ sg_data[u].cities = 1
    BY DEF Init, DataInit
  <2> QED
    BY <1>1, <1>3, <2>1 DEF GoodData, GoodRows, KnownLogins, PatientClients, Verified
<1>7. GoodPlayers /\ Up /\ CityOwnership
  BY <1>1 DEF GoodPlayers, Up, CityOwnership
<1> QED
  BY <1>4, <1>5, <1>6, <1>7, FrameStart, OnceStart, StopStart, ExpectStart
     DEF ServedInv, Patience

LEMMA ServedStep == ServedInv /\ [Next]_vars => ServedInv'
<1> SUFFICES ASSUME ServedInv, [Next]_vars PROVE ServedInv'
  OBVIOUS
<1>0. (PatientClients /\ RoomForAll) /\ (PatientClients /\ RoomForAll)'
  BY DEF ServedInv, PatientClients, RoomForAll
<1>1. Sound
  BY ServedSound
<1>2. FrameInv' /\ OnceInv' /\ StopInv' /\ ExpectInv' /\ CityOwnership'
  BY FrameStep, OnceStep, StopStep, ExpectStep, CityStep DEF ServedInv
<1>3. UNCHANGED gamesvr => GoodPlayers' /\ Up'
  BY <1>1 DEF Sound, gamesvr, GoodPlayers, Up
<1>4. UNCHANGED <<g2d, d2g, datasvr>> => GoodData'
  BY <1>1 DEF Sound, GoodData, GoodRows, KnownLogins, GoodRequest, GoodAnswer, Verified, datasvr
<1>5. ASSUME UNCHANGED <<c2g, g2c, asked, answered, connsvr, gamesvr>> PROVE Patience'
  <2>1. Fewer
    BY <1>5 DEF Fewer, gamesvr
  <2> QED
    BY <1>1, <1>5, <2>1, FewerStep DEF Sound, gamesvr
<1>6. CASE ConnNext /\ UNCHANGED <<gamesvr, datasvr>>
  <2>1. UNCHANGED <<g2d, d2g>>
    BY <1>6, ConnStep DEF ServedInv, FrameInv
  <2> QED
    BY <1>0, <1>1, <1>2, <1>3, <1>4, <1>6, <2>1, PatientConn DEF Sound, ServedInv
<1>7. CASE GameNext /\ UNCHANGED <<connsvr, datasvr>>
  BY <1>0, <1>1, <1>2, <1>7, SessionStep, PatientGame, GoodGameStep DEF ServedInv
<1>8. CASE DataNext /\ UNCHANGED <<connsvr, gamesvr>>
  <2>1. UNCHANGED <<c2g, g2c, asked, answered>> /\ GoodData'
    BY <1>0, <1>8, DataStep, GoodDataStep DEF ServedInv, FrameInv
  <2> QED
    BY <1>0, <1>2, <1>3, <1>5, <1>8, <2>1 DEF ServedInv
<1>9. CASE UNCHANGED vars
  BY <1>0, <1>2, <1>3, <1>4, <1>5, <1>9 DEF ServedInv, vars, links
<1> QED
  BY <1>6, <1>7, <1>8, <1>9 DEF Next

LEMMA ServedAlways == PatientClients /\ RoomForAll /\ Spec => []ServedInv
  BY ServedStart, ServedStep, PTL DEF Spec

\* The two sides of a session belong together, for as many connections, requests
\* and faults of datasvr as there are: a descriptor that is used again never
\* leads to the player of its last connection.
THEOREM SessionsBelong == PatientClients /\ RoomForAll => (Spec => []SessionsMatch)
<1>1. ServedInv => SessionsMatch
  <2> SUFFICES ASSUME ServedInv PROVE SessionsMatch
    OBVIOUS
  <2>1. \A i : Stopping(i) <=> StopIn(c2g, i)
    BY DEF Stopping, StopIn
  <2>2. ASSUME NEW fd \in DOMAIN conn_map, NEW i, i = conn_map[fd].player_idx, i # 0
        PROVE  i \in DOMAIN players /\ players[i].conn_fd = fd
    BY <2>2 DEF ServedInv, Patience, KnownInv, Live
  <2>3. ASSUME NEW i \in DOMAIN players, ~Stopping(i), NEW fd, fd = players[i].conn_fd
        PROVE  /\ fd \in DOMAIN conn_map /\ conn_map[fd].player_idx \in {0, i}
               /\ \A j \in DOMAIN players \ {i} : players[j].conn_fd = fd => Stopping(j)
    <3>1. Live(i)
      BY <2>1, <2>3 DEF Live
    <3>2. /\ fd \in DOMAIN conn_map /\ conn_map[fd].player_idx \in {0, i}
      BY <2>3, <3>1 DEF ServedInv, Patience, PlayerInv, Of
    <3> QED
      BY <2>3, <3>2 DEF ServedInv, Patience, PlayerInv
  <2> QED
    BY <2>2, <2>3 DEF SessionsMatch
<1> QED
  BY <1>1, ServedAlways, PTL

\* A client gets answers to its own requests only, though gamesvr names nothing
\* but a descriptor.
THEOREM RightClients == PatientClients /\ RoomForAll => (Spec => []RightClient)
<1>1. ServedInv => RightClient
  BY DEF ServedInv, Patience, DeliverInv, RightClient
<1> QED
  BY <1>1, ServedAlways, PTL

\* No account gains or loses a city, through all the logins and all the saving.
THEOREM CitiesStay == PatientClients /\ RoomForAll => (Spec => []CitiesKept)
<1>1. ServedInv => CitiesKept
  BY DEF ServedInv, GoodData, GoodRows, CitiesKept
<1> QED
  BY <1>1, ServedAlways, PTL

\* gamesvr stays up: every START finds a free player, and every login a free city.
THEOREM StaysUp == PatientClients /\ RoomForAll => (Spec => []NeverDown)
<1>1. ServedInv => NeverDown
  BY DEF ServedInv, NeverDown
<1> QED
  BY <1>1, ServedAlways, PTL

=============================================================================
