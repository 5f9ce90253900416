------------------------------- MODULE ConnSvr -------------------------------
(***************************************************************************)
(* connsvr: EventModule and ConnMgrModule.  It holds the clients' TCP       *)
(* connections, passes their requests to gamesvr together with the number   *)
(* (player_idx) of the Player gamesvr has told it, and gamesvr's messages    *)
(* to the descriptor they name.                                            *)
(*                                                                         *)
(* A frame is read when it arrives: one that waits in a socket is one that   *)
(* the client sends later.  Descriptors are the lowest free ones, as POSIX  *)
(* has it, so that they are used again.  The byte buffers are left out.     *)
(***************************************************************************)
EXTENDS Links

CONSTANTS ConnPoolSize,  \* conn_pool_size of the configuration
          MaxConns       \* bound: connections in a behaviour

ASSUME ConnSvrAssumption == ConnPoolSize \in Nat \ {0} /\ MaxConns \in Nat

VARIABLES conn_map,    \* descriptor -> Connection: its player_idx, and the
                       \* number of the connection, counted from 1
          accepted,    \* connections so far
          delivered    \* answers for clients, by connection: <<connection, seq>>

connsvr == <<conn_map, accepted, delivered>>

Fds == 1..ConnPoolSize
NoFd == 0

ConnInit == /\ conn_map = [fd \in {} |-> 0]
            /\ accepted = 0 /\ delivered = {}

Asked(conn) == {s \in Seqs : asked[s].conn = conn}
Open(conn) == \E fd \in DOMAIN conn_map : conn_map[fd].conn = conn

\* The client has requests that no answer has come for.
Waiting(conn) == \E s \in Asked(conn) : <<conn, s>> \notin delivered

\* Does the client of connection conn send body?  One like tcpclient sends one
\* request on each connection.
MaySend(conn, body) ==
    /\ "pipeline" \in Faults \/ ~Waiting(conn)
    /\ "again" \in Faults \/ Asked(conn) = {}
    /\ "shared" \in Faults \/ \A s \in Seqs : asked[s].body.uid = body.uid =>
                                    asked[s].conn = conn \/ ~Open(asked[s].conn)

\* Does the client on fd close?  A patient one has everything gamesvr sent it.
MayClose(fd) ==
    \/ "hangup" \in Faults
    \/ /\ ~Waiting(conn_map[fd].conn)
       /\ \A k \in DOMAIN g2c : g2c[k].conn_fd # fd

\* Mutant: closed, but not forgotten.
MutReleaseConn(fd) == UNCHANGED conn_map

\* The connection is closed and forgotten.  (conn_fd() is always the key, and
\* conn_pool_ has a unit for every entry of conn_map_.)
ReleaseConn(fd) == conn_map' = [f \in DOMAIN conn_map \ {fd} |-> conn_map[f]]

\* accept() gives fd, the lowest number that is free.
DoTcpAccept(fd) ==
    /\ accepted < MaxConns
    /\ Cardinality(DOMAIN conn_map) < ConnPoolSize
    /\ fd \notin DOMAIN conn_map
    /\ \A f \in Fds \ DOMAIN conn_map : fd <= f
    /\ accepted' = accepted + 1
    /\ conn_map' = [f \in DOMAIN conn_map \cup {fd} |->
                       IF f = fd THEN [player_idx |-> 0, conn |-> accepted + 1]
                                 ELSE conn_map[f]]
    /\ UNCHANGED <<delivered, links>>

\* DoTcpRead finds a whole frame: a START until gamesvr has named a player.
DoTcpRead(fd, body) ==
    /\ fd \in DOMAIN conn_map
    /\ Len(asked) < MaxRequests
    /\ MaySend(conn_map[fd].conn, body)
    /\ LET c == conn_map[fd]
           cmd == IF c.player_idx = 0 THEN "START" ELSE "PROC"
       IN  /\ asked' = Append(asked, [conn |-> c.conn, body |-> body])
           /\ answered' = Append(answered, 0)
           /\ IF Len(c2g) < Hwm
              THEN /\ c2g' = Append(c2g, ToGame(cmd, fd, c.player_idx,
                                                Len(asked) + 1, c.conn))
                   /\ UNCHANGED conn_map
              ELSE ReleaseConn(fd) /\ UNCHANGED c2g
    /\ UNCHANGED <<accepted, delivered, g2c, g2d, d2g>>

\* Mutant: the test in SendConnStop is the wrong way round.
MutDoTcpReadEnd(fd) ==
    /\ fd \in DOMAIN conn_map
    /\ MayClose(fd)
    /\ LET c == conn_map[fd]
       IN  c2g' = IF c.player_idx # 0 THEN c2g
                  ELSE Push(c2g, <<ToGame("STOP", NoFd, c.player_idx, 0, c.conn)>>)
    /\ ReleaseConn(fd)
    /\ UNCHANGED <<accepted, delivered, g2c, g2d, d2g, asked, answered>>

\* DoTcpRead finds the end of the stream: SendConnStop, unless no player is
\* known; it may fail unseen.
DoTcpReadEnd(fd) ==
    /\ fd \in DOMAIN conn_map
    /\ MayClose(fd)
    /\ LET c == conn_map[fd]
       IN  c2g' = IF c.player_idx = 0 THEN c2g
                  ELSE Push(c2g, <<ToGame("STOP", NoFd, c.player_idx, 0, c.conn)>>)
    /\ ReleaseConn(fd)
    /\ UNCHANGED <<accepted, delivered, g2c, g2d, d2g, asked, answered>>

\* recv fails, or the frame does not fit: no word to gamesvr.
DoTcpReadFail(fd) ==
    /\ "reset" \in Faults
    /\ fd \in DOMAIN conn_map
    /\ ReleaseConn(fd)
    /\ UNCHANGED <<accepted, delivered, links>>

\* ZmqReadLoop with a message for a connection that is there.  (delivered says
\* that it came this far; when send() would block it is dropped, see ConnIo.)
ZmqRead == /\ g2c # <<>>
           /\ Head(g2c).conn_fd \in DOMAIN conn_map
           /\ LET m == Head(g2c)
                  c == conn_map[m.conn_fd]
              IN  /\ delivered' = IF m.seq = 0 THEN delivered
                                  ELSE delivered \cup {<<c.conn, m.seq>>}
                  /\ IF m.cmd = "STOP" THEN ReleaseConn(m.conn_fd)
                     ELSE conn_map' =
                            IF m.cmd = "START" \/ c.player_idx = 0
                            THEN [conn_map EXCEPT ![m.conn_fd].player_idx = m.player_idx]
                            ELSE conn_map
           /\ g2c' = Tail(g2c)
           /\ UNCHANGED <<accepted, c2g, g2d, d2g, asked, answered>>

\* ... send() fails for good, or the message does not fit the send buffer.
ZmqReadSendFail == /\ "reset" \in Faults
                   /\ g2c # <<>>
                   /\ Head(g2c).conn_fd \in DOMAIN conn_map
                   /\ ReleaseConn(Head(g2c).conn_fd)
                   /\ g2c' = Tail(g2c)
                   /\ UNCHANGED <<accepted, delivered, c2g, g2d, d2g, asked, answered>>

\* ... for a connection that is gone.
ZmqReadNoConn == /\ g2c # <<>>
                 /\ Head(g2c).conn_fd \notin DOMAIN conn_map
                 /\ g2c' = Tail(g2c)
                 /\ UNCHANGED <<connsvr, c2g, g2d, d2g, asked, answered>>

ConnNext == \/ \E fd \in Fds : \/ DoTcpAccept(fd)
                               \/ \E body \in Bodies : DoTcpRead(fd, body)
                               \/ DoTcpReadEnd(fd) \/ DoTcpReadFail(fd)
            \/ ZmqRead \/ ZmqReadSendFail \/ ZmqReadNoConn

\* What gamesvr does meanwhile: it takes a message, or sends some.
ConnEnvironment == /\ UNCHANGED <<connsvr, g2d, d2g, asked, answered>>
                   /\ \/ c2g # <<>> /\ c2g' = Tail(c2g) /\ UNCHANGED g2c
                      \/ g2c = SubSeq(g2c', 1, Len(g2c)) /\ UNCHANGED c2g

ConnSpec == LinksInit /\ ConnInit /\ [][ConnNext \/ ConnEnvironment]_<<links, connsvr>>

ConnTypeOK == /\ DOMAIN conn_map \subseteq Fds
              /\ \A fd \in DOMAIN conn_map :
                     conn_map[fd].player_idx \in Nat /\ conn_map[fd].conn \in 1..accepted
              /\ accepted \in 0..MaxConns
              /\ delivered \subseteq (1..accepted) \X Seqs
=============================================================================
