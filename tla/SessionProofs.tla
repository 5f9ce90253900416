---------------------------- MODULE SessionProofs ----------------------------
(***************************************************************************)
(* Lemmas about what the two systems of servers have in common: datasvr as   *)
(* gamesvr sees it, connsvr, and the objects of gamesvr.                    *)
(***************************************************************************)
EXTENDS ConnSvr, GameObjects, DataService, LinksProofs

-----------------------------------------------------------------------------
(* DataService *)

\* A job as datasvr keeps it: an answer has the id and the cmd of its request.
IsJob(j) ==
    /\ j = [request |-> j.request, nth |-> j.nth, answer |-> j.answer]
    /\ j.request.cities \in Nat /\ j.answer.cities \in Nat
    /\ \/ j.answer = NoAnswer
       \/ j.answer.seq = j.request.seq /\ j.answer.cmd = j.request.cmd
IsRow(r) == /\ r = [password_hash |-> r.password_hash, cities |-> r.cities]
            /\ r.cities \in Nat

DataInv == /\ \A u \in DOMAIN sg_data : IsRow(sg_data[u])
           /\ IsFiniteSet(jobs) /\ Cardinality(jobs) <= Clients
           /\ \A j \in jobs : IsJob(j)
           /\ Queue(g2d) /\ Queue(d2g)
           /\ \A m \in Msgs(g2d) \cup Msgs(d2g) : m.cities \in Nat

\* A row with this uid and this password is in the table; and stays there.
Verified(uid, pw) == uid \in DOMAIN sg_data /\ sg_data[uid].password_hash = pw
RowsStay == \A uid, pw : Verified(uid, pw) => Verified(uid, pw)'

\* What a step of datasvr can be to the requests and the answers.
Takes == /\ g2d # <<>> /\ g2d' = Tail(g2d) /\ UNCHANGED d2g
         /\ Cardinality(jobs) < Clients
         /\ \E j : /\ IsJob(j) /\ j.request = Head(g2d) /\ j.answer = NoAnswer
                   /\ jobs' = jobs \cup {j}
Executes == /\ UNCHANGED <<g2d, d2g>>
            /\ \E j \in jobs : \E k :
                 /\ IsJob(k) /\ k.request = j.request
                 /\ k.answer.cmd = "GET" /\ k.answer.ret = 0
                      => Verified(j.request.uid, j.request.pw)
                 /\ jobs' = (jobs \ {j}) \cup {k}
Loses == /\ UNCHANGED <<g2d, d2g>>
         /\ \E j \in jobs : jobs' = jobs \ {j}
Replies == /\ UNCHANGED g2d
           /\ \E j \in jobs : /\ j.answer # NoAnswer
                              /\ d2g' = Push(d2g, <<j.answer>>)
                              /\ jobs' = jobs \ {j}

\* The job that DataNext speaks of when it is to execute a statement.
LEMMA JobExists ==
    ASSUME NEW j \in jobs, j.answer = NoAnswer
    PROVE  Job(j.request) \in jobs /\ Job(j.request).request = j.request
  BY DEF Job

\* The answer replaces the job by one with the same request.
LEMMA AnsweredStep ==
    ASSUME DataInv, NEW j \in jobs, j.answer = NoAnswer, NEW ret, NEW n \in Nat,
           Answered(j.request, ret, n),
           j.request.cmd = "GET" /\ ret = 0 => Verified(j.request.uid, j.request.pw)
    PROVE  Executes
<1> DEFINE i == Job(j.request)
           a == FromData(j.request.cmd, j.request.seq, ret, n)
           k == [i EXCEPT !.answer = a]
<1>1. i \in jobs /\ i.request = j.request
  BY JobExists
<1>2. UNCHANGED <<g2d, d2g>> /\ jobs' = (jobs \ {i}) \cup {k}
  BY DEF Answered, links
<1>3. IsJob(i)
  BY <1>1 DEF DataInv
<1> HIDE DEF i
<1>4. /\ a.cmd = j.request.cmd /\ a.seq = j.request.seq /\ a.cities = n
      /\ a.ret = ret
  BY DEF FromData
<1> HIDE DEF a
<1>5. k = [request |-> i.request, nth |-> i.nth, answer |-> a]
  BY <1>3 DEF IsJob
<1> HIDE DEF k
<1>6. k.request = i.request /\ k.answer = a /\ k.nth = i.nth
  BY <1>5
<1>7. i.request.cities \in Nat
  BY <1>3 DEF IsJob
<1>8. IsJob(k)
  BY <1>1, <1>4, <1>5, <1>6, <1>7 DEF IsJob
<1> QED
  BY <1>1, <1>2, <1>4, <1>6, <1>8 DEF Executes

\* INSERT and UPDATE leave the accounts that are there, and their passwords.
LEMMA InsertStays ==
    ASSUME NEW m, m.uid \notin DOMAIN sg_data, sg_data' = Insert(m), m.cities \in Nat,
           \A u \in DOMAIN sg_data : IsRow(sg_data[u])
    PROVE  RowsStay /\ \A u \in DOMAIN sg_data' : IsRow(sg_data'[u])
<1>1. /\ DOMAIN sg_data' = DOMAIN sg_data \cup {m.uid}
      /\ \A u \in DOMAIN sg_data : sg_data'[u] = sg_data[u]
      /\ sg_data'[m.uid] = [password_hash |-> m.pw, cities |-> m.cities]
  BY DEF Insert
<1>2. IsRow(sg_data'[m.uid])
  BY <1>1 DEF IsRow
<1> QED
  BY <1>1, <1>2 DEF RowsStay, Verified

LEMMA UpdateStays ==
    ASSUME NEW m, sg_data' = Update(m), m.cities \in Nat,
           \A u \in DOMAIN sg_data : IsRow(sg_data[u])
    PROVE  RowsStay /\ \A u \in DOMAIN sg_data' : IsRow(sg_data'[u])
<1>1. /\ DOMAIN sg_data' = DOMAIN sg_data
      /\ \A u \in DOMAIN sg_data :
            sg_data'[u] = IF u = m.uid THEN [sg_data[u] EXCEPT !.cities = m.cities]
                          ELSE sg_data[u]
  BY DEF Update
<1>2. ASSUME NEW u \in DOMAIN sg_data
      PROVE  IsRow(sg_data'[u]) /\ sg_data'[u].password_hash = sg_data[u].password_hash
  <2>1. IsRow(sg_data[u])
    OBVIOUS
  <2>2. CASE u = m.uid
    <3> DEFINE r == sg_data[u]
    <3>1. sg_data'[u] = [r EXCEPT !.cities = m.cities]
      BY <1>1, <2>2
    <3>2. [r EXCEPT !.cities = m.cities]
            = [password_hash |-> r.password_hash, cities |-> m.cities]
      BY <2>1 DEF IsRow
    <3> HIDE DEF r
    <3>3. sg_data'[u] = [password_hash |-> r.password_hash, cities |-> m.cities]
      BY <3>1, <3>2
    <3> QED
      BY <3>3 DEF IsRow, r
  <2>3. CASE u # m.uid
    BY <1>1, <2>1, <2>3
  <2> QED
    BY <2>2, <2>3
<1> QED
  BY <1>1, <1>2 DEF RowsStay, Verified

\* What one statement is to the table and to its job.
LEMMA WorksStep ==
    ASSUME DataInv, NEW j \in jobs, j.answer = NoAnswer, Works(j.request)
    PROVE  /\ Executes \/ Loses
           /\ RowsStay /\ \A u \in DOMAIN sg_data' : IsRow(sg_data'[u])
<1> DEFINE m == j.request
<1>1. m.cities \in Nat /\ \A u \in DOMAIN sg_data : IsRow(sg_data[u])
  BY DEF DataInv, IsJob
<1>2. UNCHANGED sg_data => RowsStay /\ \A u \in DOMAIN sg_data' : IsRow(sg_data'[u])
  BY <1>1 DEF RowsStay, Verified
<1>3. 0 \in Nat /\ \A u \in DOMAIN sg_data : sg_data[u].cities \in Nat
  BY <1>1 DEF IsRow
<1>4. -1 # 0 /\ -2 # 0
  OBVIOUS
<1>5. CASE Reg(m)
  BY <1>1, <1>2, <1>3, <1>5, AnsweredStep, InsertStays DEF Reg
<1>6. CASE Get(m)
  <2>1. UNCHANGED sg_data
    BY <1>6 DEF Get
  <2>2. CASE m.uid \in DOMAIN sg_data /\ sg_data[m.uid].password_hash = m.pw
    BY <1>2, <1>3, <1>6, <2>1, <2>2, AnsweredStep DEF Get, Verified
  <2>3. CASE ~(m.uid \in DOMAIN sg_data /\ sg_data[m.uid].password_hash = m.pw)
    BY <1>2, <1>3, <1>4, <1>6, <2>1, <2>3, AnsweredStep DEF Get
  <2> QED
    BY <2>2, <2>3
<1>7. CASE Set(m)
  BY <1>1, <1>3, <1>7, AnsweredStep, UpdateStays DEF Set
<1>8. CASE Fail(m)
  BY <1>2, <1>3, <1>4, <1>8, AnsweredStep DEF Fail
<1>9. CASE Lose(m)
  <2>1. Loses
    BY <1>9, JobExists DEF Lose, Loses, links
  <2> QED
    BY <1>1, <1>2, <1>9, <2>1, InsertStays, UpdateStays DEF Lose
<1> QED
  BY <1>5, <1>6, <1>7, <1>8, <1>9 DEF Works

\* What any step of datasvr is.
LEMMA DataStep ==
    ASSUME DataInv, DataNext
    PROVE  /\ UNCHANGED <<c2g, g2c, asked, answered>>
           /\ Takes \/ Executes \/ Loses \/ Replies
           /\ RowsStay /\ \A u \in DOMAIN sg_data' : IsRow(sg_data'[u])
<1>1. CASE Take
  <2> DEFINE m == Head(g2d)
             j == [request |-> m, nth |-> Number(m), answer |-> NoAnswer]
  <2>1. m.cities \in Nat
    BY <1>1, TailMsgs DEF DataInv, Take
  <2>2. NoAnswer.cities \in Nat
    BY DEF NoAnswer, FromData
  <2>3. jobs' = jobs \cup {j}
    BY <1>1 DEF Take
  <2>4. j.request = m /\ j.answer = NoAnswer /\ IsJob(j)
    BY <2>1, <2>2 DEF IsJob
  <2> HIDE DEF j
  <2>5. Takes
    BY <1>1, <2>3, <2>4 DEF Take, Takes
  <2> QED
    BY <1>1, <2>5 DEF Take, RowsStay, Verified, DataInv
<1>2. CASE \E j \in jobs : j.answer = NoAnswer /\ Works(j.request)
  <2>1. UNCHANGED links
    BY <1>2 DEF Works, Reg, Get, Set, Fail, Lose, Answered
  <2> QED
    BY <1>2, <2>1, WorksStep DEF links
<1>3. CASE \E j \in jobs : Reply(j)
  BY <1>3 DEF Reply, Replies, RowsStay, Verified, DataInv
<1> QED
  BY <1>1, <1>2, <1>3 DEF DataNext

\* datasvr keeps its own invariant.
LEMMA DataInvStep == ASSUME DataInv, DataNext PROVE DataInv'
<1>1. /\ Takes \/ Executes \/ Loses \/ Replies
      /\ \A u \in DOMAIN sg_data' : IsRow(sg_data'[u])
  BY DataStep
<1>2. Clients \in Nat /\ Cardinality(jobs) \in Nat
  BY DataServiceAssumption, FS_CardinalityType DEF DataInv
<1>3. ASSUME NEW j \in jobs
      PROVE  IsFiniteSet(jobs \ {j}) /\ Cardinality(jobs \ {j}) = Cardinality(jobs) - 1
  BY FS_RemoveElement DEF DataInv
<1>4. ASSUME NEW S, IsFiniteSet(S), NEW k
      PROVE  /\ IsFiniteSet(S \cup {k}) /\ Cardinality(S) \in Nat
             /\ Cardinality(S \cup {k}) \in {Cardinality(S), Cardinality(S) + 1}
  BY <1>4, FS_AddElement, FS_CardinalityType
<1>5. CASE Takes
  <2>1. PICK j : IsJob(j) /\ jobs' = jobs \cup {j}
    BY <1>5 DEF Takes
  <2>2. /\ IsFiniteSet(jobs')
        /\ Cardinality(jobs') \in {Cardinality(jobs), Cardinality(jobs) + 1}
    BY <1>4, <2>1 DEF DataInv
  <2>3. Cardinality(jobs) < Clients
    BY <1>5 DEF Takes
  <2>4. Cardinality(jobs') <= Clients
    BY <1>2, <2>2, <2>3
  <2> QED
    BY <1>1, <1>5, <2>1, <2>2, <2>4, TailMsgs DEF DataInv, Takes
<1>6. CASE Executes
  <2>1. PICK j \in jobs, k \in jobs' : IsJob(k) /\ jobs' = (jobs \ {j}) \cup {k}
    BY <1>6 DEF Executes
  <2>2. /\ IsFiniteSet(jobs \ {j}) /\ Cardinality(jobs \ {j}) = Cardinality(jobs) - 1
        /\ Cardinality(jobs) <= Clients
    BY <1>3 DEF DataInv
  <2>3. /\ IsFiniteSet(jobs')
        /\ Cardinality(jobs') \in {Cardinality(jobs) - 1, Cardinality(jobs) - 1 + 1}
    BY <1>4, <2>1, <2>2
  <2>4. Cardinality(jobs') <= Clients
    BY <1>2, <2>2, <2>3
  <2> QED
    BY <1>1, <1>6, <2>1, <2>3, <2>4 DEF DataInv, Executes
<1>7. CASE Loses
  <2>1. PICK j \in jobs : jobs' = jobs \ {j}
    BY <1>7 DEF Loses
  <2>2. IsFiniteSet(jobs') /\ Cardinality(jobs') <= Clients
    BY <1>2, <1>3, <2>1 DEF DataInv
  <2> QED
    BY <1>1, <1>7, <2>1, <2>2 DEF DataInv, Loses
<1>8. CASE Replies
  <2>1. PICK j \in jobs : jobs' = jobs \ {j} /\ d2g' = Push(d2g, <<j.answer>>)
    BY <1>8 DEF Replies
  <2>2. IsFiniteSet(jobs') /\ Cardinality(jobs') <= Clients
    BY <1>2, <1>3, <2>1 DEF DataInv
  <2>3. Queue(d2g') /\ Msgs(d2g') \subseteq Msgs(d2g) \cup {j.answer}
    BY <2>1, PushMsgs, OneMsg DEF DataInv
  <2>4. j.answer.cities \in Nat
    BY DEF DataInv, IsJob
  <2> QED
    BY <1>1, <1>8, <2>1, <2>2, <2>3, <2>4 DEF DataInv, Replies
<1> QED
  BY <1>1, <1>5, <1>6, <1>7, <1>8

-----------------------------------------------------------------------------
(* ConnSvr *)

\* A message of connsvr and one of gamesvr, when n requests have been sent.
RequestMsg(m, n) == /\ m.conn_fd \in Nat /\ m.player_idx \in Nat /\ m.seq \in 0..n
                    /\ m.cmd \in {"START", "PROC"} => m.seq # 0
AnswerMsg(m, n) == m.conn_fd \in Nat /\ m.player_idx \in Nat /\ m.seq \in 0..n

SessionInv == /\ Queue(c2g) /\ Queue(g2c)
              /\ asked \in Seq([conn : Nat, body : Bodies])
              /\ answered \in Seq(Nat) /\ Len(answered) = Len(asked)
              /\ \A m \in Msgs(c2g) : RequestMsg(m, Len(asked))
              /\ \A m \in Msgs(g2c) : AnswerMsg(m, Len(asked))

\* What a step of connsvr can be to the requests: a client sends one, which may
\* or may not reach the queue; or none is sent.
Asks == /\ \E r \in [conn : Nat, body : Bodies] : asked' = Append(asked, r)
        /\ answered' = Append(answered, 0)
        /\ \/ UNCHANGED c2g
           \/ \E m : /\ RequestMsg(m, Len(asked) + 1) /\ m.seq = Len(asked) + 1
                     /\ c2g' = Push(c2g, <<m>>)
        /\ UNCHANGED g2c
Tells == /\ UNCHANGED <<asked, answered>>
         /\ \/ UNCHANGED c2g
            \/ \E m : RequestMsg(m, 0) /\ c2g' = Push(c2g, <<m>>)
         /\ UNCHANGED g2c \/ (g2c # <<>> /\ g2c' = Tail(g2c))

LEMMA ReadStep ==
    ASSUME SessionInv, ConnTypeOK, NEW fd \in Fds, NEW body \in Bodies, DoTcpRead(fd, body)
    PROVE  Asks
<1> DEFINE c == conn_map[fd]
           cmd == IF c.player_idx = 0 THEN "START" ELSE "PROC"
           m == ToGame(cmd, fd, c.player_idx, Len(asked) + 1, c.conn)
           r == [conn |-> c.conn, body |-> body]
<1>1. /\ fd \in DOMAIN conn_map
      /\ asked' = Append(asked, r) /\ answered' = Append(answered, 0)
      /\ c2g' = c2g \/ (Len(c2g) < Hwm /\ c2g' = Append(c2g, m))
      /\ UNCHANGED g2c
  BY DEF DoTcpRead
<1>2. c.player_idx \in Nat /\ c.conn \in Nat /\ fd \in Nat /\ Len(asked) \in Nat
  BY <1>1, ConnSvrAssumption DEF ConnTypeOK, SessionInv, Fds
<1>3. r \in [conn : Nat, body : Bodies]
  BY <1>2
<1>4. /\ m.conn_fd = fd /\ m.player_idx = c.player_idx /\ m.seq = Len(asked) + 1
  BY DEF ToGame
<1> HIDE DEF m, c, r
<1>5. RequestMsg(m, Len(asked) + 1)
  BY <1>2, <1>4 DEF RequestMsg
<1>6. c2g' = c2g \/ c2g' = Push(c2g, <<m>>)
  BY <1>1, PushOne DEF SessionInv, Queue
<1> QED
  BY <1>1, <1>3, <1>4, <1>5, <1>6 DEF Asks

LEMMA ReadEndStep ==
    ASSUME SessionInv, ConnTypeOK, NEW fd \in Fds, DoTcpReadEnd(fd)
    PROVE  Tells
<1> DEFINE c == conn_map[fd]
           m == ToGame("STOP", NoFd, c.player_idx, 0, c.conn)
<1>1. /\ fd \in DOMAIN conn_map
      /\ c2g' = c2g \/ c2g' = Push(c2g, <<m>>)
      /\ UNCHANGED <<g2c, asked, answered>>
  BY DEF DoTcpReadEnd
<1>2. c.player_idx \in Nat
  BY <1>1 DEF ConnTypeOK
<1>3. /\ m.conn_fd = 0 /\ m.player_idx = c.player_idx /\ m.seq = 0 /\ m.cmd = "STOP"
  BY DEF ToGame, NoFd
<1> HIDE DEF m, c
<1>4. RequestMsg(m, 0)
  BY <1>2, <1>3 DEF RequestMsg
<1> QED
  BY <1>1, <1>4 DEF Tells

LEMMA ConnStep ==
    ASSUME SessionInv, ConnTypeOK, ConnNext
    PROVE  (Asks \/ Tells) /\ UNCHANGED <<g2d, d2g>>
<1>1. CASE \E fd \in Fds, body \in Bodies : DoTcpRead(fd, body)
  BY <1>1, ReadStep DEF DoTcpRead
<1>2. CASE \E fd \in Fds : DoTcpReadEnd(fd)
  BY <1>2, ReadEndStep DEF DoTcpReadEnd
<1>3. CASE \E fd \in Fds : DoTcpAccept(fd) \/ DoTcpReadFail(fd)
  BY <1>3 DEF DoTcpAccept, DoTcpReadFail, Tells, links
<1>4. CASE ZmqRead \/ ZmqReadSendFail \/ ZmqReadNoConn
  BY <1>4 DEF ZmqRead, ZmqReadSendFail, ZmqReadNoConn, Tells
<1> QED
  BY <1>1, <1>2, <1>3, <1>4 DEF ConnNext

\* What can be said of a message stays true when more requests are sent.
LEMMA MsgsStay ==
    \A n \in Nat, k \in Nat : n <= k =>
        \A m : /\ RequestMsg(m, n) => RequestMsg(m, k)
               /\ AnswerMsg(m, n) => AnswerMsg(m, k)
  BY DEF RequestMsg, AnswerMsg

LEMMA AsksKeep == ASSUME SessionInv, Asks PROVE SessionInv'
<1> DEFINE n == Len(asked)
<1>1. PICK r \in [conn : Nat, body : Bodies] : asked' = Append(asked, r)
  BY DEF Asks
<1>2. /\ n \in Nat /\ asked' \in Seq([conn : Nat, body : Bodies]) /\ Len(asked') = n + 1
      /\ answered' \in Seq(Nat) /\ Len(answered') = n + 1
  BY <1>1 DEF SessionInv, Asks
<1>3. /\ \A m \in Msgs(c2g) : RequestMsg(m, n + 1)
      /\ \A m \in Msgs(g2c) : AnswerMsg(m, n + 1)
  BY <1>2, MsgsStay DEF SessionInv
<1> HIDE DEF n
<1>4. Queue(c2g') /\ \A m \in Msgs(c2g') : RequestMsg(m, n + 1)
  <2>1. CASE UNCHANGED c2g
    BY <1>3, <2>1 DEF SessionInv
  <2>2. CASE ~UNCHANGED c2g
    <3>1. PICK m : RequestMsg(m, n + 1) /\ c2g' = Push(c2g, <<m>>)
      BY <2>2 DEF Asks, n
    <3>2. Queue(c2g') /\ Msgs(c2g') \subseteq Msgs(c2g) \cup {m}
      BY <3>1, PushMsgs, OneMsg DEF SessionInv
    <3> QED
      BY <1>3, <3>1, <3>2
  <2> QED
    BY <2>1, <2>2
<1>5. g2c' = g2c /\ Queue(g2c)
  BY DEF Asks, SessionInv
<1>6. /\ \A m \in Msgs(c2g') : RequestMsg(m, Len(asked'))
      /\ \A m \in Msgs(g2c') : AnswerMsg(m, Len(asked'))
  BY <1>2, <1>3, <1>4, <1>5
<1>7. Len(answered') = Len(asked')
  BY <1>2
<1> QED
  BY <1>2, <1>4, <1>5, <1>6, <1>7 DEF SessionInv

LEMMA TellsKeep == ASSUME SessionInv, Tells PROVE SessionInv'
<1>1. Len(asked) \in Nat /\ 0 \in Nat /\ 0 <= Len(asked)
  BY DEF SessionInv
<1>2. Queue(c2g') /\ \A m \in Msgs(c2g') : RequestMsg(m, Len(asked))
  <2>1. CASE UNCHANGED c2g
    BY <2>1 DEF SessionInv
  <2>2. CASE ~UNCHANGED c2g
    <3>1. PICK m : RequestMsg(m, 0) /\ c2g' = Push(c2g, <<m>>)
      BY <2>2 DEF Tells
    <3>2. Queue(c2g') /\ Msgs(c2g') \subseteq Msgs(c2g) \cup {m}
      BY <3>1, PushMsgs, OneMsg DEF SessionInv
    <3>3. RequestMsg(m, Len(asked))
      BY <1>1, <3>1, MsgsStay
    <3> QED
      BY <3>2, <3>3 DEF SessionInv
  <2> QED
    BY <2>1, <2>2
<1>3. Queue(g2c') /\ Msgs(g2c') \subseteq Msgs(g2c)
  <2>1. Queue(g2c) /\ (UNCHANGED g2c \/ (g2c # <<>> /\ g2c' = Tail(g2c)))
    BY DEF Tells, SessionInv
  <2>2. CASE g2c # <<>> /\ g2c' = Tail(g2c)
    <3>1. Queue(Tail(g2c)) /\ Msgs(g2c) = Msgs(Tail(g2c)) \cup {Head(g2c)}
      BY <2>1, <2>2, TailMsgs
    <3> QED
      BY <2>2, <3>1
  <2> QED
    BY <2>1, <2>2
<1> QED
  BY <1>2, <1>3 DEF SessionInv, Tells

\* connsvr keeps the types of its own state.
LEMMA ConnTypeStep == ASSUME SessionInv, ConnTypeOK, ConnNext PROVE ConnTypeOK'
<1>1. Len(asked) \in Nat /\ MaxConns \in Nat /\ accepted \in Nat
  BY ConnSvrAssumption DEF SessionInv, ConnTypeOK
<1>2. ASSUME NEW fd \in Fds, DoTcpAccept(fd) PROVE ConnTypeOK'
  <2>1. /\ DOMAIN conn_map' = DOMAIN conn_map \cup {fd}
        /\ conn_map'[fd].player_idx = 0 /\ conn_map'[fd].conn = accepted + 1
        /\ \A f \in DOMAIN conn_map \ {fd} : conn_map'[f] = conn_map[f]
        /\ accepted' = accepted + 1 /\ accepted < MaxConns
        /\ UNCHANGED <<delivered, asked>>
    BY <1>2 DEF DoTcpAccept, links
  <2>2. accepted' \in 0..MaxConns /\ accepted \in 1..accepted' \cup {0}
        /\ 1..accepted \subseteq 1..accepted' /\ accepted + 1 \in 1..accepted'
    BY <1>1, <2>1
  <2>3. delivered' \subseteq (1..accepted') \X Seqs'
    BY <2>1, <2>2 DEF ConnTypeOK, Seqs
  <2> QED
    BY <2>1, <2>2, <2>3 DEF ConnTypeOK
<1>3. ASSUME NEW fd, ReleaseConn(fd), UNCHANGED <<accepted, delivered>>,
             Len(asked') \in Nat, Len(asked') >= Len(asked)
      PROVE  ConnTypeOK'
  <2>1. Seqs \subseteq Seqs'
    BY <1>1, <1>3 DEF Seqs
  <2>2. /\ DOMAIN conn_map' \subseteq DOMAIN conn_map
        /\ \A f \in DOMAIN conn_map' : conn_map'[f] = conn_map[f]
    BY <1>3 DEF ReleaseConn
  <2> QED
    BY <1>3, <2>1, <2>2 DEF ConnTypeOK
<1>4. ASSUME NEW fd \in Fds, NEW body \in Bodies, DoTcpRead(fd, body) PROVE ConnTypeOK'
  <2>1. /\ UNCHANGED <<accepted, delivered>>
        /\ UNCHANGED conn_map \/ ReleaseConn(fd)
    BY <1>4 DEF DoTcpRead
  <2>2. Len(asked') = Len(asked) + 1
    BY <1>4 DEF DoTcpRead, SessionInv
  <2>3. CASE UNCHANGED conn_map
    <3>1. Seqs \subseteq Seqs'
      BY <1>1, <2>2 DEF Seqs
    <3> QED
      BY <2>1, <2>3, <3>1 DEF ConnTypeOK
  <2> QED
    BY <1>1, <1>3, <2>1, <2>2, <2>3
<1>5. ASSUME NEW fd \in Fds, DoTcpReadEnd(fd) \/ DoTcpReadFail(fd) PROVE ConnTypeOK'
  <2>1. ReleaseConn(fd) /\ UNCHANGED <<accepted, delivered, asked>>
    BY <1>5 DEF DoTcpReadEnd, DoTcpReadFail, links
  <2> QED
    BY <1>1, <1>3, <2>1
<1>6. CASE ZmqRead
  <2> DEFINE m == Head(g2c)
             fd == m.conn_fd
  <2>1. AnswerMsg(m, Len(asked)) /\ fd \in DOMAIN conn_map
    BY <1>6, TailMsgs DEF SessionInv, ZmqRead
  <2>2. UNCHANGED <<accepted, asked>> /\ Seqs' = Seqs
    BY <1>6 DEF ZmqRead, Seqs
  <2>3. delivered' = delivered \/ (m.seq # 0 /\ delivered' = delivered \cup {<<conn_map[fd].conn, m.seq>>})
    BY <1>6 DEF ZmqRead
  <2>4. m.player_idx \in Nat /\ (m.seq # 0 => m.seq \in Seqs)
    BY <1>1, <2>1 DEF AnswerMsg, Seqs
  <2>5. delivered' \subseteq (1..accepted') \X Seqs'
    BY <2>1, <2>2, <2>3, <2>4 DEF ConnTypeOK
  <2>6. \/ ReleaseConn(fd)
        \/ conn_map' = [conn_map EXCEPT ![fd].player_idx = m.player_idx]
        \/ conn_map' = conn_map
    BY <1>6 DEF ZmqRead
  <2>7. /\ DOMAIN conn_map' \subseteq Fds
        /\ \A f \in DOMAIN conn_map' :
               conn_map'[f].player_idx \in Nat /\ conn_map'[f].conn \in 1..accepted
    <3>1. CASE ReleaseConn(fd)
      BY <3>1 DEF ReleaseConn, ConnTypeOK
    <3>2. CASE conn_map' = [conn_map EXCEPT ![fd].player_idx = m.player_idx]
      <4>1. /\ DOMAIN conn_map' = DOMAIN conn_map
            /\ \A f \in DOMAIN conn_map :
                  /\ conn_map'[f].conn = conn_map[f].conn
                  /\ conn_map'[f].player_idx \in {conn_map[f].player_idx, m.player_idx}
        BY <2>1, <3>2
      <4> QED
        BY <2>4, <4>1 DEF ConnTypeOK
    <3>3. CASE conn_map' = conn_map
      BY <3>3 DEF ConnTypeOK
    <3> QED
      BY <2>6, <3>1, <3>2, <3>3
  <2> QED
    BY <2>2, <2>5, <2>7 DEF ConnTypeOK
<1>7. CASE ZmqReadSendFail
  BY <1>1, <1>3, <1>7 DEF ZmqReadSendFail
<1>8. CASE ZmqReadNoConn
  BY <1>8 DEF ZmqReadNoConn, connsvr, ConnTypeOK, Seqs
<1> QED
  BY <1>2, <1>4, <1>5, <1>6, <1>7, <1>8 DEF ConnNext

\* A request that is asked is new, and none that is lost or told is asked again.
LEMMA OnceConn ==
    ASSUME SessionInv, NEW W, Once(c2g, W, answered), Asks \/ Tells
    PROVE  Once(c2g', W, answered')
<1>1. Queue(c2g) /\ answered \in Seq(Nat) /\ Len(answered) = Len(asked)
  BY DEF SessionInv
<1>2. CASE Asks
  <2>1. answered' = Append(answered, 0)
    BY <1>2 DEF Asks
  <2>2. CASE UNCHANGED c2g
    <3> DEFINE m == [seq |-> Len(answered) + 1]
    <3>1. m.seq = Len(answered) + 1
      OBVIOUS
    <3> HIDE DEF m
    <3> QED
      BY <1>1, <2>1, <2>2, <3>1, OnceAsk
  <2>3. CASE ~UNCHANGED c2g
    <3>1. PICK m : m.seq = Len(answered) + 1 /\ c2g' = Push(c2g, <<m>>)
      BY <1>1, <1>2, <2>3 DEF Asks
    <3> QED
      BY <1>1, <2>1, <3>1, OnceAsk
  <2> QED
    BY <2>2, <2>3
<1>3. CASE Tells
  <2>1. answered' = answered
    BY <1>3 DEF Tells
  <2>2. CASE ~UNCHANGED c2g
    <3>1. PICK m : RequestMsg(m, 0) /\ c2g' = Push(c2g, <<m>>)
      BY <1>3, <2>2 DEF Tells
    <3>2. m.seq = 0
      BY <3>1 DEF RequestMsg
    <3> QED
      BY <1>1, <2>1, <3>1, <3>2, OnceTell
  <2> QED
    BY <2>1, <2>2
<1> QED
  BY <1>2, <1>3

-----------------------------------------------------------------------------
(* GameObjects: what is sent *)

\* Messages go to connsvr and one answer, to request t, is counted; or none, when
\* t is no request.
Sends(t) == /\ Queue(g2c') /\ \A m \in Msgs(g2c') : AnswerMsg(m, Len(asked))
            /\ answered' \in Seq(Nat) /\ Counted(answered, t, answered')

LEMMA AnswersSent ==
    ASSUME SessionInv, NEW msgs, IsSeq(msgs),
           \A m \in Msgs(msgs) : AnswerMsg(m, Len(asked)), NEW t,
           \A s \in Seqs : Count(msgs, s) = IF s = t THEN 1 ELSE 0,
           SendAnswers(msgs)
    PROVE  Sends(t)
<1> DEFINE n == Len(asked)
<1>1. n \in Nat /\ Len(answered) = n /\ \A s \in 1..n : answered[s] \in Nat
  BY DEF SessionInv
<1>2. /\ answered' = [s \in 1..n |-> answered[s] + Count(msgs, s)]
      /\ g2c' = Push(g2c, msgs)
  BY DEF SendAnswers, Seqs, Count
<1>3. Queue(g2c') /\ Msgs(g2c') \subseteq Msgs(g2c) \cup Msgs(msgs)
  BY <1>2, PushMsgs DEF SessionInv
<1> HIDE DEF n
<1>4. \A s \in 1..n : answered'[s] = answered[s] + IF s = t THEN 1 ELSE 0
  BY <1>2 DEF Seqs, n
<1>5. \A s \in 1..n : answered'[s] \in Nat
  BY <1>1, <1>4
<1>6. DOMAIN answered' = 1..n /\ answered' = [s \in 1..n |-> answered'[s]]
  BY <1>2
<1>7. answered' \in [1..n -> Nat]
  BY <1>5, <1>6
<1>8. answered' \in Seq(Nat)
  BY <1>1, <1>7, SeqDef
<1>9. Len(answered') = n
  BY <1>1, <1>6, <1>8
<1> QED
  BY <1>1, <1>3, <1>4, <1>8, <1>9 DEF Sends, Counted, SessionInv, n

LEMMA OneAnswer ==
    ASSUME SessionInv, NEW m, AnswerMsg(m, Len(asked)), SendAnswers(<<m>>)
    PROVE  Sends(m.seq)
<1>1. IsSeq(<<m>>) /\ \A k \in Msgs(<<m>>) : AnswerMsg(k, Len(asked))
  BY OneMsg
<1>2. \A s \in Seqs : Count(<<m>>, s) = IF s = m.seq THEN 1 ELSE 0
  BY CountOne
<1> DEFINE t == m.seq
           msgs == <<m>>
<1> HIDE DEF t, msgs
<1>3. Sends(t)
  BY <1>1, <1>2, AnswersSent DEF t, msgs
<1> QED
  BY <1>3 DEF t

LEMMA AnswerAndNotice ==
    ASSUME SessionInv, NEW m, AnswerMsg(m, Len(asked)), NEW n, AnswerMsg(n, Len(asked)),
           n.seq = 0, SendAnswers(<<m, n>>)
    PROVE  Sends(m.seq)
<1>1. IsSeq(<<m, n>>) /\ \A k \in Msgs(<<m, n>>) : AnswerMsg(k, Len(asked))
  BY TwoMsgs
<1>2. 0 \notin Seqs
  BY DEF Seqs, SessionInv
<1>3. \A s \in Seqs : Count(<<m, n>>, s) = IF s = m.seq THEN 1 ELSE 0
  BY <1>2, CountTwo
<1> DEFINE t == m.seq
           msgs == <<m, n>>
<1> HIDE DEF t, msgs
<1>4. Sends(t)
  BY <1>1, <1>3, AnswersSent DEF t, msgs
<1> QED
  BY <1>4 DEF t

\* ... and the types of the queues stay.
LEMMA SendsTyped ==
    ASSUME SessionInv, NEW t, Sends(t), UNCHANGED asked, Queue(c2g'),
           Msgs(c2g') \subseteq Msgs(c2g)
    PROVE  SessionInv'
  BY DEF SessionInv, Sends, Counted

\* Requests for datasvr: all of them have the number of cities of a player.
LEMMA CitiesCounted ==
    ASSUME NEW S \in SUBSET CityUnits PROVE IsFiniteSet(S) /\ Cardinality(S) \in Nat
<1>1. IsFiniteSet(CityUnits)
  BY FS_Interval, GameObjectsAssumption DEF CityUnits
<1> QED
  BY <1>1, FS_Subset, FS_CardinalityType

-----------------------------------------------------------------------------
(* GameObjects: the types of what is kept *)

LEMMA NewPlayerTyped ==
    ASSUME ObjectsTypeOK, NEW idx \in PlayerUnits, NEW fd \in Nat,
           players' = With(players, idx, NewPlayer(fd)),
           UNCHANGED <<cities, uid_to_player_idx_map>>
    PROVE  ObjectsTypeOK'
<1>1. /\ DOMAIN players' = DOMAIN players \cup {idx}
      /\ \A i \in DOMAIN players \ {idx} : players'[i] = players[i]
      /\ players'[idx].city_list = {} /\ players'[idx].conn_fd = fd
  BY DEF With, NewPlayer
<1> QED
  BY <1>1 DEF ObjectsTypeOK

LEMMA DelPlayerTyped ==
    ASSUME ObjectsTypeOK, NEW idx, DelPlayer(idx) PROVE ObjectsTypeOK'
<1>1. /\ DOMAIN players' \subseteq DOMAIN players
      /\ \A i \in DOMAIN players' : players'[i] = players[i]
      /\ cities' \subseteq cities
      /\ DOMAIN uid_to_player_idx_map' \subseteq DOMAIN uid_to_player_idx_map
      /\ \A u \in DOMAIN uid_to_player_idx_map' :
             uid_to_player_idx_map'[u] = uid_to_player_idx_map[u]
  BY DEF DelPlayer, Without
<1> QED
  BY <1>1 DEF ObjectsTypeOK

LEMMA BindUidTyped ==
    ASSUME ObjectsTypeOK, NEW uid, NEW idx \in PlayerUnits, BindUid(uid, idx)
    PROVE  \A u \in DOMAIN uid_to_player_idx_map' : uid_to_player_idx_map'[u] \in PlayerUnits
<1>1. CASE uid \in DOMAIN uid_to_player_idx_map
  BY <1>1 DEF BindUid, ObjectsTypeOK
<1>2. CASE uid \notin DOMAIN uid_to_player_idx_map
  <2>1. /\ DOMAIN uid_to_player_idx_map' = DOMAIN uid_to_player_idx_map \cup {uid}
        /\ uid_to_player_idx_map'[uid] = idx
        /\ \A u \in DOMAIN uid_to_player_idx_map :
               uid_to_player_idx_map'[u] = uid_to_player_idx_map[u]
    BY <1>2 DEF BindUid, With
  <2> QED
    BY <2>1 DEF ObjectsTypeOK
<1> QED
  BY <1>1, <1>2

-----------------------------------------------------------------------------
(* GameObjects: CityOwnership *)

\* It speaks of two variables only.
LEMMA CityUnchanged == CityOwnership /\ UNCHANGED <<players, cities>> => CityOwnership'
  BY DEF CityOwnership

\* AddPlayer: a player without cities, in a unit that was free.
LEMMA CityNewPlayer ==
    ASSUME CityOwnership, NEW idx, idx \notin DOMAIN players, NEW fd,
           players' = With(players, idx, NewPlayer(fd)), UNCHANGED cities
    PROVE  CityOwnership'
<1>1. /\ DOMAIN players' = DOMAIN players \cup {idx}
      /\ \A i \in DOMAIN players : players'[i] = players[i]
      /\ players'[idx].city_list = {}
  BY DEF With, NewPlayer
<1> QED
  BY <1>1 DEF CityOwnership

\* DelPlayer: the cities of the player go with it.
LEMMA CityDelPlayer == ASSUME NEW idx \in DOMAIN players, CityOwnership, DelPlayer(idx)
                       PROVE  CityOwnership'
<1>1. /\ DOMAIN players' = DOMAIN players \ {idx}
      /\ \A i \in DOMAIN players \ {idx} : players'[i] = players[i]
      /\ cities' = cities \ players[idx].city_list
  BY DEF DelPlayer, Without
<1> QED
  BY <1>1 DEF CityOwnership

\* AddCity: the new cities were free, and are one player's.
LEMMA CityAdd ==
    ASSUME CityOwnership, NEW idx \in DOMAIN players, NEW new, new \cap cities = {},
           cities' = cities \cup new, DOMAIN players' = DOMAIN players,
           players'[idx].city_list = players[idx].city_list \cup new,
           \A i \in DOMAIN players \ {idx} : players'[i].city_list = players[i].city_list
    PROVE  CityOwnership'
  BY DEF CityOwnership

-----------------------------------------------------------------------------
(* Requests to datasvr and their answers *)

JobSeqs(J) == {j.request.seq : j \in J}

\* What is on its way between gamesvr and datasvr has numbers up to n, and no
\* number but those of Z is there twice: as a request, a job or an answer.
Apart(q, J, r, Z, n) ==
    /\ Distinct(q, Z) /\ Distinct(r, Z)
    /\ \A i, j \in J : i.request.seq = j.request.seq /\ i.request.seq \notin Z => i = j
    /\ \A s \in SeqsOf(q) \ Z : s \notin JobSeqs(J) \cup SeqsOf(r)
    /\ \A s \in JobSeqs(J) \ Z : s \notin SeqsOf(r)
    /\ SeqsOf(q) \cup JobSeqs(J) \cup SeqsOf(r) \subseteq 0..n

\* What is on its way for one who waits is what that one waits for; and a row it
\* is told of is that of its account.
Wanted(m, w) == m.cmd = w.cmd /\ (m.cmd = "GET" => m.uid = w.uid /\ m.pw = w.pw)
TrueTo(m, w) == m.cmd = "GET" /\ m.ret = 0 => Verified(w.uid, w.pw)
Meant(id, w) ==
    /\ \A m \in Msgs(g2d) : m.seq = id => Wanted(m, w)
    /\ \A j \in jobs : j.request.seq = id => Wanted(j.request, w) /\ TrueTo(j.answer, w)
    /\ \A m \in Msgs(d2g) : m.seq = id => m.cmd = w.cmd /\ TrueTo(m, w)

LEMMA DataApart ==
    ASSUME DataInv, NEW Z, NEW n, Apart(g2d, jobs, d2g, Z, n),
           Takes \/ Executes \/ Loses \/ Replies
    PROVE  Apart(g2d', jobs', d2g', Z, n)
<1>1. Queue(g2d) /\ Queue(d2g)
  BY DEF DataInv
<1>2. CASE Takes
  <2>1. PICK j : j.request = Head(g2d) /\ jobs' = jobs \cup {j}
    BY <1>2 DEF Takes
  <2>2. /\ SeqsOf(g2d) = SeqsOf(Tail(g2d)) \cup {Head(g2d).seq}
        /\ Distinct(Tail(g2d), Z)
        /\ Head(g2d).seq \notin Z => Head(g2d).seq \notin SeqsOf(Tail(g2d))
    BY <1>1, <1>2, TailMsgs DEF Takes, Apart
  <2>3. JobSeqs(jobs') = JobSeqs(jobs) \cup {Head(g2d).seq}
    BY <2>1 DEF JobSeqs
  <2>4. \A i \in jobs : i.request.seq = Head(g2d).seq => Head(g2d).seq \in Z
    BY <2>2 DEF Apart, JobSeqs
  <2>5. \A i, k \in jobs' : i.request.seq = k.request.seq /\ i.request.seq \notin Z => i = k
    BY <2>1, <2>4 DEF Apart
  <2>6. g2d' = Tail(g2d) /\ d2g' = d2g
    BY <1>2 DEF Takes
  <2> QED
    BY <2>2, <2>3, <2>5, <2>6 DEF Apart
<1>3. CASE Executes
  <2>1. PICK j \in jobs, k \in jobs' : k.request = j.request /\ jobs' = (jobs \ {j}) \cup {k}
    BY <1>3 DEF Executes
  <2>2. JobSeqs(jobs') = JobSeqs(jobs)
    BY <2>1 DEF JobSeqs
  <2>3. \A i, l \in jobs' : i.request.seq = l.request.seq /\ i.request.seq \notin Z => i = l
    BY <2>1 DEF Apart
  <2> QED
    BY <1>3, <2>2, <2>3 DEF Apart, Executes
<1>4. CASE Loses
  <2>1. jobs' \subseteq jobs /\ JobSeqs(jobs') \subseteq JobSeqs(jobs)
    BY <1>4 DEF Loses, JobSeqs
  <2> QED
    BY <1>4, <2>1 DEF Apart, Loses
<1>5. CASE Replies
  <2>1. PICK j \in jobs : /\ j.answer # NoAnswer /\ d2g' = Push(d2g, <<j.answer>>)
                          /\ jobs' = jobs \ {j}
    BY <1>5 DEF Replies
  <2>2. j.answer.seq = j.request.seq /\ j.request.seq \in JobSeqs(jobs)
    BY <2>1 DEF DataInv, IsJob, JobSeqs
  <2>3. /\ jobs' \subseteq jobs /\ JobSeqs(jobs') \subseteq JobSeqs(jobs)
        /\ j.request.seq \notin Z => j.request.seq \notin JobSeqs(jobs')
    BY <2>1 DEF Apart, JobSeqs
  <2>4. j.answer.seq \in Z \/ j.answer.seq \notin SeqsOf(d2g)
    BY <2>2 DEF Apart
  <2>5. /\ Distinct(d2g', Z)
        /\ SeqsOf(d2g) \subseteq SeqsOf(d2g')
        /\ SeqsOf(d2g') \subseteq SeqsOf(d2g) \cup {j.answer.seq}
    BY <1>1, <2>1, <2>4, PushDistinct DEF Apart
  <2>6. g2d' = g2d
    BY <1>5 DEF Replies
  <2> QED
    BY <2>2, <2>3, <2>5, <2>6 DEF Apart
<1> QED
  BY <1>2, <1>3, <1>4, <1>5

LEMMA DataMeant ==
    ASSUME DataInv, RowsStay, NEW id, NEW w, Meant(id, w),
           Takes \/ Executes \/ Loses \/ Replies
    PROVE  Meant(id, w)'
<1>1. Queue(g2d) /\ Queue(d2g)
  BY DEF DataInv
<1>2. \A m : TrueTo(m, w) => TrueTo(m, w)'
  BY DEF RowsStay, TrueTo
<1>3. CASE Takes
  <2>1. PICK j : j.request = Head(g2d) /\ j.answer = NoAnswer /\ jobs' = jobs \cup {j}
    BY <1>3 DEF Takes
  <2>2. Msgs(g2d) = Msgs(Tail(g2d)) \cup {Head(g2d)}
    BY <1>1, <1>3, TailMsgs DEF Takes
  <2>3. TrueTo(j.answer, w)'
    BY <2>1 DEF NoAnswer, FromData, TrueTo
  <2> QED
    BY <1>2, <1>3, <2>1, <2>2, <2>3 DEF Meant, Takes
<1>4. CASE Executes
  <2>1. PICK j \in jobs, k \in jobs' :
            /\ IsJob(k) /\ k.request = j.request
            /\ k.answer.cmd = "GET" /\ k.answer.ret = 0
                 => Verified(j.request.uid, j.request.pw)
            /\ jobs' = (jobs \ {j}) \cup {k}
    BY <1>4 DEF Executes
  <2>2. k.answer.cmd = "GET" => k.request.cmd = "GET"
    BY <2>1 DEF IsJob, NoAnswer, FromData
  <2>3. k.request.seq = id => Wanted(k.request, w) /\ TrueTo(k.answer, w)
    BY <2>1, <2>2 DEF Meant, Wanted, TrueTo
  <2> QED
    BY <1>2, <1>4, <2>1, <2>3 DEF Meant, Executes
<1>5. CASE Loses
  BY <1>2, <1>5 DEF Meant, Loses
<1>6. CASE Replies
  <2>1. PICK j \in jobs : /\ j.answer # NoAnswer /\ d2g' = Push(d2g, <<j.answer>>)
                          /\ jobs' = jobs \ {j}
    BY <1>6 DEF Replies
  <2>2. j.answer.seq = j.request.seq /\ j.answer.cmd = j.request.cmd
    BY <2>1 DEF DataInv, IsJob
  <2>3. Msgs(d2g') \subseteq Msgs(d2g) \cup {j.answer}
    BY <1>1, <2>1, PushMsgs, OneMsg
  <2>4. j.answer.seq = id => j.answer.cmd = w.cmd /\ TrueTo(j.answer, w)
    BY <2>2 DEF Meant, Wanted
  <2> QED
    BY <1>2, <1>6, <2>1, <2>3, <2>4 DEF Meant, Replies
<1> QED
  BY <1>3, <1>4, <1>5, <1>6

\* Messages are lost or taken, numbers are given up, and new ones handed out.
LEMMA ApartFewer ==
    ASSUME NEW q, NEW J, NEW r, NEW Z, NEW n \in Nat, Apart(q, J, r, Z, n),
           NEW p, SeqsOf(p) \subseteq SeqsOf(q), Distinct(p, Z),
           NEW t, SeqsOf(t) \subseteq SeqsOf(r), Distinct(t, Z),
           NEW Y, Z \subseteq Y, NEW k \in Nat, n <= k
    PROVE  Apart(p, J, t, Y, k)
<1>1. Distinct(p, Y) /\ Distinct(t, Y)
  BY DEF Distinct
<1>2. 0..n \subseteq 0..k
  OBVIOUS
<1> QED
  BY <1>1, <1>2 DEF Apart

\* A request goes out under a number that nothing has, or none cares for.
LEMMA ApartSend ==
    ASSUME NEW q, Queue(q), NEW J, NEW r, NEW Z, NEW n, Apart(q, J, r, Z, n),
           NEW m, m.seq \in 0..n,
           m.seq \in Z \/ m.seq \notin SeqsOf(q) \cup JobSeqs(J) \cup SeqsOf(r)
    PROVE  Apart(Push(q, <<m>>), J, r, Z, n)
<1> DEFINE p == Push(q, <<m>>)
<1>1. /\ SeqsOf(p) \subseteq SeqsOf(q) \cup {m.seq}
      /\ Distinct(p, Z)
  BY PushDistinct DEF Apart
<1> HIDE DEF p
<1>2. Apart(p, J, r, Z, n)
  BY <1>1 DEF Apart
<1> QED
  BY <1>2 DEF p

\* Several requests go out, under numbers that none cares for.
LEMMA ApartSendMore ==
    ASSUME NEW q, Queue(q), NEW J, NEW r, NEW Z, NEW n, Apart(q, J, r, Z, n),
           NEW msgs, IsSeq(msgs), \A m \in Msgs(msgs) : m.seq \in Z /\ m.seq \in 0..n
    PROVE  Apart(Push(q, msgs), J, r, Z, n)
<1> DEFINE p == Push(q, msgs)
<1>1. Msgs(p) \subseteq Msgs(q) \cup Msgs(msgs) /\ Distinct(p, Z)
  BY PushMsgs DEF Apart
<1> HIDE DEF p
<1>2. \A s \in SeqsOf(p) : s \in SeqsOf(q) \/ (s \in Z /\ s \in 0..n)
  BY <1>1 DEF SeqsOf
<1>3. Apart(p, J, r, Z, n)
  BY <1>1, <1>2 DEF Apart
<1> QED
  BY <1>3 DEF p

\* The number of an answer that is taken is on nothing else.
LEMMA ApartTaken ==
    ASSUME NEW q, NEW J, NEW r, Queue(r), r # <<>>, NEW Z, NEW n \in Nat,
           Apart(q, J, r, Z, n)
    PROVE  /\ Apart(q, J, Tail(r), Z, n)
           /\ Head(r).seq \in 0..n
           /\ Head(r).seq \in Z
                \/ Head(r).seq \notin SeqsOf(q) \cup JobSeqs(J) \cup SeqsOf(Tail(r))
<1>1. /\ SeqsOf(r) = SeqsOf(Tail(r)) \cup {Head(r).seq}
      /\ Distinct(Tail(r), Z)
      /\ Head(r).seq \notin Z => Head(r).seq \notin SeqsOf(Tail(r))
  BY TailMsgs DEF Apart
<1> QED
  BY <1>1 DEF Apart

\* What is sent for another does not touch what one waits for.
LEMMA MeantKept ==
    ASSUME DataInv, UNCHANGED datasvr, Msgs(d2g') \subseteq Msgs(d2g),
           NEW id, NEW w, Meant(id, w),
           \/ UNCHANGED g2d
           \/ \E msgs : /\ IsSeq(msgs) /\ g2d' = Push(g2d, msgs)
                        /\ \A m \in Msgs(msgs) : m.seq = id => Wanted(m, w)
    PROVE  Meant(id, w)'
<1>1. \A m : TrueTo(m, w) => TrueTo(m, w)'
  BY DEF TrueTo, Verified, datasvr
<1>2. \A m \in Msgs(g2d') : m.seq = id => Wanted(m, w)
  <2>1. CASE UNCHANGED g2d
    BY <2>1 DEF Meant
  <2>2. CASE ~UNCHANGED g2d
    <3>1. PICK msgs : /\ IsSeq(msgs) /\ g2d' = Push(g2d, msgs)
                      /\ \A m \in Msgs(msgs) : m.seq = id => Wanted(m, w)
      BY <2>2
    <3>2. Msgs(g2d') \subseteq Msgs(g2d) \cup Msgs(msgs)
      BY <3>1, PushMsgs DEF DataInv
    <3> QED
      BY <3>1, <3>2 DEF Meant
  <2> QED
    BY <2>1, <2>2
<1> QED
  BY <1>1, <1>2 DEF Meant, datasvr

\* One waits, with a request of its own and nothing else on its way.
LEMMA MeantNew ==
    ASSUME DataInv, UNCHANGED datasvr,
           NEW id, id \notin SeqsOf(g2d) \cup JobSeqs(jobs) \cup SeqsOf(d2g'),
           NEW w, NEW m, Wanted(m, w), g2d' = Push(g2d, <<m>>)
    PROVE  Meant(id, w)'
<1>1. Msgs(g2d') \subseteq Msgs(g2d) \cup {m}
  BY PushMsgs, OneMsg DEF DataInv
<1>2. /\ \A k \in Msgs(g2d) \cup Msgs(d2g') : k.seq # id
      /\ \A j \in jobs : j.request.seq # id
  BY DEF SeqsOf, JobSeqs
<1> QED
  BY <1>1, <1>2 DEF Meant, datasvr

\* At most one thing is on its way for a number that is not of Z.
LEMMA AtMostOne ==
    ASSUME NEW S, \A x, y \in S : x = y
    PROVE  Cardinality(S) \in {0, 1} /\ (S = {} => Cardinality(S) = 0)
<1>1. CASE S = {}
  BY <1>1, FS_EmptySet
<1>2. CASE S # {}
  <2>1. PICK x : x \in S
    BY <1>2
  <2>2. S = {x}
    BY <2>1
  <2> QED
    BY <1>2, <2>2, FS_Singleton
<1> QED
  BY <1>1, <1>2

Jobs(J, id) == {j \in J : j.request.seq = id}

LEMMA OneOnTheWay ==
    ASSUME NEW q, NEW J, NEW r, NEW Z, NEW n, Apart(q, J, r, Z, n), NEW id, id \notin Z
    PROVE  /\ Count(q, id) \in Nat /\ Cardinality(Jobs(J, id)) \in Nat
           /\ Count(r, id) \in Nat
           /\ Count(q, id) + Cardinality(Jobs(J, id)) + Count(r, id) <= 1
<1> DEFINE A == {i \in DOMAIN q : q[i].seq = id}
           B == Jobs(J, id)
           C == {i \in DOMAIN r : r[i].seq = id}
<1>1. /\ \A x, y \in A : x = y
      /\ \A x, y \in C : x = y
  BY DEF Apart, Distinct
<1>2. \A x, y \in B : x = y
  BY DEF Apart, Jobs
<1>3. /\ A # {} => id \in SeqsOf(q)
      /\ B # {} => id \in JobSeqs(J)
      /\ C # {} => id \in SeqsOf(r)
  BY DEF SeqsOf, Msgs, JobSeqs, Jobs
<1>4. (A = {} /\ B = {}) \/ (A = {} /\ C = {}) \/ (B = {} /\ C = {})
  BY <1>3 DEF Apart
<1> HIDE DEF A, B, C
<1>5. /\ Cardinality(A) \in {0, 1} /\ (A = {} => Cardinality(A) = 0)
      /\ Cardinality(B) \in {0, 1} /\ (B = {} => Cardinality(B) = 0)
      /\ Cardinality(C) \in {0, 1} /\ (C = {} => Cardinality(C) = 0)
  BY <1>1, <1>2, AtMostOne
<1>6. /\ Cardinality(A) \in Nat /\ Cardinality(B) \in Nat /\ Cardinality(C) \in Nat
      /\ Cardinality(A) + Cardinality(B) + Cardinality(C) <= 1
  BY <1>4, <1>5
<1> QED
  BY <1>6 DEF Count, A, B, C

=============================================================================
