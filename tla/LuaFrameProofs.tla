---------------------------- MODULE LuaFrameProofs ----------------------------
(***************************************************************************)
(* Proofs about gamesvr_lua_coroutine between connsvr and datasvr, for pools  *)
(* and queues of every size, every set of requests and every set of faults.  *)
(***************************************************************************)
EXTENDS LuaFrame, SessionProofs

-----------------------------------------------------------------------------
(* What a step of gamesvr_lua_coroutine is to the messages and to the tasks *)

\* A task, when n requests have been sent; one that waits for the old player's
\* data to be saved knows that player.  A player.
IsTask(t, n) ==
    /\ t = [type |-> t.type, waits |-> t.waits, seq |-> t.seq,
            player_idx |-> t.player_idx, uid |-> t.uid,
            password_hash |-> t.password_hash,
            old_player_idx |-> t.old_player_idx, tries |-> t.tries]
    /\ t.seq \in 0..n /\ t.player_idx \in PlayerUnits
    /\ t.waits = "SET" => t.old_player_idx \in PlayerUnits
IsPlayer(p) ==
    /\ p = [conn_fd |-> p.conn_fd, uid |-> p.uid, password_hash |-> p.password_hash,
            city_list |-> p.city_list]
    /\ p.conn_fd \in Nat /\ p.city_list \subseteq CityUnits

PlayersInv == /\ DOMAIN players \subseteq PlayerUnits
              /\ \A i \in DOMAIN players : IsPlayer(players[i])
              /\ cities \subseteq CityUnits
TasksInv == /\ IsSeq(player_of)
            /\ DOMAIN co_map \subseteq 1..Len(player_of)
            /\ \A id \in DOMAIN co_map : Live(id) =>
                  IsTask(co_map[id], Len(asked)) /\ player_of[id] = co_map[id].player_idx
LuaInv == SessionInv /\ ConnTypeOK /\ DataInv /\ PlayersInv /\ TasksInv

\* What a task waits for; the requests that go out for it.  A task that kicks a
\* player off sends more than one.
Want(t) == [cmd |-> t.waits, uid |-> t.uid, pw |-> t.password_hash]
SentFor(msgs, id, t) ==
    /\ IsSeq(msgs)
    /\ \A m \in Msgs(msgs) : m.seq = id /\ m.cities \in Nat
    /\ t.old_player_idx = 0 => \E r : msgs = <<r>> /\ Wanted(r, Want(t))

\* Tasks are given up, or messages lost or taken, and nothing is sent; a request
\* is answered at once; the data of a player that goes are saved; a task begins; it
\* ends with an answer; it goes on.
TasksFewer ==
    \A id \in DOMAIN co_map' :
        /\ co_map'[id] # NoTask => Live(id) /\ co_map'[id] = co_map[id]
        /\ id \in DOMAIN co_map \/ (id > 0 /\ id \in SeqsOf(d2g))
Quiet == /\ Shrinks(c2g, c2g') /\ Shrinks(d2g, d2g') /\ TasksFewer
         /\ UNCHANGED <<g2c, g2d, asked, answered>>
AnswersNow == /\ c2g # <<>> /\ c2g' = Tail(c2g)
              /\ Sends(Head(c2g).seq)
              /\ UNCHANGED <<g2d, d2g, asked>>
              /\ TasksFewer
Saves == /\ c2g # <<>> /\ c2g' = Tail(c2g)
         /\ \E m : m.seq = 0 /\ m.cities \in Nat /\ g2d' = Push(g2d, <<m>>)
         /\ UNCHANGED <<g2c, d2g, asked, answered, co_map, player_of>>
Begins == /\ c2g # <<>> /\ c2g' = Tail(c2g)
          /\ Queue(g2c') /\ \A m \in Msgs(g2c') : AnswerMsg(m, Len(asked))
          /\ \E t, msgs : /\ IsTask(t, Len(asked)) /\ t # NoTask
                          /\ t.seq = Head(c2g).seq
                          /\ SentFor(msgs, NewTask, t)
                          /\ co_map' = With(co_map, NewTask, t)
                          /\ g2d' = Push(g2d, msgs)
                          /\ player_of' = Append(player_of, t.player_idx)
          /\ UNCHANGED <<d2g, asked, answered>>
Ends == /\ d2g # <<>> /\ d2g' = Tail(d2g)
        /\ Live(Resumed)
        /\ co_map' = Without(co_map, {Resumed})
        /\ Sends(Task.seq)
        /\ UNCHANGED <<c2g, g2d, asked, player_of>>
GoesOn == /\ d2g # <<>> /\ d2g' = Tail(d2g)
          /\ Live(Resumed)
          /\ \E t, msgs : /\ IsTask(t, Len(asked)) /\ t # NoTask
                          /\ t.seq = Task.seq /\ t.old_player_idx = Task.old_player_idx
                          /\ t.player_idx = Task.player_idx
                          /\ SentFor(msgs, Resumed, t)
                          /\ DOMAIN co_map' = DOMAIN co_map /\ co_map'[Resumed] = t
                          /\ \A id \in DOMAIN co_map \ {Resumed} : co_map'[id] = co_map[id]
                          /\ g2d' = Push(g2d, msgs)
          /\ UNCHANGED <<c2g, g2c, asked, answered, player_of>>

Effect == Quiet \/ AnswersNow \/ Saves \/ Begins \/ Ends \/ GoesOn

\* An answer, or a notice, to the client of a player.
LEMMA AnswerTyped ==
    ASSUME NEW player, IsPlayer(player), NEW idx \in PlayerUnits,
           NEW n, NEW s \in 0..n, NEW type, NEW ret
    PROVE  /\ AnswerMsg(Answer(player, idx, s, type, ret), n)
           /\ Answer(player, idx, s, type, ret).seq = s
<1>1. idx \in Nat /\ player.conn_fd \in Nat
  BY GameObjectsAssumption DEF PlayerUnits, IsPlayer
<1> QED
  BY <1>1 DEF Answer, ToConn, AnswerMsg

LEMMA NoticeTyped ==
    ASSUME NEW player, IsPlayer(player), NEW idx \in PlayerUnits, NEW n \in Nat, NEW cmd
    PROVE  LET m == ToConn(cmd, player.conn_fd, idx, 0, 0)
           IN  AnswerMsg(m, n) /\ m.seq = 0
<1>1. idx \in Nat /\ player.conn_fd \in Nat /\ 0 \in 0..n
  BY GameObjectsAssumption DEF PlayerUnits, IsPlayer
<1> QED
  BY <1>1 DEF ToConn, AnswerMsg

\* The data of a player, as they are saved.
LEMMA SaveTyped ==
    ASSUME NEW player, IsPlayer(player), NEW id
    PROVE  LET m == SetPlayerData(player, id) IN m.seq = id /\ m.cities \in Nat
<1>1. Cardinality(player.city_list) \in Nat
  BY CitiesCounted DEF IsPlayer
<1> QED
  BY <1>1 DEF SetPlayerData, ToData

\* A script goes on with a player, if not with the one its pointer was made for.
LEMMA PlayerTyped ==
    ASSUME PlayersInv, NEW idx \in DOMAIN players PROVE IsPlayer(players[idx])
  BY DEF PlayersInv

\* A task that begins, and its requests.
LEMMA YieldBegins ==
    ASSUME NEW id, NEW type, NEW cmd, NEW s \in 0..Len(asked), NEW idx \in PlayerUnits,
           NEW body, NEW old, cmd = "SET" => old \in PlayerUnits, NEW tries,
           Yield(id, type, cmd, s, idx, body, old, tries)
    PROVE  \E t : /\ IsTask(t, Len(asked)) /\ t # NoTask /\ t.seq = s
                  /\ t.old_player_idx = old /\ t.player_idx = idx
                  /\ Want(t) = [cmd |-> cmd, uid |-> body.uid, pw |-> body.pw]
                  /\ co_map' = With(co_map, id, t)
<1> DEFINE t == [type |-> type, waits |-> cmd, seq |-> s, player_idx |-> idx,
                 uid |-> body.uid, password_hash |-> body.pw,
                 old_player_idx |-> old, tries |-> tries]
<1>1. co_map' = With(co_map, id, t)
  BY DEF Yield
<1>2. t # NoTask
  BY DEF NoTask
<1>3. IsTask(t, Len(asked)) /\ t.seq = s /\ t.old_player_idx = old /\ t.player_idx = idx
  BY DEF IsTask
<1>4. Want(t) = [cmd |-> cmd, uid |-> body.uid, pw |-> body.pw]
  BY DEF Want
<1> HIDE DEF t
<1> QED
  BY <1>1, <1>2, <1>3, <1>4

LEMMA OneSent ==
    ASSUME NEW id, NEW t, NEW r, r.seq = id, r.cities \in Nat, Wanted(r, Want(t))
    PROVE  SentFor(<<r>>, id, t)
  BY OneMsg DEF SentFor

LEMMA TwoSent ==
    ASSUME NEW id, NEW t, t.old_player_idx # 0, NEW r, r.seq = id, r.cities \in Nat
    PROVE  SentFor(<<r, r>>, id, t)
<1>1. IsSeq(<<r, r>>) /\ \A m \in Msgs(<<r, r>>) : m = r
  BY TwoMsgs
<1> QED
  BY <1>1 DEF SentFor

\* CloseTask gives up a task, which may be the one that has just begun.
LEMMA CloseFewer == \A id : CloseTask(id) => TasksFewer
  BY DEF CloseTask, Without, TasksFewer, Live

\* HandleRequest, for players ps of the right types.
LEMMA RequestStep ==
    ASSUME LuaInv, c2g # <<>>, c2g' = Tail(c2g), UNCHANGED <<d2g, asked>>,
           Head(c2g).cmd \in {"START", "PROC"},
           NEW ps, DOMAIN ps \subseteq PlayerUnits, \A i \in DOMAIN ps : IsPlayer(ps[i]),
           NEW idx, HandleRequest(Head(c2g), idx, ps)
    PROVE  Effect
<1> DEFINE m == Head(c2g)
           body == asked[m.seq].body
<1>1. m.seq \in 0..Len(asked) /\ Len(asked) \in Nat
  BY TailMsgs DEF LuaInv, SessionInv, RequestMsg
<1>2. Shrinks(c2g, c2g') /\ Shrinks(d2g, d2g')
  BY ShrinksWhen DEF LuaInv, SessionInv, DataInv
<1>3. Queue(g2c) /\ \A k \in Msgs(g2c) : AnswerMsg(k, Len(asked))
  BY DEF LuaInv, SessionInv
<1> HIDE DEF m, body
<1>4. CASE Unregistered(body)
  BY <1>2, <1>4 DEF Unregistered, Effect, Quiet, TasksFewer, Live
<1>5. CASE ScriptFails(body, idx, ps)
  BY <1>2, <1>5, CloseFewer DEF ScriptFails, Effect, Quiet
<1>6. ASSUME idx \in DOMAIN ps, ScriptRejects(m, body, idx, ps[idx]) PROVE Effect
  <2> DEFINE a == Answer(ps[idx], idx, m.seq, body.cmd, -1)
  <2>1. SendAnswers(<<a>>) /\ CloseTask(NewTask) /\ UNCHANGED g2d
    BY <1>6 DEF ScriptRejects
  <2>2. AnswerMsg(a, Len(asked)) /\ a.seq = m.seq
    BY <1>1, <1>6, AnswerTyped
  <2> HIDE DEF a
  <2>3. Sends(m.seq)
    BY <2>1, <2>2, OneAnswer DEF LuaInv
  <2> QED
    BY <2>1, <2>3, CloseFewer DEF Effect, AnswersNow, m
<1>7. ASSUME idx \in DOMAIN ps, ScriptRegisters(m, body, idx),
             player_of' = Append(player_of, idx)
      PROVE  Effect
  <2> DEFINE r == ToData("REG", NewTask, body.uid, body.pw, 1)
  <2>1. g2d' = Push(g2d, <<r>>) /\ UNCHANGED <<g2c, answered>>
    BY <1>7 DEF ScriptRegisters, SendToDatasvr
  <2>2. PICK t : /\ IsTask(t, Len(asked)) /\ t # NoTask /\ t.seq = m.seq /\ t.player_idx = idx
                 /\ Want(t) = [cmd |-> "REG", uid |-> body.uid, pw |-> body.pw]
                 /\ co_map' = With(co_map, NewTask, t)
    BY <1>1, <1>7, YieldBegins DEF ScriptRegisters
  <2>3. r.seq = NewTask /\ r.cities \in Nat /\ Wanted(r, Want(t))
    BY <2>2 DEF ToData, Wanted
  <2> HIDE DEF r
  <2>4. SentFor(<<r>>, NewTask, t)
    BY <2>3, OneSent
  <2> QED
    BY <1>3, <1>7, <2>1, <2>2, <2>4 DEF Effect, Begins, m
<1>8. ASSUME idx \in DOMAIN ps, ScriptLogsIn(m, body, idx),
             player_of' = Append(player_of, idx)
      PROVE  Effect
  <2> DEFINE r == ToData("GET", NewTask, body.uid, body.pw, 0)
  <2>1. g2d' = Push(g2d, <<r>>) /\ UNCHANGED <<g2c, answered>>
    BY <1>8 DEF ScriptLogsIn, SendToDatasvr
  <2>2. PICK t : /\ IsTask(t, Len(asked)) /\ t # NoTask /\ t.seq = m.seq /\ t.player_idx = idx
                 /\ Want(t) = [cmd |-> "GET", uid |-> body.uid, pw |-> body.pw]
                 /\ co_map' = With(co_map, NewTask, t)
    BY <1>1, <1>8, YieldBegins DEF ScriptLogsIn
  <2>3. r.seq = NewTask /\ r.cities \in Nat /\ Wanted(r, Want(t))
    BY <2>2 DEF ToData, Wanted
  <2> HIDE DEF r
  <2>4. SentFor(<<r>>, NewTask, t)
    BY <2>3, OneSent
  <2> QED
    BY <1>3, <1>8, <2>1, <2>2, <2>4 DEF Effect, Begins, m
<1>9. ASSUME idx \in DOMAIN ps, ScriptKicks(m, body, idx, ps),
             player_of' = Append(player_of, idx)
      PROVE  Effect
  <2> DEFINE old == FindPlayerIdxByUid(body.uid)
             r == SetPlayerData(ps[old], NewTask)
             n == ToConn("STOP", ps[old].conn_fd, old, 0, 0)
  <2>1. /\ g2c' = Push(g2c, <<n>>) /\ g2d' = Push(g2d, <<r, r>>) /\ UNCHANGED answered
        /\ old \in DOMAIN ps /\ old > 0
    BY <1>9 DEF ScriptKicks, SaveTwice
  <2>0. Yield(NewTask, "LOGIN", "SET", m.seq, idx, body, old, 0) /\ idx \in PlayerUnits
    BY <1>9 DEF ScriptKicks
  <2> HIDE DEF old
  <2>2. old \in PlayerUnits /\ old # 0 /\ IsPlayer(ps[old])
    BY <2>1 DEF PlayerUnits
  <2>3. PICK t : /\ IsTask(t, Len(asked)) /\ t # NoTask /\ t.seq = m.seq /\ t.player_idx = idx
                 /\ t.old_player_idx = old
                 /\ co_map' = With(co_map, NewTask, t)
    BY <1>1, <2>0, <2>2, YieldBegins
  <2>4. r.seq = NewTask /\ r.cities \in Nat
    BY <2>2, SaveTyped
  <2>5. AnswerMsg(n, Len(asked))
    BY <1>1, <2>2, NoticeTyped
  <2> HIDE DEF r, n
  <2>6. SentFor(<<r, r>>, NewTask, t)
    BY <2>2, <2>3, <2>4, TwoSent
  <2>7. Queue(g2c') /\ Msgs(g2c') \subseteq Msgs(g2c) \cup {n}
    BY <1>3, <2>1, PushMsgs, OneMsg
  <2>8. \A x \in Msgs(g2c') : AnswerMsg(x, Len(asked))
    BY <1>3, <2>5, <2>7
  <2> QED
    BY <1>9, <2>1, <2>3, <2>6, <2>7, <2>8 DEF Effect, Begins, m
<1> QED
  BY <1>4, <1>5, <1>6, <1>7, <1>8, <1>9 DEF HandleRequest, m, body

LEMMA ConnsvrStep ==
    ASSUME LuaInv, ConnStart \/ ConnProc \/ ConnStop PROVE Effect
<1>1. c2g # <<>> /\ c2g' = Tail(c2g) /\ UNCHANGED <<d2g, asked>>
  BY DEF ConnStart, ConnProc, ConnStop, FromConnsvr
<1>2. Head(c2g).conn_fd \in Nat
  BY <1>1, TailMsgs DEF LuaInv, SessionInv, RequestMsg
<1>3. DOMAIN players \subseteq PlayerUnits /\ \A i \in DOMAIN players : IsPlayer(players[i])
  BY DEF LuaInv, PlayersInv
<1>4. Shrinks(c2g, c2g') /\ Shrinks(d2g, d2g')
  BY <1>1, ShrinksWhen DEF LuaInv, SessionInv, DataInv
<1>5. CASE ConnStart
  <2>1. PICK idx \in PlayerUnits \ DOMAIN players :
            HandleRequest(Head(c2g), idx, With(players, idx, NewPlayer(Head(c2g).conn_fd)))
    BY <1>5 DEF ConnStart
  <2> DEFINE ps == With(players, idx, NewPlayer(Head(c2g).conn_fd))
  <2>2. DOMAIN ps \subseteq PlayerUnits /\ \A i \in DOMAIN ps : IsPlayer(ps[i])
    BY <1>2, <1>3 DEF With, NewPlayer, IsPlayer
  <2>3. Head(c2g).cmd \in {"START", "PROC"}
    BY <1>5 DEF ConnStart, FromConnsvr
  <2> HIDE DEF ps
  <2> QED
    BY <1>1, <2>1, <2>2, <2>3, RequestStep DEF ps
<1>6. CASE ConnProc
  <2>1. Head(c2g).cmd \in {"START", "PROC"} /\ HandleRequest(Head(c2g), Head(c2g).player_idx, players)
    BY <1>6 DEF ConnProc, FromConnsvr
  <2> QED
    BY <1>1, <1>3, <2>1, RequestStep
<1>7. CASE ConnStop
  <2> DEFINE idx == Head(c2g).player_idx
             r == SetPlayerData(players[idx], 0)
  <2>1. UNCHANGED <<g2c, d2g, asked, answered, co_map, player_of>>
    BY <1>7 DEF ConnStop
  <2>2. CASE idx \in DOMAIN players
    <3>1. g2d' = Push(g2d, <<r>>)
      BY <1>7, <2>2 DEF ConnStop, SendToDatasvr
    <3>2. r.seq = 0 /\ r.cities \in Nat
      BY <1>3, <2>2, SaveTyped
    <3> HIDE DEF r
    <3> QED
      BY <1>1, <2>1, <3>1, <3>2 DEF Effect, Saves
  <2>3. CASE idx \notin DOMAIN players
    BY <1>4, <1>7, <2>1, <2>3 DEF ConnStop, Effect, Quiet, TasksFewer, Live
  <2> QED
    BY <2>2, <2>3
<1> QED
  BY <1>5, <1>6, <1>7

\* What an answer means to the task it is for.
LEMMA TaskTyped ==
    ASSUME LuaInv, Live(Resumed)
    PROVE  /\ IsTask(Task, Len(asked)) /\ Task # NoTask
           /\ Task.seq \in 0..Len(asked) /\ Task.player_idx \in PlayerUnits
           /\ Resumed \in DOMAIN co_map
  BY DEF LuaInv, TasksInv, Live, Task, IsTask

\* The last words of a task: its answer, and for some a notice.
LEMMA LastWordsEnd ==
    ASSUME LuaInv, Live(Resumed), Task.player_idx \in DOMAIN players, NEW ret, NEW more, LastWords(ret, more),
           \/ more = <<>>
           \/ \E n : more = <<n>> /\ AnswerMsg(n, Len(asked)) /\ n.seq = 0,
           d2g # <<>>, d2g' = Tail(d2g), UNCHANGED <<c2g, g2d, asked, player_of>>
    PROVE  Ends
<1> DEFINE p == players[Task.player_idx]
           a == Answer(p, Task.player_idx, Task.seq, Task.type, ret)
<1>1. Task.seq \in 0..Len(asked) /\ Task.player_idx \in PlayerUnits
  BY TaskTyped
<1>2. IsPlayer(p)
  BY PlayerTyped DEF LuaInv
<1>3. SendAnswers(<<a>> \o more) /\ CloseTask(Resumed)
  BY DEF LastWords
<1> HIDE DEF p
<1>4. AnswerMsg(a, Len(asked)) /\ a.seq = Task.seq
  BY <1>1, <1>2, AnswerTyped
<1> HIDE DEF a
<1>5. CASE more = <<>>
  <2>1. <<a>> \o more = <<a>>
    BY <1>5
  <2>2. Sends(a.seq)
    BY <1>3, <1>4, <2>1, OneAnswer DEF LuaInv
  <2> QED
    BY <1>3, <1>4, <2>2 DEF Ends, CloseTask
<1>6. CASE ~(more = <<>>)
  <2>1. PICK n : more = <<n>> /\ AnswerMsg(n, Len(asked)) /\ n.seq = 0
    BY <1>6
  <2>2. <<a>> \o more = <<a, n>>
    BY <2>1, TwoJoined
  <2>3. Sends(a.seq)
    BY <1>3, <1>4, <2>1, <2>2, AnswerAndNotice DEF LuaInv
  <2> QED
    BY <1>3, <1>4, <2>3 DEF Ends, CloseTask
<1> QED
  BY <1>5, <1>6

LEMMA TryAgainStep == ASSUME LuaInv, ResumeTryAgain PROVE GoesOn
<1> DEFINE k == Task
<1>1. /\ Live(Resumed) /\ k.waits = "REG" /\ d2g # <<>> /\ d2g' = Tail(d2g)
      /\ UNCHANGED <<c2g, g2c, asked, answered, player_of>>
  BY DEF ResumeTryAgain, FromHandler, FromDatasvr, Waits
<1>2. PICK body \in Bodies :
          /\ Register(body.uid)
          /\ co_map' = [co_map EXCEPT ![Resumed].tries = @ + 1, ![Resumed].uid = body.uid]
  BY DEF ResumeTryAgain
<1> DEFINE j == [k EXCEPT !.tries = @ + 1]
           t == [j EXCEPT !.uid = body.uid]
           r == ToData("REG", Resumed, body.uid, k.password_hash, 1)
<1>3. IsTask(k, Len(asked)) /\ Resumed \in DOMAIN co_map
  BY <1>1, TaskTyped
<1>4. /\ DOMAIN co_map' = DOMAIN co_map /\ co_map'[Resumed] = t
      /\ \A id \in DOMAIN co_map \ {Resumed} : co_map'[id] = co_map[id]
  BY <1>2, <1>3 DEF Task
<1>5. g2d' = Push(g2d, <<r>>)
  BY <1>2 DEF Register, SendToDatasvr
<1> HIDE DEF k
<1>6. j = [type |-> k.type, waits |-> k.waits, seq |-> k.seq,
            player_idx |-> k.player_idx, uid |-> k.uid,
            password_hash |-> k.password_hash,
            old_player_idx |-> k.old_player_idx, tries |-> k.tries + 1]
  BY <1>3 DEF IsTask
<1> HIDE DEF j
<1>7. t = [type |-> k.type, waits |-> k.waits, seq |-> k.seq,
           player_idx |-> k.player_idx, uid |-> body.uid,
           password_hash |-> k.password_hash,
           old_player_idx |-> k.old_player_idx, tries |-> k.tries + 1]
  BY <1>6
<1> HIDE DEF t
<1>8. /\ t # NoTask /\ t.seq = k.seq /\ t.old_player_idx = k.old_player_idx
      /\ t.player_idx = k.player_idx
      /\ t.waits = k.waits
  BY <1>7 DEF NoTask
<1>9. IsTask(t, Len(asked))
  BY <1>3, <1>7, <1>8 DEF IsTask
<1>10. r.seq = Resumed /\ r.cities \in Nat /\ Wanted(r, Want(t))
  BY <1>1, <1>8 DEF ToData, Wanted, Want
<1> HIDE DEF r
<1>11. SentFor(<<r>>, Resumed, t)
  BY <1>10, OneSent
<1> QED
  BY <1>1, <1>4, <1>5, <1>8, <1>9, <1>11 DEF GoesOn, k

LEMMA SavedStep == ASSUME LuaInv, ResumeSaved PROVE GoesOn
<1> DEFINE k == Task
<1>1. /\ Live(Resumed) /\ k.waits = "SET" /\ d2g # <<>> /\ d2g' = Tail(d2g)
      /\ UNCHANGED <<c2g, g2c, asked, answered, player_of>>
  BY DEF ResumeSaved, FromHandler, FromDatasvr, Waits
<1>2. IsTask(k, Len(asked)) /\ Resumed \in DOMAIN co_map /\ k # NoTask
  BY <1>1, TaskTyped
<1>3. k.old_player_idx \in PlayerUnits /\ k.old_player_idx # 0
  BY <1>1, <1>2 DEF IsTask, PlayerUnits
<1>4. CASE Flag # 0
  <2> DEFINE p == players[k.old_player_idx]
             r == SetPlayerData(p, Resumed)
  <2>1. g2d' = Push(g2d, <<r, r>>) /\ UNCHANGED co_map
    BY <1>4 DEF ResumeSaved, SaveTwice
  <2>2. IsPlayer(p)
    BY <1>4, PlayerTyped DEF ResumeSaved, UnitInUse, NextUnit, LuaInv
  <2> HIDE DEF p
  <2>3. r.seq = Resumed /\ r.cities \in Nat
    BY <2>2, SaveTyped
  <2> HIDE DEF r
  <2>4. SentFor(<<r, r>>, Resumed, k)
    BY <1>3, <2>3, TwoSent
  <2>5. co_map'[Resumed] = k
    BY <2>1 DEF Task
  <2> HIDE DEF k
  <2> QED
    BY <1>1, <1>2, <2>1, <2>4, <2>5 DEF GoesOn, k
<1>5. CASE Flag = 0
  <2> DEFINE t == [k EXCEPT !.waits = "GET"]
             r == ToData("GET", Resumed, k.uid, k.password_hash, 0)
  <2>1. g2d' = Push(g2d, <<r>>) /\ co_map' = [co_map EXCEPT ![Resumed].waits = "GET"]
    BY <1>5 DEF ResumeSaved, SendToDatasvr
  <2>2. /\ DOMAIN co_map' = DOMAIN co_map /\ co_map'[Resumed] = t
        /\ \A id \in DOMAIN co_map \ {Resumed} : co_map'[id] = co_map[id]
    BY <1>2, <2>1 DEF Task
  <2> HIDE DEF k
  <2>3. t = [type |-> k.type, waits |-> "GET", seq |-> k.seq,
             player_idx |-> k.player_idx, uid |-> k.uid,
             password_hash |-> k.password_hash,
             old_player_idx |-> k.old_player_idx, tries |-> k.tries]
    BY <1>2 DEF IsTask
  <2> HIDE DEF t
  <2>4. /\ t # NoTask /\ t.seq = k.seq /\ t.old_player_idx = k.old_player_idx
        /\ t.player_idx = k.player_idx
        /\ t.waits = "GET" /\ t.uid = k.uid /\ t.password_hash = k.password_hash
    BY <2>3 DEF NoTask
  <2>5. IsTask(t, Len(asked))
    BY <1>2, <2>3, <2>4 DEF IsTask
  <2>6. r.seq = Resumed /\ r.cities \in Nat /\ Wanted(r, Want(t))
    BY <2>4 DEF ToData, Wanted, Want
  <2> HIDE DEF r
  <2>7. SentFor(<<r>>, Resumed, t)
    BY <2>6, OneSent
  <2> QED
    BY <1>1, <2>1, <2>2, <2>4, <2>5, <2>7 DEF GoesOn, k
<1> QED
  BY <1>4, <1>5

LEMMA DatasvrStep ==
    ASSUME LuaInv,
           \/ ResumeNoTask \/ ResumeCollected
           \/ ResumeAnswer \/ ResumeTryAgain \/ ResumeSaved \/ ResumeLoggedIn
    PROVE  Effect
<1>1. d2g # <<>> /\ d2g' = Tail(d2g) /\ UNCHANGED <<c2g, asked>>
  BY DEF ResumeNoTask, ResumeCollected, ResumeAnswer, ResumeTryAgain, ResumeSaved,
         ResumeLoggedIn, FromHandler, FromDatasvr
<1>2. Shrinks(c2g, c2g') /\ Shrinks(d2g, d2g')
  BY <1>1, ShrinksWhen DEF LuaInv, SessionInv, DataInv
<1>3. CASE ResumeNoTask
  <2>1. TasksFewer /\ UNCHANGED <<g2c, g2d, asked, answered>>
    <3>1. Resumed \in SeqsOf(d2g)
      BY <1>1, TailMsgs DEF LuaInv, DataInv, Resumed
    <3> QED
      BY <1>3, <3>1 DEF ResumeNoTask, With, TasksFewer, Live
  <2> QED
    BY <1>2, <2>1 DEF Effect, Quiet
<1>4. CASE ResumeCollected
  <2>1. TasksFewer /\ UNCHANGED <<g2c, g2d, asked, answered>>
    BY <1>4 DEF ResumeCollected, CloseTask, Without, TasksFewer, Live
  <2> QED
    BY <1>2, <2>1 DEF Effect, Quiet
<1>5. CASE ResumeAnswer
  <2>1. Live(Resumed) /\ UNCHANGED <<c2g, g2d, asked, player_of>>
        /\ Task.player_idx \in DOMAIN players
        /\ LastWords(IF Flag = 0 THEN 0 ELSE -1, <<>>)
    BY <1>5 DEF ResumeAnswer, Waits, UnitInUse, NextUnit
  <2> QED
    BY <1>1, <2>1, LastWordsEnd DEF Effect
<1>6. CASE ResumeLoggedIn
  <2> DEFINE p == players[Task.player_idx]
             n == ToConn("PROC", p.conn_fd, Task.player_idx, 0, 0)
  <2>1. /\ Live(Resumed) /\ UNCHANGED <<c2g, g2d, asked, player_of>>
        /\ Task.player_idx \in DOMAIN players
        /\ LastWords(0, <<n>>)
    BY <1>6 DEF ResumeLoggedIn, Waits, UnitInUse, NextUnit
  <2>2. Task.player_idx \in PlayerUnits
    BY <2>1, TaskTyped
  <2>3. IsPlayer(p) /\ Len(asked) \in Nat
    BY <2>1, PlayerTyped DEF LuaInv, SessionInv
  <2> HIDE DEF p
  <2>4. AnswerMsg(n, Len(asked)) /\ n.seq = 0
    BY <2>2, <2>3, NoticeTyped
  <2> HIDE DEF n
  <2> QED
    BY <1>1, <2>1, <2>4, LastWordsEnd DEF Effect
<1> QED
  BY <1>3, <1>4, <1>5, <1>6, TryAgainStep, SavedStep DEF Effect

\* What any step of gamesvr_lua_coroutine is.
LEMMA LuaStep == ASSUME LuaInv, LuaNext PROVE Effect
<1>1. Shrinks(c2g, c2g) /\ Shrinks(d2g, d2g) /\ (d2g # <<>> => Shrinks(d2g, Tail(d2g)))
  BY ShrinksWhen DEF LuaInv, SessionInv, DataInv
<1>2. ASSUME NEW why, Die(why) PROVE Effect
  BY <1>1, <1>2 DEF Die, links, Effect, Quiet, TasksFewer
<1>3. CASE \/ ConnStartFull \/ AnswerNoPlayer \/ AnswerNoCity \/ OnTimerAborts
           \/ ResumeReleased \/ ResumeCollectedAborts
  BY <1>2, <1>3 DEF ConnStartFull, AnswerNoPlayer, AnswerNoCity, OnTimerAborts, ResumeReleased,
         ResumeCollectedAborts
<1>4. CASE OnTimer
  <2>1. PICK id : co_map' = Without(co_map, {id}) /\ UNCHANGED links
    BY <1>4 DEF OnTimer
  <2>2. TasksFewer
    BY <2>1 DEF Without, TasksFewer, Live
  <2> QED
    BY <1>1, <2>1, <2>2 DEF links, Effect, Quiet
<1>5. CASE Stop \/ Exit
  BY <1>1, <1>5 DEF Stop, Exit, links, Effect, Quiet, TasksFewer, Live
<1>6. CASE AnswerLost
  BY <1>1, <1>6 DEF AnswerLost, FromDatasvr, lua, Effect, Quiet, TasksFewer, Live
<1> QED
  BY <1>3, <1>4, <1>5, <1>6, ConnsvrStep, DatasvrStep DEF LuaNext, LuaHandles

-----------------------------------------------------------------------------
(* The objects *)

\* Players that are all right, in their units; one more, and without one.
IsPlayers(ps) == DOMAIN ps \subseteq PlayerUnits /\ \A i \in DOMAIN ps : IsPlayer(ps[i])

LEMMA NewPlayerStep ==
    ASSUME IsPlayers(players), NEW idx \in PlayerUnits, NEW fd \in Nat
    PROVE  IsPlayers(With(players, idx, NewPlayer(fd)))
  BY DEF IsPlayers, IsPlayer, With, NewPlayer

LEMMA DelPlayerStep == ASSUME PlayersInv, NEW idx, DelPlayerIn(idx) PROVE PlayersInv'
<1>1. CASE idx \in DOMAIN players
  <2>1. /\ DOMAIN players' \subseteq DOMAIN players
        /\ \A i \in DOMAIN players' : players'[i] = players[i]
        /\ cities' \subseteq cities
    BY <1>1 DEF DelPlayerIn, DelPlayer, Without
  <2> QED
    BY <2>1 DEF PlayersInv
<1>2. CASE idx \notin DOMAIN players
  BY <1>2 DEF DelPlayerIn, objects, PlayersInv
<1> QED
  BY <1>1, <1>2

\* The cities of a row are free ones, and go to the player of the task.
LEMMA CitiesGiven ==
    ASSUME PlayersInv, HasPlayer, NEW new \in NewCities
    PROVE  /\ new \subseteq CityUnits \ cities
           /\ new = {} \/ (BringsCities /\ ItsUnit \in DOMAIN players)
           /\ IsPlayers(WithCities(new))
           /\ DOMAIN WithCities(new) = DOMAIN players
           /\ \A i \in DOMAIN players :
                 WithCities(new)[i].city_list
                   = players[i].city_list \cup (IF i = ItsUnit THEN new ELSE {})
<1>1. new \subseteq CityUnits \ cities
  BY DEF NewCities
<1>2. new = {} \/ (BringsCities /\ ItsUnit \in DOMAIN players)
  BY DEF NewCities, HasPlayer
<1> DEFINE p == players[ItsUnit]
           c == p.city_list \cup new
           k == [p EXCEPT !.city_list = c]
           ps == WithCities(new)
<1>3. CASE new = {}
  <2>1. ps = players
    BY <1>3 DEF WithCities
  <2> QED
    BY <1>1, <1>2, <1>3, <2>1 DEF PlayersInv, IsPlayers
<1>4. CASE new # {}
  <2>1. ItsUnit \in DOMAIN players /\ IsPlayer(p)
    BY <1>2, <1>4 DEF PlayersInv
  <2>2. /\ DOMAIN ps = DOMAIN players /\ ps[ItsUnit] = k
        /\ \A i \in DOMAIN players \ {ItsUnit} : ps[i] = players[i]
    BY <1>4, <2>1 DEF WithCities
  <2> HIDE DEF p, ps, c
  <2>3. k = [conn_fd |-> p.conn_fd, uid |-> p.uid, password_hash |-> p.password_hash,
             city_list |-> c]
    BY <2>1 DEF IsPlayer
  <2> HIDE DEF k
  <2>4. IsPlayer(k) /\ k.city_list = p.city_list \cup new
    BY <1>1, <2>1, <2>3 DEF IsPlayer, c
  <2>5. IsPlayers(ps)
    BY <2>1, <2>2, <2>4 DEF PlayersInv, IsPlayers
  <2>6. \A i \in DOMAIN players :
            ps[i].city_list = players[i].city_list \cup (IF i = ItsUnit THEN new ELSE {})
    BY <2>2, <2>4 DEF p
  <2> QED
    BY <1>1, <1>2, <2>2, <2>5, <2>6 DEF ps
<1> QED
  BY <1>3, <1>4

\* A login changes whose the player is, and no more.
LEMMA LoggedInTyped ==
    ASSUME NEW p, IsPlayer(p)
    PROVE  IsPlayer(LoggedIn(p)) /\ LoggedIn(p).city_list = p.city_list
<1> DEFINE u == Task.uid
           h == Task.password_hash
           j == [p EXCEPT !.uid = u]
           k == [j EXCEPT !.password_hash = h]
<1>1. LoggedIn(p) = k
  BY DEF LoggedIn
<1> HIDE DEF u, h
<1>2. j = [conn_fd |-> p.conn_fd, uid |-> u, password_hash |-> p.password_hash,
           city_list |-> p.city_list]
  BY DEF IsPlayer
<1> HIDE DEF j
<1>3. k = [conn_fd |-> p.conn_fd, uid |-> u, password_hash |-> h,
           city_list |-> p.city_list]
  BY <1>2
<1> HIDE DEF k
<1>4. IsPlayer(k) /\ k.city_list = p.city_list
  BY <1>3 DEF IsPlayer
<1> QED
  BY <1>1, <1>4

LEMMA LoggedInStep ==
    ASSUME LuaInv, ResumeLoggedIn
    PROVE  /\ PlayersInv'
           /\ \E new : /\ new \subseteq CityUnits \ cities /\ cities' = cities \cup new
                       /\ new = {} \/ ItsUnit \in DOMAIN players
                       /\ DOMAIN players' = DOMAIN players
                       /\ \A i \in DOMAIN players :
                             players'[i].city_list
                               = players[i].city_list \cup (IF i = ItsUnit THEN new ELSE {})
<1> DEFINE idx == Task.player_idx
<1>1. PICK new \in NewCities :
          /\ cities' = cities \cup new
          /\ players' = [WithCities(new) EXCEPT ![idx] = LoggedIn(@)]
  BY DEF ResumeLoggedIn
<1>2. HasPlayer /\ Live(Resumed) /\ PlayersInv
  BY DEF ResumeLoggedIn, FromHandler, Waits, LuaInv
<1>3. idx \in DOMAIN players
  BY DEF ResumeLoggedIn, Waits, UnitInUse, NextUnit
<1> DEFINE ps == WithCities(new)
<1>4. /\ new \subseteq CityUnits \ cities
      /\ new = {} \/ ItsUnit \in DOMAIN players
      /\ IsPlayers(ps) /\ DOMAIN ps = DOMAIN players
      /\ \A i \in DOMAIN players :
            ps[i].city_list = players[i].city_list \cup (IF i = ItsUnit THEN new ELSE {})
  BY <1>2, CitiesGiven
<1> HIDE DEF idx, ps
<1>5. cities' \subseteq CityUnits
  BY <1>1, <1>2, <1>4 DEF PlayersInv
<1>6. /\ DOMAIN players' = DOMAIN players
      /\ players'[idx] = LoggedIn(ps[idx])
      /\ \A i \in DOMAIN players \ {idx} : players'[i] = ps[i]
  BY <1>1, <1>3, <1>4 DEF idx, ps
<1>7. IsPlayer(ps[idx])
  BY <1>3, <1>4 DEF IsPlayers
<1>8. IsPlayer(players'[idx]) /\ players'[idx].city_list = ps[idx].city_list
  BY <1>6, <1>7, LoggedInTyped
<1>9. PlayersInv'
  BY <1>4, <1>5, <1>6, <1>8 DEF PlayersInv, IsPlayers
<1>10. \A i \in DOMAIN players :
          players'[i].city_list = players[i].city_list \cup (IF i = ItsUnit THEN new ELSE {})
  BY <1>4, <1>6, <1>8
<1> QED
  BY <1>1, <1>4, <1>6, <1>9, <1>10

LEMMA NoTaskStep ==
    ASSUME LuaInv, ResumeNoTask \/ ResumeCollected
    PROVE  /\ PlayersInv'
           /\ \E new : /\ new \subseteq CityUnits \ cities /\ cities' = cities \cup new
                       /\ new = {} \/ ItsUnit \in DOMAIN players
                       /\ DOMAIN players' = DOMAIN players
                       /\ \A i \in DOMAIN players :
                             players'[i].city_list
                               = players[i].city_list \cup (IF i = ItsUnit THEN new ELSE {})
<1>1. PICK new \in NewCities : players' = WithCities(new) /\ cities' = cities \cup new
  BY DEF ResumeNoTask, ResumeCollected
<1>2. HasPlayer /\ PlayersInv
  BY DEF ResumeNoTask, ResumeCollected, FromHandler, LuaInv
<1> DEFINE ps == WithCities(new)
<1>3. /\ new \subseteq CityUnits \ cities
      /\ new = {} \/ ItsUnit \in DOMAIN players
      /\ IsPlayers(ps) /\ DOMAIN ps = DOMAIN players
      /\ \A i \in DOMAIN players :
            ps[i].city_list = players[i].city_list \cup (IF i = ItsUnit THEN new ELSE {})
  BY <1>2, CitiesGiven
<1>4. players' = ps
  BY <1>1
<1> HIDE DEF ps
<1>5. PlayersInv'
  BY <1>1, <1>2, <1>3, <1>4 DEF PlayersInv, IsPlayers
<1> QED
  BY <1>1, <1>3, <1>4, <1>5

\* The other steps start with new players, or end with one less, or change none.
Others == \/ ConnStart
          \/ ConnStop \/ ResumeSaved
          \/ UNCHANGED <<players, cities>>

LEMMA OtherSteps ==
    LuaNext => Others \/ ResumeNoTask \/ ResumeCollected \/ ResumeLoggedIn
<1>1. ASSUME NEW why, Die(why) PROVE Others
  BY <1>1 DEF Die, Others
<1>2. CASE \/ ConnStartFull \/ AnswerNoPlayer \/ AnswerNoCity \/ OnTimerAborts
           \/ ResumeReleased \/ ResumeCollectedAborts
  BY <1>1, <1>2 DEF ConnStartFull, AnswerNoPlayer, AnswerNoCity, OnTimerAborts, ResumeReleased,
         ResumeCollectedAborts
<1>3. CASE \/ ConnProc \/ ResumeAnswer \/ ResumeTryAgain
           \/ AnswerLost \/ OnTimer \/ Stop \/ Exit
  BY <1>3 DEF ConnProc, ResumeAnswer, ResumeTryAgain, AnswerLost, OnTimer, Stop, Exit,
              lua, objects, Others
<1> QED
  BY <1>2, <1>3 DEF LuaNext, LuaHandles, Others

\* ResumeSaved deletes the old player, or changes none.
LEMMA DelSteps ==
    ASSUME ConnStop \/ ResumeSaved
    PROVE  UNCHANGED <<players, cities>> \/ \E idx : DelPlayerIn(idx)
<1>1. CASE ConnStop
  BY <1>1 DEF ConnStop
<1>2. CASE ResumeSaved
  BY <1>2 DEF ResumeSaved, objects
<1> QED
  BY <1>1, <1>2

LEMMA StartStep ==
    ASSUME LuaInv, ConnStart
    PROVE  \E idx \in PlayerUnits \ DOMAIN players, fd \in Nat :
               /\ players' = With(players, idx, NewPlayer(fd))
               /\ UNCHANGED cities
<1>1. Head(c2g).conn_fd \in Nat
  BY TailMsgs DEF ConnStart, FromConnsvr, LuaInv, SessionInv, RequestMsg
<1> QED
  BY <1>1 DEF ConnStart

LEMMA PlayersStep == ASSUME LuaInv, LuaNext PROVE PlayersInv'
<1>1. PlayersInv /\ IsPlayers(players)
  BY DEF LuaInv, PlayersInv, IsPlayers
<1>2. UNCHANGED <<players, cities>> => PlayersInv'
  BY <1>1 DEF PlayersInv
<1>3. CASE ConnStart
  <2>1. PICK idx \in PlayerUnits, fd \in Nat :
            /\ players' = With(players, idx, NewPlayer(fd))
            /\ UNCHANGED cities
    BY <1>3, StartStep
  <2>2. IsPlayers(players')
    BY <1>1, <2>1, NewPlayerStep
  <2> QED
    BY <1>1, <2>1, <2>2 DEF PlayersInv, IsPlayers
<1>4. CASE ConnStop \/ ResumeSaved
  BY <1>1, <1>2, <1>4, DelSteps, DelPlayerStep
<1> QED
  BY <1>2, <1>3, <1>4, OtherSteps, NoTaskStep, LoggedInStep DEF Others

-----------------------------------------------------------------------------
(* The tasks, the queues, and what is on its way between the tasks and datasvr *)

\* A task that did not kick a player off has one request on its way; every other
\* number may be on several: 0, those of kicks, and those of tasks that are over.
Alone(id) == Live(id) /\ co_map[id].old_player_idx = 0
Spare == {0} \cup {id \in 1..Len(player_of) : ~Alone(id)}
ApartInv == Apart(g2d, jobs, d2g, Spare, Len(player_of))

\* Numbers are counted up, and what they stand for stays.
NumbersGrow == UNCHANGED player_of \/ \E x : player_of' = Append(player_of, x)

LEMMA NumbersStep == LuaNext => NumbersGrow
<1>1. ASSUME NEW idx, NEW ps, HandleRequest(Head(c2g), idx, ps) PROVE NumbersGrow
  BY <1>1 DEF HandleRequest, Unregistered, NumbersGrow
<1>2. CASE ConnStart \/ ConnProc
  BY <1>1, <1>2 DEF ConnStart, ConnProc
<1>3. CASE \/ ConnStartFull \/ AnswerNoPlayer \/ AnswerNoCity \/ OnTimerAborts
           \/ ResumeReleased \/ ResumeCollectedAborts
  BY <1>3 DEF ConnStartFull, AnswerNoPlayer, AnswerNoCity, OnTimerAborts, ResumeReleased,
         ResumeCollectedAborts, Die, NumbersGrow
<1>4. CASE ConnStop \/ ResumeNoTask \/ ResumeAnswer \/ ResumeTryAgain
  BY <1>4 DEF ConnStop, ResumeNoTask, ResumeAnswer, ResumeTryAgain, NumbersGrow
<1>5. CASE ResumeCollected \/ ResumeSaved \/ ResumeLoggedIn \/ AnswerLost
  BY <1>5 DEF ResumeCollected, ResumeSaved, ResumeLoggedIn, AnswerLost, lua, NumbersGrow
<1>6. CASE OnTimer \/ Stop \/ Exit
  BY <1>6 DEF OnTimer, Stop, Exit, NumbersGrow
<1> QED
  BY <1>2, <1>3, <1>4, <1>5, <1>6 DEF LuaNext, LuaHandles

LEMMA Grown ==
    ASSUME IsSeq(player_of), NumbersGrow
    PROVE  /\ IsSeq(player_of') /\ Len(player_of) \in Nat /\ Len(player_of') \in Nat
           /\ Len(player_of) <= Len(player_of')
           /\ 1..Len(player_of) \subseteq 1..Len(player_of')
           /\ \A id \in 1..Len(player_of) : player_of'[id] = player_of[id]
<1>1. PICK S : player_of \in Seq(S)
  BY DEF IsSeq
<1>2. CASE UNCHANGED player_of
  BY <1>1, <1>2
<1>3. CASE ~UNCHANGED player_of
  <2>1. PICK x : player_of' = Append(player_of, x)
    BY <1>3 DEF NumbersGrow
  <2>2. player_of \in Seq(S \cup {x})
    BY <1>1
  <2>3. player_of' \in Seq(S \cup {x}) /\ Len(player_of') = Len(player_of) + 1
        /\ \A id \in 1..Len(player_of) : player_of'[id] = player_of[id]
    BY <2>1, <2>2
  <2> QED
    BY <1>1, <2>3 DEF IsSeq
<1> QED
  BY <1>2, <1>3

\* The number of the task that begins is a new one.
LEMMA NewTaskNumber ==
    ASSUME LuaInv, NEW x, player_of' = Append(player_of, x)
    PROVE  /\ NewTask = Len(player_of) + 1 /\ Len(player_of') = NewTask
           /\ NewTask \in 1..NewTask /\ NewTask \notin 0..Len(player_of)
           /\ player_of'[NewTask] = x
           /\ NewTask \notin DOMAIN co_map
<1>1. PICK S : player_of \in Seq(S)
  BY DEF LuaInv, TasksInv, IsSeq
<1>2. player_of \in Seq(S \cup {x})
  BY <1>1
<1>3. Len(player_of) \in Nat /\ Len(player_of') = Len(player_of) + 1
      /\ player_of'[Len(player_of) + 1] = x
  BY <1>2
<1> QED
  BY <1>3 DEF NewTask, LuaInv, TasksInv

LEMMA TasksStep ==
    ASSUME LuaInv, ApartInv, LuaNext, Effect
    PROVE  TasksInv' /\ UNCHANGED asked
<1> DEFINE Good(id, t) == IsTask(t, Len(asked)) /\ player_of'[id] = t.player_idx
<1>1. /\ IsSeq(player_of) /\ DOMAIN co_map \subseteq 1..Len(player_of)
      /\ \A id \in DOMAIN co_map : Live(id) =>
            IsTask(co_map[id], Len(asked)) /\ player_of[id] = co_map[id].player_idx
  BY DEF LuaInv, TasksInv
<1>2. /\ IsSeq(player_of') /\ 1..Len(player_of) \subseteq 1..Len(player_of')
      /\ \A id \in 1..Len(player_of) : player_of'[id] = player_of[id]
  BY <1>1, NumbersStep, Grown
<1>3. \A id \in DOMAIN co_map : Live(id) => Good(id, co_map[id])
  BY <1>1, <1>2
<1>4. UNCHANGED asked
  BY DEF Effect, Quiet, AnswersNow, Saves, Begins, Ends, GoesOn
<1>5. ASSUME DOMAIN co_map' \subseteq 1..Len(player_of'),
             \A id \in DOMAIN co_map' : co_map'[id] # NoTask => Good(id, co_map'[id])
      PROVE  TasksInv'
  BY <1>2, <1>4, <1>5 DEF TasksInv, Live, NoTask
<1> HIDE DEF Good
<1>6. CASE TasksFewer
  <2>1. \A id \in DOMAIN co_map' : co_map'[id] # NoTask => Good(id, co_map'[id])
    BY <1>3, <1>6 DEF TasksFewer, Live
  <2>2. \A id \in SeqsOf(d2g) : id > 0 => id \in 1..Len(player_of)
    BY <1>2 DEF ApartInv, Apart
  <2>3. DOMAIN co_map' \subseteq 1..Len(player_of')
    BY <1>1, <1>2, <1>6, <2>2 DEF TasksFewer
  <2> QED
    BY <1>4, <1>5, <2>1, <2>3
<1>7. CASE Quiet \/ AnswersNow
  BY <1>4, <1>6, <1>7 DEF Quiet, AnswersNow
<1>8. CASE Saves
  BY <1>1, <1>2, <1>3, <1>4, <1>5, <1>8 DEF Saves, Live
<1>9. CASE Begins
  <2>1. PICK t : /\ IsTask(t, Len(asked)) /\ co_map' = With(co_map, NewTask, t)
                 /\ player_of' = Append(player_of, t.player_idx)
    BY <1>9 DEF Begins
  <2>2. /\ Len(player_of') = NewTask /\ NewTask \in 1..NewTask
        /\ player_of'[NewTask] = t.player_idx
    BY <2>1, NewTaskNumber
  <2>3. /\ DOMAIN co_map' = DOMAIN co_map \cup {NewTask} /\ co_map'[NewTask] = t
        /\ \A id \in DOMAIN co_map \ {NewTask} : co_map'[id] = co_map[id]
    BY <2>1 DEF With
  <2>4. Good(NewTask, t)
    BY <2>1, <2>2 DEF Good
  <2>5. DOMAIN co_map' \subseteq 1..Len(player_of')
    BY <1>1, <1>2, <2>2, <2>3
  <2>6. ASSUME NEW id \in DOMAIN co_map', co_map'[id] # NoTask PROVE Good(id, co_map'[id])
    <3>1. CASE id = NewTask
      BY <2>3, <2>4, <3>1
    <3>2. CASE id # NewTask
      BY <1>3, <2>3, <2>6, <3>2 DEF Live
    <3> QED
      BY <3>1, <3>2
  <2> QED
    BY <1>4, <1>5, <2>5, <2>6
<1>10. CASE Ends
  <2>1. co_map' = Without(co_map, {Resumed})
    BY <1>10 DEF Ends
  <2>2. /\ DOMAIN co_map' \subseteq DOMAIN co_map
        /\ \A id \in DOMAIN co_map' : co_map'[id] = co_map[id]
    BY <2>1 DEF Without
  <2> QED
    BY <1>1, <1>2, <1>3, <1>4, <1>5, <2>2 DEF Live
<1>11. CASE GoesOn
  <2>1. PICK t : /\ IsTask(t, Len(asked)) /\ t.player_idx = Task.player_idx
                 /\ DOMAIN co_map' = DOMAIN co_map /\ co_map'[Resumed] = t
                 /\ \A id \in DOMAIN co_map \ {Resumed} : co_map'[id] = co_map[id]
    BY <1>11 DEF GoesOn
  <2>2. Live(Resumed)
    BY <1>11 DEF GoesOn
  <2>3. Good(Resumed, t)
    BY <1>3, <2>1, <2>2 DEF Good, Live, Task
  <2> QED
    BY <1>1, <1>2, <1>3, <1>4, <1>5, <2>1, <2>3 DEF Live
<1> QED
  BY <1>7, <1>8, <1>9, <1>10, <1>11 DEF Effect

\* The queues keep their types.
LEMMA QueuesStep ==
    ASSUME LuaInv, Effect, UNCHANGED datasvr
    PROVE  SessionInv' /\ DataInv' /\ Msgs(d2g') \subseteq Msgs(d2g)
<1>1. SessionInv /\ DataInv /\ Queue(c2g) /\ Queue(d2g) /\ Queue(g2d)
  BY DEF LuaInv, SessionInv, DataInv
<1>2. /\ Queue(c2g') /\ Msgs(c2g') \subseteq Msgs(c2g)
      /\ Queue(d2g') /\ Msgs(d2g') \subseteq Msgs(d2g)
  <2>1. c2g # <<>> => Queue(Tail(c2g)) /\ Msgs(Tail(c2g)) \subseteq Msgs(c2g)
    BY <1>1, TailMsgs
  <2>2. d2g # <<>> => Queue(Tail(d2g)) /\ Msgs(Tail(d2g)) \subseteq Msgs(d2g)
    BY <1>1, TailMsgs
  <2>3. CASE Quiet
    BY <1>1, <2>3, ShrinksMsgs DEF Quiet
  <2>4. CASE AnswersNow \/ Saves \/ Begins
    BY <1>1, <2>1, <2>4 DEF AnswersNow, Saves, Begins
  <2>5. CASE Ends \/ GoesOn
    BY <1>1, <2>2, <2>5 DEF Ends, GoesOn
  <2> QED
    BY <2>3, <2>4, <2>5 DEF Effect
<1>3. SessionInv'
  <2>1. CASE Quiet \/ Saves \/ GoesOn
    BY <1>1, <1>2, <2>1 DEF Quiet, Saves, GoesOn, SessionInv
  <2>2. CASE AnswersNow
    BY <1>1, <1>2, <2>2, SendsTyped DEF AnswersNow
  <2>3. CASE Ends
    BY <1>1, <1>2, <2>3, SendsTyped DEF Ends
  <2>4. CASE Begins
    BY <1>1, <1>2, <2>4 DEF Begins, SessionInv
  <2> QED
    BY <2>1, <2>2, <2>3, <2>4 DEF Effect
<1>4. Queue(g2d') /\ \A m \in Msgs(g2d') : m.cities \in Nat
  <2>1. CASE Quiet \/ AnswersNow \/ Ends
    BY <1>1, <2>1 DEF Quiet, AnswersNow, Ends, DataInv
  <2>2. ASSUME NEW msgs, IsSeq(msgs), g2d' = Push(g2d, msgs),
               \A m \in Msgs(msgs) : m.cities \in Nat
        PROVE  Queue(g2d') /\ \A m \in Msgs(g2d') : m.cities \in Nat
    <3>1. Queue(g2d') /\ Msgs(g2d') \subseteq Msgs(g2d) \cup Msgs(msgs)
      BY <1>1, <2>2, PushMsgs
    <3> QED
      BY <1>1, <2>2, <3>1 DEF DataInv
  <2>3. CASE Saves
    BY <2>2, <2>3, OneMsg DEF Saves
  <2>4. CASE Begins \/ GoesOn
    BY <2>2, <2>4 DEF Begins, GoesOn, SentFor
  <2> QED
    BY <2>1, <2>3, <2>4 DEF Effect
<1>5. DataInv'
  BY <1>1, <1>2, <1>4 DEF DataInv, datasvr
<1> QED
  BY <1>2, <1>3, <1>5

\* The answer that is taken leaves what is apart so; and if it is for a task that
\* is alone, nothing else is on its way for that one.
LEMMA AnswerTaken ==
    ASSUME LuaInv, ApartInv, d2g # <<>>, d2g' = Tail(d2g)
    PROVE  /\ Apart(g2d, jobs, d2g', Spare, Len(player_of))
           /\ Resumed \in 0..Len(player_of)
           /\ \/ Resumed \in Spare
              \/ Resumed \notin SeqsOf(g2d) \cup JobSeqs(jobs) \cup SeqsOf(d2g')
<1>1. Queue(d2g) /\ Len(player_of) \in Nat
  BY DEF LuaInv, DataInv, TasksInv, IsSeq
<1>2. \A Z : Apart(g2d, jobs, d2g, Z, Len(player_of)) =>
          /\ Apart(g2d, jobs, Tail(d2g), Z, Len(player_of))
          /\ Head(d2g).seq \in 0..Len(player_of)
          /\ \/ Head(d2g).seq \in Z
             \/ Head(d2g).seq \notin SeqsOf(g2d) \cup JobSeqs(jobs) \cup SeqsOf(Tail(d2g))
  BY <1>1, ApartTaken
<1> QED
  BY <1>2 DEF ApartInv, Resumed

\* Requests go out for a task: one, when it is alone.
LEMMA ApartSent ==
    ASSUME NEW q, Queue(q), NEW r, NEW Z, NEW n, Apart(q, jobs, r, Z, n),
           NEW id \in 0..n, NEW t, NEW msgs, SentFor(msgs, id, t),
           \/ id \in Z
           \/ /\ t.old_player_idx = 0
              /\ id \notin SeqsOf(q) \cup JobSeqs(jobs) \cup SeqsOf(r)
    PROVE  Apart(Push(q, msgs), jobs, r, Z, n)
<1>1. IsSeq(msgs) /\ \A m \in Msgs(msgs) : m.seq = id
  BY DEF SentFor
<1>2. CASE id \in Z
  BY <1>1, <1>2, ApartSendMore
<1>3. CASE id \notin Z
  <2>1. PICK m : msgs = <<m>>
    BY <1>3 DEF SentFor
  <2>2. m.seq = id
    BY <1>1, <2>1, OneMsg
  <2> QED
    BY <1>3, <2>1, <2>2, ApartSend
<1> QED
  BY <1>2, <1>3

LEMMA ApartStep ==
    ASSUME LuaInv, ApartInv, LuaNext, Effect, UNCHANGED datasvr
    PROVE  ApartInv'
<1> DEFINE n == Len(player_of)
           k == Len(player_of')
<1>1. /\ Queue(g2d) /\ Queue(d2g) /\ jobs' = jobs /\ n \in Nat
      /\ IsSeq(player_of) /\ DOMAIN co_map \subseteq 1..n
  BY DEF LuaInv, DataInv, TasksInv, IsSeq, datasvr
<1>2. k \in Nat /\ n <= k /\ 1..n \subseteq 1..k /\ 0..n \subseteq 0..k
  <2>1. n \in Nat /\ k \in Nat /\ n <= k
    BY <1>1, NumbersStep, Grown
  <2> QED
    BY <2>1
<1>3. /\ Apart(g2d, jobs, d2g, Spare, n)
      /\ Distinct(g2d, Spare) /\ Distinct(d2g, Spare)
  BY DEF ApartInv, Apart
<1>4. ASSUME \A id : Alone(id)' => Alone(id) PROVE Spare \subseteq Spare'
  BY <1>2, <1>4 DEF Spare
<1>5. ASSUME TasksFewer PROVE Spare \subseteq Spare'
  <2>1. \A id : Alone(id)' => Alone(id)
    BY <1>5 DEF TasksFewer, Alone, Live, NoTask
  <2> QED
    BY <1>4, <2>1
<1> HIDE DEF n, k
<1>6. CASE Quiet \/ AnswersNow
  <2>1. /\ SeqsOf(d2g') \subseteq SeqsOf(d2g) /\ Distinct(d2g', Spare) /\ g2d' = g2d
    BY <1>1, <1>3, <1>6, ShrinksMsgs DEF Quiet, AnswersNow
  <2>2. Spare \subseteq Spare'
    BY <1>5, <1>6 DEF Quiet, AnswersNow
  <2>3. \A Y : Spare \subseteq Y => Apart(g2d, jobs, d2g', Y, k)
    BY <1>1, <1>2, <1>3, <2>1, ApartFewer
  <2> QED
    BY <1>1, <2>1, <2>2, <2>3 DEF ApartInv, k
<1>7. CASE Saves
  <2>1. PICK m : m.seq = 0 /\ g2d' = Push(g2d, <<m>>)
    BY <1>7 DEF Saves
  <2>2. 0 \in Spare /\ 0 \in 0..n
    BY <1>1 DEF Spare
  <2>3. \A Z : 0 \in Z /\ Apart(g2d, jobs, d2g, Z, n) => Apart(Push(g2d, <<m>>), jobs, d2g, Z, n)
    BY <1>1, <2>1, <2>2, ApartSend
  <2>4. Spare' = Spare /\ k = n /\ d2g' = d2g
    BY <1>7 DEF Saves, Spare, Alone, Live, k, n
  <2> QED
    BY <1>1, <1>3, <2>1, <2>2, <2>3, <2>4 DEF ApartInv, k
<1>8. CASE Begins
  <2>1. PICK t, msgs : /\ t # NoTask /\ SentFor(msgs, NewTask, t)
                       /\ co_map' = With(co_map, NewTask, t) /\ g2d' = Push(g2d, msgs)
                       /\ player_of' = Append(player_of, t.player_idx)
    BY <1>8 DEF Begins
  <2>2. k = NewTask /\ NewTask \in 1..k /\ NewTask \notin 0..n /\ NewTask \in 0..k
    <3>1. k = NewTask /\ NewTask \in 1..k /\ NewTask \notin 0..n
      BY <2>1, NewTaskNumber DEF k, n
    <3> QED
      BY <3>1, <1>2
  <2>3. /\ DOMAIN co_map' = DOMAIN co_map \cup {NewTask} /\ co_map'[NewTask] = t
        /\ \A id \in DOMAIN co_map \ {NewTask} : co_map'[id] = co_map[id]
    BY <2>1 DEF With
  <2>4. \A id : id # NewTask => (Alone(id)' <=> Alone(id))
    BY <2>3 DEF Alone, Live, NoTask
  <2>5. \A id : id = NewTask => (Alone(id)' <=> t.old_player_idx = 0)
    BY <2>1, <2>3 DEF Alone, Live, NoTask
  <2>6. Spare \subseteq Spare' /\ (NewTask \notin Spare' => t.old_player_idx = 0)
    <3>1. 1..n \subseteq 1..k /\ NewTask \notin 1..n /\ NewTask \in 1..k
      BY <1>2, <2>2
    <3>2. \A id \in 1..n : Alone(id)' <=> Alone(id)
      BY <2>4, <3>1
    <3>3. Spare \subseteq Spare'
      BY <3>1, <3>2 DEF Spare, k, n
    <3>4. \A id : id = NewTask /\ id \notin Spare' => t.old_player_idx = 0
      BY <2>5, <3>1 DEF Spare, k
    <3> QED
      BY <3>3, <3>4
  <2>7. NewTask \notin SeqsOf(g2d) \cup JobSeqs(jobs) \cup SeqsOf(d2g)
    BY <1>3, <2>2 DEF Apart
  <2>8. \A Y : Spare \subseteq Y => Apart(g2d, jobs, d2g, Y, k)
    BY <1>1, <1>2, <1>3, ApartFewer
  <2>9. \A Y : /\ Spare \subseteq Y
               /\ NewTask \notin Y => t.old_player_idx = 0
               => Apart(Push(g2d, msgs), jobs, d2g, Y, k)
    BY <1>1, <2>1, <2>2, <2>7, <2>8, ApartSent
  <2>10. d2g' = d2g
    BY <1>8 DEF Begins
  <2> QED
    BY <1>1, <2>1, <2>6, <2>9, <2>10 DEF ApartInv, k
<1>9. CASE Ends
  <2>1. d2g # <<>> /\ d2g' = Tail(d2g) /\ g2d' = g2d /\ co_map' = Without(co_map, {Resumed})
    BY <1>9 DEF Ends
  <2>2. Apart(g2d, jobs, d2g', Spare, n)
    BY <2>1, AnswerTaken DEF n
  <2>3. \A id : Alone(id)' => Alone(id)
    BY <2>1 DEF Without, Alone, Live, NoTask
  <2>4. Spare \subseteq Spare'
    BY <1>4, <2>3
  <2>5. Distinct(d2g', Spare)
    BY <2>2 DEF Apart
  <2>6. \A Y : Spare \subseteq Y => Apart(g2d, jobs, d2g', Y, k)
    BY <1>1, <1>2, <1>3, <2>2, <2>5, ApartFewer
  <2> QED
    BY <1>1, <2>1, <2>4, <2>6 DEF ApartInv, k
<1>10. CASE GoesOn
  <2>1. PICK t, msgs : /\ t # NoTask /\ t.old_player_idx = Task.old_player_idx
                       /\ SentFor(msgs, Resumed, t) /\ g2d' = Push(g2d, msgs)
                       /\ DOMAIN co_map' = DOMAIN co_map /\ co_map'[Resumed] = t
                       /\ \A id \in DOMAIN co_map \ {Resumed} : co_map'[id] = co_map[id]
    BY <1>10 DEF GoesOn
  <2>2. /\ d2g # <<>> /\ d2g' = Tail(d2g) /\ Live(Resumed)
        /\ player_of' = player_of
    BY <1>10 DEF GoesOn
  <2>3. /\ Apart(g2d, jobs, d2g', Spare, n) /\ Resumed \in 0..n
        /\ \/ Resumed \in Spare
           \/ Resumed \notin SeqsOf(g2d) \cup JobSeqs(jobs) \cup SeqsOf(d2g')
    BY <2>2, AnswerTaken DEF n
  <2>4. \A id : Alone(id)' <=> Alone(id)
    <3> TAKE id
    <3>1. CASE id = Resumed
      BY <2>1, <2>2, <3>1 DEF Alone, Live, NoTask, Task
    <3>2. CASE id # Resumed
      BY <2>1, <3>2 DEF Alone, Live, NoTask
    <3> QED
      BY <3>1, <3>2
  <2>5. Spare' = Spare /\ k = n
    BY <2>2, <2>4 DEF Spare, k, n
  <2>6. Resumed \notin Spare => t.old_player_idx = 0
    BY <1>1, <2>1, <2>2 DEF Spare, Alone, Live, Task, n
  <2>7. \A Z : /\ Apart(g2d, jobs, d2g', Z, n)
               /\ \/ Resumed \in Z
                  \/ /\ t.old_player_idx = 0
                     /\ Resumed \notin SeqsOf(g2d) \cup JobSeqs(jobs) \cup SeqsOf(d2g')
               => Apart(Push(g2d, msgs), jobs, d2g', Z, n)
    BY <1>1, <2>1, <2>3, ApartSent
  <2> QED
    BY <1>1, <2>1, <2>3, <2>5, <2>6, <2>7 DEF ApartInv, k
<1> QED
  BY <1>6, <1>7, <1>8, <1>9, <1>10 DEF Effect

LEMMA LuaInvStep == LuaInv /\ ApartInv /\ [Next]_vars => LuaInv' /\ ApartInv'
<1> SUFFICES ASSUME LuaInv, ApartInv, [Next]_vars PROVE LuaInv' /\ ApartInv'
  OBVIOUS
<1>1. CASE ConnNext /\ UNCHANGED <<lua, datasvr>>
  <2>1. (Asks \/ Tells) /\ UNCHANGED <<g2d, d2g>>
    BY <1>1, ConnStep DEF LuaInv
  <2>2. SessionInv' /\ ConnTypeOK'
    BY <1>1, <2>1, AsksKeep, TellsKeep, ConnTypeStep DEF LuaInv
  <2>3. Len(asked) \in Nat /\ Len(asked') \in Nat /\ Len(asked) <= Len(asked')
    BY <2>1 DEF LuaInv, SessionInv, Asks, Tells
  <2>4. \A t : IsTask(t, Len(asked)) => IsTask(t, Len(asked'))
    BY <2>3 DEF IsTask
  <2>5. PlayersInv' /\ TasksInv'
    BY <1>1, <2>4 DEF LuaInv, PlayersInv, TasksInv, Live, lua, objects
  <2>6. DataInv'
    BY <1>1, <2>1 DEF LuaInv, DataInv, datasvr
  <2>7. ApartInv'
    BY <1>1, <2>1 DEF ApartInv, Spare, Alone, Live, lua, datasvr
  <2> QED
    BY <2>2, <2>5, <2>6, <2>7 DEF LuaInv
<1>2. CASE LuaNext /\ UNCHANGED <<connsvr, datasvr>>
  <2>1. Effect
    BY <1>2, LuaStep
  <2>2. TasksInv' /\ UNCHANGED asked
    BY <1>2, <2>1, TasksStep
  <2>3. ConnTypeOK'
    BY <1>2, <2>2 DEF LuaInv, ConnTypeOK, connsvr, Seqs
  <2> QED
    BY <1>2, <2>1, <2>2, <2>3, PlayersStep, QueuesStep, ApartStep DEF LuaInv
<1>3. CASE DataNext /\ UNCHANGED <<connsvr, lua>>
  <2>1. UNCHANGED <<c2g, g2c, asked, answered>> /\ (Takes \/ Executes \/ Loses \/ Replies)
    BY <1>3, DataStep DEF LuaInv
  <2>2. SessionInv' /\ ConnTypeOK'
    BY <1>3, <2>1 DEF LuaInv, SessionInv, ConnTypeOK, connsvr, Seqs
  <2>3. PlayersInv' /\ TasksInv'
    BY <1>3, <2>1 DEF LuaInv, PlayersInv, TasksInv, Live, lua, objects
  <2>4. DataInv'
    BY <1>3, DataInvStep DEF LuaInv
  <2>5. \A Z, n : Apart(g2d, jobs, d2g, Z, n) => Apart(g2d', jobs', d2g', Z, n)
    BY <2>1, DataApart DEF LuaInv
  <2>6. ApartInv'
    BY <1>3, <2>5 DEF ApartInv, Spare, Alone, Live, lua
  <2> QED
    BY <2>2, <2>3, <2>4, <2>6 DEF LuaInv
<1>4. CASE UNCHANGED vars
  <2>1. SessionInv' /\ ConnTypeOK' /\ DataInv'
    BY <1>4 DEF vars, links, connsvr, datasvr, LuaInv, SessionInv, ConnTypeOK, DataInv, Seqs
  <2>2. PlayersInv' /\ TasksInv'
    BY <1>4 DEF vars, links, lua, objects, LuaInv, PlayersInv, TasksInv, Live
  <2>3. ApartInv'
    BY <1>4 DEF vars, links, lua, datasvr, ApartInv, Spare, Alone, Live
  <2> QED
    BY <2>1, <2>2, <2>3 DEF LuaInv
<1> QED
  BY <1>1, <1>2, <1>3, <1>4 DEF Next

LEMMA LuaStart == Init => LuaInv /\ ApartInv
<1> SUFFICES ASSUME Init PROVE LuaInv /\ ApartInv
  OBVIOUS
<1>1. /\ c2g = <<>> /\ g2c = <<>> /\ g2d = <<>> /\ d2g = <<>>
      /\ asked = <<>> /\ answered = <<>> /\ player_of = <<>> /\ jobs = {}
      /\ DOMAIN co_map = {}
  BY DEF Init, LinksInit, LuaInit, DataInit
<1>2. SessionInv
  BY <1>1, EmptyQueue DEF SessionInv
<1>3. ConnTypeOK
  BY ConnSvrAssumption DEF Init, ConnInit, ConnTypeOK
<1>4. PlayersInv
  BY DEF Init, LuaInit, ObjectsInit, PlayersInv, NewPlayer, IsPlayer
<1>5. TasksInv /\ Len(player_of) = 0
  BY <1>1 DEF TasksInv, IsSeq
<1>6. DataInv
  <2>1. \A u \in DOMAIN sg_data : IsRow(sg_data[u])
    BY DEF Init, DataInit, IsRow
  <2> QED
    BY <1>1, <2>1, EmptyQueue, FS_EmptySet, DataServiceAssumption DEF DataInv
<1>7. ApartInv
  BY <1>1, <1>5, EmptyQueue DEF ApartInv, Apart, JobSeqs
<1> QED
  BY <1>2, <1>3, <1>4, <1>5, <1>6, <1>7 DEF LuaInv

LEMMA LuaAlways == Spec => [](LuaInv /\ ApartInv)
  BY LuaStart, LuaInvStep, PTL DEF Spec

-----------------------------------------------------------------------------
(* AnswerOnce *)

\* A request is in one place at a time: on its way to gamesvr, with a task, or
\* answered.
Pending(f) == {<<id, f[id].seq>> : id \in {x \in DOMAIN f : f[x] # NoTask}}
OnceInv == Once(c2g, Pending(co_map), answered)

LEMMA PendingFewer == TasksFewer => Pending(co_map') \subseteq Pending(co_map)
  BY DEF TasksFewer, Pending, Live

LEMMA OnceLuaStep ==
    ASSUME LuaInv, OnceInv, Effect PROVE OnceInv'
<1> DEFINE W == Pending(co_map)
           V == Pending(co_map')
<1>1. Queue(c2g) /\ answered \in Seq(Nat)
  BY DEF LuaInv, SessionInv
<1>2. Once(c2g, W, answered) /\ (OnceInv' <=> Once(c2g', V, answered'))
  BY DEF OnceInv
<1>3. CASE Quiet
  <2>1. V \subseteq W
    BY <1>3, PendingFewer DEF Quiet
  <2>2. SeqsOf(c2g') \subseteq SeqsOf(c2g) /\ Distinct(c2g', {0}) /\ answered' = answered
    BY <1>1, <1>2, <1>3, ShrinksMsgs DEF Quiet, Once
  <2> HIDE DEF V, W
  <2> QED
    BY <1>2, <2>1, <2>2, OnceFewer
<1>4. CASE AnswersNow
  <2>1. V \subseteq W
    BY <1>4, PendingFewer DEF AnswersNow
  <2>2. c2g # <<>> /\ c2g' = Tail(c2g) /\ Counted(answered, Head(c2g).seq, answered')
    BY <1>4 DEF AnswersNow, Sends
  <2> HIDE DEF V, W
  <2>3. Once(c2g', W, answered')
    BY <1>1, <1>2, <2>2, OnceNow
  <2>4. SeqsOf(c2g') \subseteq SeqsOf(c2g') /\ Distinct(c2g', {0})
    BY <2>3 DEF Once
  <2> QED
    BY <1>2, <2>1, <2>3, <2>4, OnceFewer
<1>5. CASE Saves
  <2>1. c2g # <<>> /\ c2g' = Tail(c2g) /\ answered' = answered /\ V = W
    BY <1>5 DEF Saves
  <2>2. SeqsOf(c2g') \subseteq SeqsOf(c2g) /\ Distinct(c2g', {0})
    BY <1>1, <1>2, <2>1, TailMsgs DEF Once
  <2> HIDE DEF V, W
  <2> QED
    BY <1>2, <2>1, <2>2, OnceFewer
<1>6. CASE Begins
  <2>1. PICK t : t.seq = Head(c2g).seq /\ co_map' = With(co_map, NewTask, t)
    BY <1>6 DEF Begins
  <2>2. /\ DOMAIN co_map' = DOMAIN co_map \cup {NewTask}
        /\ co_map'[NewTask] = t
        /\ \A k \in DOMAIN co_map' \ {NewTask} : co_map'[k] = co_map[k]
    BY <2>1 DEF With
  <2>3. V \subseteq W \cup {<<NewTask, Head(c2g).seq>>, <<NewTask, 0>>}
    BY <2>1, <2>2 DEF Pending
  <2>4. c2g # <<>> /\ c2g' = Tail(c2g) /\ answered' = answered
    BY <1>6 DEF Begins
  <2> HIDE DEF V, W
  <2> QED
    BY <1>1, <1>2, <2>3, <2>4, OnceAccept
<1>7. CASE Ends
  <2> DEFINE w == <<Resumed, Task.seq>>
  <2>1. /\ Live(Resumed) /\ co_map' = Without(co_map, {Resumed})
        /\ c2g' = c2g /\ Counted(answered, Task.seq, answered')
    BY <1>7 DEF Ends, Sends
  <2>2. w \in W /\ w[2] = Task.seq
    BY <2>1 DEF Pending, Live, Task
  <2>3. V \subseteq W \ {w}
    BY <2>1 DEF Pending, Without
  <2> HIDE DEF V, W, w
  <2> QED
    BY <1>1, <1>2, <2>1, <2>2, <2>3, OnceLater
<1>8. CASE GoesOn
  <2>1. PICK t : /\ t # NoTask /\ t.seq = Task.seq
                 /\ DOMAIN co_map' = DOMAIN co_map /\ co_map'[Resumed] = t
                 /\ \A id \in DOMAIN co_map \ {Resumed} : co_map'[id] = co_map[id]
    BY <1>8 DEF GoesOn
  <2>2. Live(Resumed) /\ c2g' = c2g /\ answered' = answered
    BY <1>8 DEF GoesOn
  <2>3. \A id \in DOMAIN co_map :
            /\ co_map'[id] # NoTask <=> co_map[id] # NoTask
            /\ co_map[id] # NoTask => co_map'[id].seq = co_map[id].seq
    BY <2>1, <2>2 DEF Live, Task
  <2>4. V \subseteq W
    BY <2>1, <2>3 DEF Pending
  <2>5. SeqsOf(c2g) \subseteq SeqsOf(c2g) /\ Distinct(c2g, {0})
    BY <1>2 DEF Once
  <2> HIDE DEF V, W
  <2> QED
    BY <1>2, <2>2, <2>4, <2>5, OnceFewer
<1> QED
  BY <1>3, <1>4, <1>5, <1>6, <1>7, <1>8 DEF Effect

LEMMA OnceStep == LuaInv /\ OnceInv /\ [Next]_vars => OnceInv'
<1> SUFFICES ASSUME LuaInv, OnceInv, [Next]_vars PROVE OnceInv'
  OBVIOUS
<1>1. CASE ConnNext /\ UNCHANGED lua
  <2> DEFINE W == Pending(co_map)
  <2>1. Once(c2g, W, answered) /\ (OnceInv' <=> Once(c2g', W, answered'))
    BY <1>1 DEF OnceInv, lua
  <2> HIDE DEF W
  <2> QED
    BY <1>1, <2>1, ConnStep, OnceConn DEF LuaInv
<1>2. CASE LuaNext
  BY <1>2, LuaStep, OnceLuaStep
<1>3. CASE DataNext /\ UNCHANGED lua
  BY <1>3, DataStep DEF LuaInv, OnceInv, lua
<1>4. CASE UNCHANGED vars
  BY <1>4 DEF vars, links, lua, OnceInv
<1> QED
  BY <1>1, <1>2, <1>3, <1>4 DEF Next

\* No request is answered twice by the Lua tasks, whatever is lost or late,
\* however often a registration is tried, and however their timers end them.
THEOREM TasksAnswerOnce == Spec => []AnswerOnce
<1>1. Init => OnceInv
  <2> SUFFICES ASSUME Init PROVE OnceInv
    OBVIOUS
  <2>1. c2g = <<>> /\ answered = <<>> /\ DOMAIN co_map = {}
    BY DEF Init, LinksInit, LuaInit
  <2>2. Pending(co_map) = {} /\ 1..Len(answered) = {}
    BY <2>1 DEF Pending
  <2> QED
    BY <2>1, <2>2, EmptyQueue DEF OnceInv, Once
<1>2. LuaInv /\ OnceInv => AnswerOnce
  BY DEF LuaInv, SessionInv, OnceInv, Once, AnswerOnce, Seqs
<1> QED
  BY <1>1, <1>2, OnceStep, LuaAlways, PTL DEF Spec

-----------------------------------------------------------------------------
(* CityOwnership *)

LEMMA OwnedStep == LuaInv /\ CityOwnership /\ [Next]_vars => CityOwnership'
<1> SUFFICES ASSUME LuaInv, CityOwnership, [Next]_vars PROVE CityOwnership'
  OBVIOUS
<1>1. ASSUME NEW new, new \subseteq CityUnits \ cities, cities' = cities \cup new,
             new = {} \/ ItsUnit \in DOMAIN players,
             DOMAIN players' = DOMAIN players,
             \A i \in DOMAIN players :
                players'[i].city_list
                  = players[i].city_list \cup (IF i = ItsUnit THEN new ELSE {})
      PROVE  CityOwnership'
  <2>1. CASE ItsUnit \in DOMAIN players
    <3>1. ASSUME NEW k, k = ItsUnit PROVE CityOwnership'
      <4>1. /\ k \in DOMAIN players /\ new \cap cities = {}
            /\ players'[k].city_list = players[k].city_list \cup new
            /\ \A i \in DOMAIN players \ {k} : players'[i].city_list = players[i].city_list
        BY <1>1, <2>1, <3>1
      <4> QED
        BY <1>1, <4>1, CityAdd
    <3> QED
      BY <3>1
  <2>2. CASE ItsUnit \notin DOMAIN players
    <3>1. cities' = cities /\ \A i \in DOMAIN players :
                                  players'[i].city_list = players[i].city_list
      BY <1>1, <2>2
    <3> QED
      BY <1>1, <3>1 DEF CityOwnership
  <2> QED
    BY <2>1, <2>2
<1>2. CASE ResumeNoTask \/ ResumeCollected
  BY <1>1, <1>2, NoTaskStep
<1>3. CASE ResumeLoggedIn
  BY <1>1, <1>3, LoggedInStep
<1>4. CASE ConnStart
  BY <1>4, StartStep, CityNewPlayer
<1>5. CASE ConnStop \/ ResumeSaved
  <2>1. CASE UNCHANGED <<players, cities>>
    BY <2>1, CityUnchanged
  <2>2. CASE \E idx : DelPlayerIn(idx)
    <3>1. PICK idx : DelPlayerIn(idx)
      BY <2>2
    <3>2. CASE idx \in DOMAIN players
      BY <3>1, <3>2, CityDelPlayer DEF DelPlayerIn
    <3>3. CASE idx \notin DOMAIN players
      BY <3>1, <3>3, CityUnchanged DEF DelPlayerIn, objects
    <3> QED
      BY <3>2, <3>3
  <2> QED
    BY <1>5, <2>1, <2>2, DelSteps
<1>6. CASE LuaNext
  BY <1>2, <1>3, <1>4, <1>5, <1>6, OtherSteps, CityUnchanged DEF Others
<1>7. CASE UNCHANGED lua
  BY <1>7, CityUnchanged DEF lua, objects
<1> QED
  BY <1>6, <1>7 DEF Next, vars

\* Every city in use is on the list of exactly one player, although answers bring
\* cities to units whose players have changed, and scripts go on with them.
THEOREM TasksKeepCities == Spec => []CityOwnership
<1>1. Init => CityOwnership
  BY DEF Init, LuaInit, ObjectsInit, CityOwnership
<1> QED
  BY <1>1, OwnedStep, LuaAlways, PTL DEF Spec

-----------------------------------------------------------------------------
(* TimersHaveTasks *)

\* What is done to tasks and timers together.
LEMMA TimerCloses ==
    ASSUME TimersHaveTasks, NEW id, CloseTask(id) PROVE TimersHaveTasks'
  BY DEF TimersHaveTasks, CloseTask, Without, Live

LEMMA TimerBegins ==
    ASSUME TimersHaveTasks, NEW id, NEW t, t # NoTask,
           co_map' = With(co_map, id, t), timers' = timers \cup {id}
    PROVE  TimersHaveTasks'
<1>1. /\ DOMAIN co_map' = DOMAIN co_map \cup {id} /\ co_map'[id] = t
      /\ \A k \in DOMAIN co_map \ {id} : co_map'[k] = co_map[k]
  BY DEF With
<1> QED
  BY <1>1 DEF TimersHaveTasks, Live, NoTask

LEMMA TimerYields ==
    ASSUME TimersHaveTasks, NEW id, NEW type, NEW cmd, NEW s, NEW idx, NEW body,
           NEW old, NEW tries, Yield(id, type, cmd, s, idx, body, old, tries)
    PROVE  TimersHaveTasks'
<1> DEFINE t == [type |-> type, waits |-> cmd, seq |-> s, player_idx |-> idx,
                 uid |-> body.uid, password_hash |-> body.pw,
                 old_player_idx |-> old, tries |-> tries]
<1>1. t # NoTask
  BY DEF NoTask
<1>2. co_map' = With(co_map, id, t) /\ timers' = timers \cup {id}
  BY DEF Yield
<1> HIDE DEF t
<1> QED
  BY <1>1, <1>2, TimerBegins

LEMMA TimerGoesOn ==
    ASSUME TimersHaveTasks, GoesOn, UNCHANGED timers PROVE TimersHaveTasks'
<1>1. PICK t : /\ t # NoTask /\ DOMAIN co_map' = DOMAIN co_map /\ co_map'[Resumed] = t
               /\ \A id \in DOMAIN co_map \ {Resumed} : co_map'[id] = co_map[id]
  BY DEF GoesOn
<1> QED
  BY <1>1 DEF TimersHaveTasks, Live, NoTask

LEMMA TimerRequests ==
    ASSUME TimersHaveTasks, NEW idx, NEW ps, HandleRequest(Head(c2g), idx, ps)
    PROVE  TimersHaveTasks'
<1> DEFINE m == Head(c2g)
           body == asked[m.seq].body
<1>1. CASE Unregistered(body)
  BY <1>1 DEF Unregistered, TimersHaveTasks, Live
<1>2. CASE ScriptFails(body, idx, ps) \/ ScriptRejects(m, body, idx, ps[idx])
  BY <1>2, TimerCloses DEF ScriptFails, ScriptRejects
<1>3. CASE ScriptRegisters(m, body, idx)
  BY <1>3, TimerYields DEF ScriptRegisters
<1>4. CASE ScriptLogsIn(m, body, idx)
  BY <1>4, TimerYields DEF ScriptLogsIn
<1>5. CASE ScriptKicks(m, body, idx, ps)
  BY <1>5, TimerYields DEF ScriptKicks
<1> QED
  BY <1>1, <1>2, <1>3, <1>4, <1>5 DEF HandleRequest

LEMMA TimersStep == LuaInv /\ TimersHaveTasks /\ [Next]_vars => TimersHaveTasks'
<1> SUFFICES ASSUME LuaInv, TimersHaveTasks, [Next]_vars PROVE TimersHaveTasks'
  OBVIOUS
<1>1. UNCHANGED <<co_map, timers>> => TimersHaveTasks'
  BY DEF TimersHaveTasks, Live
<1>2. CASE ConnStart \/ ConnProc
  BY <1>2, TimerRequests DEF ConnStart, ConnProc
<1>3. ASSUME NEW why, Die(why) PROVE TimersHaveTasks'
  BY <1>3 DEF Die, TimersHaveTasks
<1>4. CASE \/ ConnStartFull \/ AnswerNoPlayer \/ AnswerNoCity \/ OnTimerAborts
           \/ ResumeReleased \/ ResumeCollectedAborts
  BY <1>3, <1>4 DEF ConnStartFull, AnswerNoPlayer, AnswerNoCity, OnTimerAborts, ResumeReleased,
         ResumeCollectedAborts
<1>5. CASE ConnStop \/ AnswerLost \/ Stop \/ Exit
  BY <1>1, <1>5 DEF ConnStop, AnswerLost, Stop, Exit, lua
<1>6. CASE ResumeNoTask
  <2>1. /\ timers' = timers /\ ~Live(Resumed)
        /\ \A id \in DOMAIN co_map \ {Resumed} :
              id \in DOMAIN co_map' /\ co_map'[id] = co_map[id]
    BY <1>6 DEF ResumeNoTask, With
  <2> QED
    BY <2>1 DEF TimersHaveTasks, Live, NoTask
<1>7. CASE ResumeCollected \/ ResumeAnswer \/ ResumeLoggedIn
  BY <1>7, TimerCloses DEF ResumeCollected, ResumeAnswer, ResumeLoggedIn, LastWords
<1>8. CASE ResumeTryAgain
  BY <1>8, TryAgainStep, TimerGoesOn DEF ResumeTryAgain
<1>9. CASE ResumeSaved
  BY <1>9, SavedStep, TimerGoesOn DEF ResumeSaved
<1>10. CASE OnTimer
  <2>1. PICK id : /\ co_map' = Without(co_map, {id})
                  /\ timers' \subseteq timers \ {id}
    BY <1>10 DEF OnTimer
  <2> QED
    BY <2>1 DEF Without, TimersHaveTasks, Live, NoTask
<1>11. CASE UNCHANGED lua
  BY <1>1, <1>11 DEF lua
<1> QED
  BY <1>2, <1>4, <1>5, <1>6, <1>7, <1>8, <1>9, <1>10, <1>11
    DEF Next, LuaNext, LuaHandles, vars

\* However a task ends, no timer of a task that is gone is left on the heap, even
\* when one expired timer takes another one with it.
THEOREM NoTimerLeft == Spec => []TimersHaveTasks
<1>1. Init => TimersHaveTasks
  BY DEF Init, LuaInit, TimersHaveTasks
<1> QED
  BY <1>1, TimersStep, LuaAlways, PTL DEF Spec

-----------------------------------------------------------------------------
(* TaskGetsItsAnswer *)

\* What is on its way for a task that is alone is what it waits for.
TaskMeant(id) == \A w : w = Want(co_map[id]) => Meant(id, w)
MeantInv == \A id \in DOMAIN co_map : Alone(id) => TaskMeant(id)

\* A task that does not take part in a step.
LEMMA TaskKept ==
    ASSUME DataInv, UNCHANGED datasvr, Msgs(d2g') \subseteq Msgs(d2g),
           NEW id, TaskMeant(id), co_map'[id] = co_map[id],
           \/ UNCHANGED g2d
           \/ \E k, t, msgs : k # id /\ SentFor(msgs, k, t) /\ g2d' = Push(g2d, msgs)
    PROVE  TaskMeant(id)'
<1> SUFFICES ASSUME NEW w, w = Want(co_map'[id]) PROVE Meant(id, w)'
  BY DEF TaskMeant, Want
<1>1. Meant(id, w)
  BY DEF TaskMeant
<1>2. CASE UNCHANGED g2d
  BY <1>1, <1>2, MeantKept
<1>3. CASE ~UNCHANGED g2d
  <2>1. PICK k, t, msgs : k # id /\ SentFor(msgs, k, t) /\ g2d' = Push(g2d, msgs)
    BY <1>3
  <2>2. IsSeq(msgs) /\ \A m \in Msgs(msgs) : m.seq = id => Wanted(m, w)
    BY <2>1 DEF SentFor
  <2> QED
    BY <1>1, <2>1, <2>2, MeantKept
<1> QED
  BY <1>2, <1>3

\* A task that sends its first request, or its next one.
LEMMA TaskAsks ==
    ASSUME DataInv, UNCHANGED datasvr,
           NEW id, id \notin SeqsOf(g2d) \cup JobSeqs(jobs) \cup SeqsOf(d2g'),
           NEW t, t.old_player_idx = 0, NEW msgs, SentFor(msgs, id, t),
           co_map'[id] = t, g2d' = Push(g2d, msgs)
    PROVE  TaskMeant(id)'
<1> SUFFICES ASSUME NEW w, w = Want(t) PROVE Meant(id, w)'
  BY DEF TaskMeant, Want
<1>1. PICK r : msgs = <<r>> /\ Wanted(r, w)
  BY DEF SentFor
<1> QED
  BY <1>1, MeantNew

LEMMA MeantLuaStep ==
    ASSUME LuaInv, ApartInv, MeantInv, LuaNext, Effect, UNCHANGED datasvr
    PROVE  MeantInv'
<1>1. /\ DataInv /\ Msgs(d2g') \subseteq Msgs(d2g) /\ Len(player_of) \in Nat
      /\ DOMAIN co_map \subseteq 1..Len(player_of)
  BY QueuesStep DEF LuaInv, TasksInv, IsSeq
<1>2. ASSUME NEW id \in DOMAIN co_map', Alone(id)', Alone(id), co_map'[id] = co_map[id],
             \/ UNCHANGED g2d
             \/ \E k, t, msgs : k # id /\ SentFor(msgs, k, t) /\ g2d' = Push(g2d, msgs)
      PROVE  TaskMeant(id)'
  <2>1. TaskMeant(id)
    BY <1>2 DEF MeantInv, Alone, Live
  <2> QED
    BY <1>1, <1>2, <2>1, TaskKept
<1>3. CASE Quiet \/ AnswersNow
  <2>1. TasksFewer /\ UNCHANGED g2d
    BY <1>3 DEF Quiet, AnswersNow
  <2>2. \A id \in DOMAIN co_map' : Alone(id)' => Alone(id) /\ co_map'[id] = co_map[id]
    BY <2>1 DEF TasksFewer, Alone, Live, NoTask
  <2> QED
    BY <1>2, <2>1, <2>2 DEF MeantInv
<1>4. CASE Saves
  <2> SUFFICES ASSUME NEW id \in DOMAIN co_map', Alone(id)' PROVE TaskMeant(id)'
    BY DEF MeantInv
  <2>1. co_map' = co_map /\ Alone(id)
    BY <1>4 DEF Saves, Alone, Live
  <2>2. PICK m : m.seq = 0 /\ m.cities \in Nat /\ g2d' = Push(g2d, <<m>>)
    BY <1>4 DEF Saves
  <2>3. SentFor(<<m>>, 0, [old_player_idx |-> 1])
    BY <2>2, OneMsg DEF SentFor
  <2>4. id # 0
    BY <1>1, <2>1
  <2> QED
    BY <1>2, <2>1, <2>2, <2>3, <2>4
<1>5. CASE Begins
  <2>1. PICK t, msgs : /\ t # NoTask /\ SentFor(msgs, NewTask, t)
                       /\ co_map' = With(co_map, NewTask, t) /\ g2d' = Push(g2d, msgs)
                       /\ player_of' = Append(player_of, t.player_idx)
    BY <1>5 DEF Begins
  <2>2. NewTask \notin 0..Len(player_of)
    BY <2>1, NewTaskNumber
  <2>3. /\ DOMAIN co_map' = DOMAIN co_map \cup {NewTask} /\ co_map'[NewTask] = t
        /\ \A id \in DOMAIN co_map \ {NewTask} : co_map'[id] = co_map[id]
    BY <2>1 DEF With
  <2>4. NewTask \notin SeqsOf(g2d) \cup JobSeqs(jobs) \cup SeqsOf(d2g)
    BY <2>2 DEF ApartInv, Apart
  <2>5. d2g' = d2g
    BY <1>5 DEF Begins
  <2> SUFFICES ASSUME NEW id \in DOMAIN co_map', Alone(id)' PROVE TaskMeant(id)'
    BY DEF MeantInv
  <2>6. CASE id = NewTask
    <3>1. t.old_player_idx = 0 /\ co_map'[id] = t
      BY <2>3, <2>6 DEF Alone
    <3> QED
      BY <1>1, <2>1, <2>4, <2>5, <2>6, <3>1, TaskAsks
  <2>7. CASE id # NewTask
    <3>1. co_map'[id] = co_map[id] /\ Alone(id)
      BY <2>3, <2>7 DEF Alone, Live, NoTask
    <3> QED
      BY <1>2, <2>1, <2>7, <3>1
  <2> QED
    BY <2>6, <2>7
<1>6. CASE Ends
  <2>1. g2d' = g2d /\ co_map' = Without(co_map, {Resumed})
    BY <1>6 DEF Ends
  <2>2. \A id \in DOMAIN co_map' : Alone(id)' => Alone(id) /\ co_map'[id] = co_map[id]
    BY <2>1 DEF Without, Alone, Live, NoTask
  <2> QED
    BY <1>2, <2>1, <2>2 DEF MeantInv
<1>7. CASE GoesOn
  <2>1. PICK t, msgs : /\ t # NoTask /\ t.old_player_idx = Task.old_player_idx
                       /\ SentFor(msgs, Resumed, t) /\ g2d' = Push(g2d, msgs)
                       /\ DOMAIN co_map' = DOMAIN co_map /\ co_map'[Resumed] = t
                       /\ \A id \in DOMAIN co_map \ {Resumed} : co_map'[id] = co_map[id]
    BY <1>7 DEF GoesOn
  <2>2. d2g # <<>> /\ d2g' = Tail(d2g) /\ Live(Resumed)
    BY <1>7 DEF GoesOn
  <2>3. \/ Resumed \in Spare
        \/ Resumed \notin SeqsOf(g2d) \cup JobSeqs(jobs) \cup SeqsOf(d2g')
    BY <2>2, AnswerTaken
  <2> SUFFICES ASSUME NEW id \in DOMAIN co_map', Alone(id)' PROVE TaskMeant(id)'
    BY DEF MeantInv
  <2>4. CASE id = Resumed
    <3>1. t.old_player_idx = 0 /\ co_map'[id] = t
      BY <2>1, <2>4 DEF Alone
    <3>2. Alone(Resumed)
      BY <2>1, <2>2, <3>1 DEF Alone, Task
    <3>3. Resumed \notin Spare
      BY <1>1, <2>1, <2>4, <3>2 DEF Spare
    <3> QED
      BY <1>1, <2>1, <2>3, <2>4, <3>1, <3>3, TaskAsks
  <2>5. CASE id # Resumed
    <3>1. co_map'[id] = co_map[id] /\ Alone(id)
      BY <2>1, <2>5 DEF Alone, Live, NoTask
    <3> QED
      BY <1>2, <2>1, <2>5, <3>1
  <2> QED
    BY <2>4, <2>5
<1> QED
  BY <1>3, <1>4, <1>5, <1>6, <1>7 DEF Effect

LEMMA MeantStep == LuaInv /\ ApartInv /\ MeantInv /\ [Next]_vars => MeantInv'
<1> SUFFICES ASSUME LuaInv, ApartInv, MeantInv, [Next]_vars PROVE MeantInv'
  OBVIOUS
<1>1. UNCHANGED <<lua, datasvr, g2d, d2g>> => MeantInv'
  BY DEF lua, datasvr, MeantInv, TaskMeant, Alone, Live, Meant, TrueTo, Verified
<1>2. CASE ConnNext /\ UNCHANGED <<lua, datasvr>>
  BY <1>1, <1>2, ConnStep DEF LuaInv
<1>3. CASE LuaNext /\ UNCHANGED datasvr
  BY <1>3, LuaStep, MeantLuaStep
<1>4. CASE DataNext /\ UNCHANGED lua
  <2>1. DataInv /\ RowsStay /\ (Takes \/ Executes \/ Loses \/ Replies)
    BY <1>4, DataStep DEF LuaInv
  <2> SUFFICES ASSUME NEW id \in DOMAIN co_map, Alone(id),
                      NEW w, w = Want(co_map[id])
               PROVE  Meant(id, w)'
    BY <1>4 DEF MeantInv, TaskMeant, Alone, Live, lua
  <2>2. Meant(id, w)
    BY DEF MeantInv, TaskMeant
  <2> QED
    BY <2>1, <2>2, DataMeant
<1>5. CASE UNCHANGED vars
  BY <1>1, <1>5 DEF vars, links
<1> QED
  BY <1>2, <1>3, <1>4, <1>5 DEF Next

\* The answer that ends the wait of a task is the one to its own request, through
\* retries, late answers and tasks that are over: nothing else with its number is
\* on its way, unless the task has kicked a player off.
THEOREM TasksGetTheirAnswers == Spec => []TaskGetsItsAnswer
<1>1. Init => MeantInv
  BY DEF Init, LuaInit, MeantInv
<1>2. LuaInv /\ ApartInv /\ MeantInv => TaskGetsItsAnswer
  <2> SUFFICES ASSUME LuaInv, ApartInv, MeantInv, NEW id \in DOMAIN co_map, Alone(id)
               PROVE  OnTheWay(id) <= 1 /\ CmdsOnTheWay(id) \subseteq {co_map[id].waits}
    BY DEF TaskGetsItsAnswer, Alone
  <2>1. id \notin Spare
    BY DEF Spare, LuaInv, TasksInv, IsSeq
  <2> DEFINE A == {i \in DOMAIN g2d : g2d[i].seq = id}
             B == Jobs(jobs, id)
             C == {i \in DOMAIN d2g : d2g[i].seq = id}
  <2>2. Requests(id) = A /\ Working(id) = B /\ Answers(id) = C
    BY DEF Requests, Working, Answers, Jobs
  <2>3. /\ Count(g2d, id) \in Nat /\ Cardinality(B) \in Nat /\ Count(d2g, id) \in Nat
        /\ Count(g2d, id) + Cardinality(B) + Count(d2g, id) <= 1
    BY <2>1, OneOnTheWay DEF ApartInv
  <2>4. Cardinality(A) = Count(g2d, id) /\ Cardinality(C) = Count(d2g, id)
    BY DEF Count
  <2>5. Meant(id, Want(co_map[id])) /\ Want(co_map[id]).cmd = co_map[id].waits
    BY DEF MeantInv, TaskMeant, Want
  <2>6. CmdsOnTheWay(id) \subseteq {co_map[id].waits}
    BY <2>2, <2>5 DEF CmdsOnTheWay, Meant, Wanted, Msgs, Jobs
  <2> HIDE DEF A, B, C
  <2> QED
    BY <2>2, <2>3, <2>4, <2>6 DEF OnTheWay
<1> QED
  BY <1>1, <1>2, MeantStep, LuaAlways, PTL DEF Spec

=============================================================================
