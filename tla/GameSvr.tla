------------------------------- MODULE GameSvr -------------------------------
(***************************************************************************)
(* gamesvr: MsgModule and LogicModule with its logics.  Each                *)
(* message from connsvr or datasvr is handled to its end by one action; a    *)
(* logic that waits for datasvr keeps its state in logic_data_map_, under    *)
(* the id of its timer, and the answer carries that id back as head.seq.     *)
(*                                                                         *)
(* Timer ids are counted (HeapTimer's promise), and a timer may expire       *)
(* whenever its logic waits.                                               *)
(***************************************************************************)
EXTENDS GameObjects

VARIABLES logics,      \* logic_data_map_
          logic_count  \* logic ids handed out so far

gamesvr == <<status, players, cities, uid_to_player_idx_map, logics, logic_count>>

GameInit == ObjectsInit /\ logics = [l \in {} |-> 0] /\ logic_count = 0

\* The process ends; only the pools are left, in shared memory.
Die(why) == /\ status' = why
            /\ uid_to_player_idx_map' = [u \in {} |-> 0]
            /\ logics' = [l \in {} |-> 0]
            /\ UNCHANGED <<players, cities, logic_count>>

-----------------------------------------------------------------------------
(* MsgModule::Run with a message from connsvr. *)

\* Mutant: an id is the lowest index that is free, without a random part.
MutNextLogic == CHOOSE l \in 1..logic_count + 1 :
                    /\ l \notin DOMAIN logics
                    /\ \A k \in 1..l - 1 : k \in DOMAIN logics

\* Mutant: no timer is registered, and the id stays 0.
MutNextLogicZero == 0

\* CreateLogic: the logic that is about to take its first step.
NextLogic == logic_count + 1
Yield(type, step, s, idx, body) ==
    logics' = With(logics, NextLogic,
                   [type |-> type, step |-> step, seq |-> s, player_idx |-> idx,
                    uid |-> body.uid, password_hash |-> body.pw])

\* The request of m is not known (or cannot be parsed): nothing happens.
Unregistered(body) == /\ body.cmd = "OTHER"
                      /\ UNCHANGED <<logics, logic_count, g2c, g2d, answered>>

\* OnStep0 gives up without a word: there is no such player, a field is too
\* long for its buffer, or the player to be kicked off is not found, which is
\* looked up by its uid.
OnStep0Failed(body, idx, ps) ==
    /\ body.cmd # "OTHER"
    /\ \/ idx \notin DOMAIN ps
       \/ body.cmd = "NORMAL_REG" /\ body.check = "long"
       \/ /\ body.cmd = "LOGIN" /\ body.check = "ok"
          /\ FindPlayerIdxByUid(body.uid) > 0
          /\ Trunc[body.uid] \notin DOMAIN ps
    /\ logic_count' = NextLogic
    /\ UNCHANGED <<logics, g2c, g2d, answered>>

\* Mutant: the rejection is sent, and the login goes on.
MutOnStep0Rejected(m, body, player, idx) ==
    /\ body.check # "ok"
    /\ SendAnswers(<<Answer(player, idx, m.seq, body.cmd, -1)>>)
    /\ SendToDatasvr(ToData("GET", NextLogic, body.uid, body.pw, 0))
    /\ Yield("LOGIN", 2, m.seq, idx, body)
    /\ logic_count' = NextLogic

\* OnStep0 finds the account or the password malformed.
OnStep0Rejected(m, body, player, idx) ==
    /\ \/ body.cmd = "LOGIN" /\ body.check # "ok"
       \/ body.cmd = "NORMAL_REG" /\ body.check = "bad"
    /\ SendAnswers(<<Answer(player, idx, m.seq, body.cmd, -1)>>)
    /\ logic_count' = NextLogic
    /\ UNCHANGED <<logics, g2d>>

\* OnStep0 of LogicNormalReg and LogicQuickReg: DoAccountReg.
OnStep0Reg(m, body, idx) ==
    /\ \/ body.cmd = "QUICK_REG"
       \/ body.cmd = "NORMAL_REG" /\ body.check = "ok"
    /\ SendToDatasvr(ToData("REG", NextLogic, body.uid, body.pw, 1))
    /\ Yield("REG", 1, m.seq, idx, body)
    /\ logic_count' = NextLogic
    /\ UNCHANGED <<g2c, answered>>

\* OnStep0 of LogicLogin: DoGetPlayerData, unless the uid has a player.
OnStep0Login(m, body, idx) ==
    /\ body.cmd = "LOGIN" /\ body.check = "ok"
    /\ FindPlayerIdxByUid(body.uid) = 0
    /\ SendToDatasvr(ToData("GET", NextLogic, body.uid, body.pw, 0))
    /\ Yield("LOGIN", 2, m.seq, idx, body)
    /\ logic_count' = NextLogic
    /\ UNCHANGED <<g2c, answered>>

\* ... otherwise that one is told to go, and its data saved first.
OnStep0Kick(m, body, idx, ps) ==
    /\ body.cmd = "LOGIN" /\ body.check = "ok"
    /\ FindPlayerIdxByUid(body.uid) > 0
    /\ Trunc[body.uid] \in DOMAIN ps
    /\ LET old == ps[Trunc[body.uid]]
       IN  /\ g2c' = Push(g2c, <<ToConn("STOP", old.conn_fd, Trunc[body.uid], 0, 0)>>)
           /\ SendToDatasvr(SetPlayerData(old, NextLogic))
    /\ Yield("LOGIN", 1, m.seq, idx, body)
    /\ logic_count' = NextLogic
    /\ UNCHANGED answered

\* HandleRequest, OnLogicMultiStepStart and the OnStep0 it leads to, for the
\* player at idx (GetPlayer finds it when idx is used), when ps are in use.
HandleRequest(m, idx, ps) ==
    LET body == asked[m.seq].body
    IN  \/ Unregistered(body)
        \/ OnStep0Failed(body, idx, ps)
        \/ /\ idx \in DOMAIN ps
           /\ \/ OnStep0Rejected(m, body, ps[idx], idx)
              \/ OnStep0Reg(m, body, idx)
              \/ OnStep0Login(m, body, idx)
              \/ OnStep0Kick(m, body, idx, ps)

\* CONN_START: a new player for the connection.
ConnStart ==
    /\ FromConnsvr("START")
    /\ \E idx \in PlayerUnits \ DOMAIN players :
         LET m == Head(c2g)
             ps == With(players, idx, NewPlayer(m.conn_fd))
         IN  players' = ps /\ HandleRequest(m, idx, ps)
    /\ UNCHANGED <<d2g, asked, status, cities, uid_to_player_idx_map>>

\* ... without a free unit, AddPlayer calls init() of a NULL Player.
ConnStartFull ==
    /\ FromConnsvr("START")
    /\ PlayerUnits \subseteq DOMAIN players
    /\ Die("no player memory")
    /\ UNCHANGED <<g2c, g2d, d2g, asked, answered>>

ConnProc ==
    /\ FromConnsvr("PROC")
    /\ HandleRequest(Head(c2g), Head(c2g).player_idx, players)
    /\ UNCHANGED <<d2g, asked, status, players, cities, uid_to_player_idx_map>>

\* CONN_STOP: the player's data are saved by a logic of its own, the player
\* is gone at once.
ConnStop ==
    /\ FromConnsvr("STOP")
    /\ LET idx == Head(c2g).player_idx
       IN  IF idx \in DOMAIN players
           THEN /\ SendToDatasvr(SetPlayerData(players[idx], NextLogic))
                /\ Yield("UPDATE_PLAYER", 1, 0, idx, [uid |-> 0, pw |-> 0])
                /\ logic_count' = NextLogic
                /\ DelPlayer(idx)
           ELSE UNCHANGED <<g2d, logics, logic_count, players, cities,
                            uid_to_player_idx_map>>
    /\ UNCHANGED <<g2c, d2g, asked, answered, status>>

-----------------------------------------------------------------------------
(* MsgModule::Run with an answer from datasvr: LogicModule::Proc. *)

Waits(type, step) == /\ Resumed \in DOMAIN logics
                     /\ logics[Resumed].type = type /\ logics[Resumed].step = step
ItsPlayer == logics[Resumed].player_idx
Finish == logics' = Without(logics, {Resumed})

\* It is not (it has timed out); or the answer was cut off at 1024 bytes.
ResumeNoLogic == /\ FromDatasvr
                 /\ Resumed \notin DOMAIN logics \/ "lost" \in Faults
                 /\ UNCHANGED <<c2g, g2c, g2d, asked, answered, gamesvr>>

\* OnStep1 of LogicUpdatePlayer; OnStep1 of the others when the player is gone.
ResumeFinish == /\ FromDatasvr
                /\ \/ Waits("UPDATE_PLAYER", 1)
                   \/ Waits("REG", 1) /\ ItsPlayer \notin DOMAIN players
                   \/ Waits("LOGIN", 1) /\ ItsPlayer \notin DOMAIN players
                /\ Finish
                /\ UNCHANGED <<c2g, g2c, g2d, asked, answered, status, players,
                               cities, uid_to_player_idx_map, logic_count>>

\* The client gets its answer, as ret says; the step sends nothing else.
ResumeAnswer == /\ FromDatasvr
                /\ \/ Waits("REG", 1)
                   \/ Waits("LOGIN", 1) /\ Head(d2g).ret # 0
                   \/ Waits("LOGIN", 2) /\ Head(d2g).ret # 0
                /\ ItsPlayer \in DOMAIN players
                /\ LET l == logics[Resumed]
                   IN  SendAnswers(<<Answer(players[ItsPlayer], ItsPlayer, l.seq,
                                            l.type, Head(d2g).ret)>>)
                /\ Finish
                /\ UNCHANGED <<c2g, g2d, asked, status, players, cities,
                               uid_to_player_idx_map, logic_count>>

\* OnStep1 of LogicLogin: the old player's data are saved, get them.
ResumeLoginSaved ==
    /\ FromDatasvr
    /\ Waits("LOGIN", 1) /\ Head(d2g).ret = 0
    /\ ItsPlayer \in DOMAIN players
    /\ LET l == logics[Resumed]
       IN  SendToDatasvr(ToData("GET", Resumed, l.uid, l.password_hash, 0))
    /\ logics' = [logics EXCEPT ![Resumed].step = 2]
    /\ UNCHANGED <<c2g, g2c, asked, answered, status, players, cities,
                   uid_to_player_idx_map, logic_count>>

LoggedIn(player, l, new) ==
    [conn_fd |-> player.conn_fd, uid |-> l.uid, password_hash |-> l.password_hash,
     city_list |-> player.city_list \cup new]

\* OnStep2 of LogicLogin: AddCity for each city of the row, set_uid, answer.
ResumeLoginOk ==
    /\ FromDatasvr
    /\ Waits("LOGIN", 2) /\ Head(d2g).ret = 0
    /\ ItsPlayer \in DOMAIN players
    /\ LET l == logics[Resumed]
           player == players[ItsPlayer]
       IN  /\ \E new \in SUBSET (CityUnits \ cities) :
                /\ Cardinality(new) = Head(d2g).cities
                /\ Cardinality(player.city_list \cup new) <= MaxCities
                /\ cities' = cities \cup new
                /\ players' = [players EXCEPT ![ItsPlayer] = LoggedIn(player, l, new)]
           /\ BindUid(l.uid, ItsPlayer)
           /\ SendAnswers(<<Answer(player, ItsPlayer, l.seq, "LOGIN", 0),
                            ToConn("PROC", player.conn_fd, ItsPlayer, 0, 0)>>)
    /\ Finish
    /\ UNCHANGED <<c2g, g2d, asked, status, logic_count>>

\* ... with a pool or a list that is full, AddCity's result is no city, and
\* its data are set all the same.
ResumeLoginNoCity ==
    /\ FromDatasvr
    /\ Waits("LOGIN", 2) /\ Head(d2g).ret = 0
    /\ ItsPlayer \in DOMAIN players
    /\ \/ Cardinality(CityUnits \ cities) < Head(d2g).cities
       \/ Cardinality(players[ItsPlayer].city_list) + Head(d2g).cities > MaxCities
    /\ Die("no city")
    /\ UNCHANGED <<c2g, g2c, g2d, asked, answered>>

\* OnStep2 does not look whether there is a player.
ResumeLoginNoPlayer ==
    /\ FromDatasvr
    /\ Waits("LOGIN", 2)
    /\ ItsPlayer \notin DOMAIN players
    /\ Die("no player")
    /\ UNCHANGED <<c2g, g2c, g2d, asked, answered>>

-----------------------------------------------------------------------------
(* LogicModule::Update; the life of the process. *)

\* Mutant: the timer is given up with the first step.
MutOnTimer(l) == /\ Up
                 /\ "timeout" \in Faults
                 /\ l \in DOMAIN logics /\ logics[l].step = 1
                 /\ logics' = Without(logics, {l})
                 /\ UNCHANGED <<links, status, players, cities,
                                uid_to_player_idx_map, logic_count>>

\* TimerPoll calls OnTimer: the logic is deleted, nobody is told.
OnTimer(l) == /\ Up
              /\ "timeout" \in Faults
              /\ l \in DOMAIN logics
              /\ logics' = Without(logics, {l})
              /\ UNCHANGED <<links, status, players, cities,
                             uid_to_player_idx_map, logic_count>>

Kill == /\ "kill" \in Faults
        /\ Up
        /\ Die("killed")
        /\ UNCHANGED links

\* The queues towards a gamesvr that ended keep some of their messages.
Rest(q) == {SubSeq(q, i + 1, Len(q)) : i \in 0..Len(q)}
Start == /\ "kill" \in Faults
         /\ ~Up
         /\ c2g' \in Rest(c2g) /\ d2g' \in Rest(d2g)
         /\ UNCHANGED <<g2c, g2d, asked, answered, uid_to_player_idx_map, logics,
                        logic_count>>

\* AppInit after that: ObjMgrModule::ModuleInit binds the uid of each player
\* it finds, for which GetPlayerIdx looks for the ObjMgrModule that is not
\* registered yet; FindModule aborts the process.
Restart == /\ Start
           /\ status' = IF DOMAIN players = {} THEN "up" ELSE "aborted"
           /\ UNCHANGED <<players, cities>>

\* stop.sh, which removes the shared memory, and start.sh.
RestartWiped == /\ Start
                /\ status' = "up"
                /\ players' = [i \in {} |-> 0]
                /\ cities' = {}

GameNext == \/ ConnStart \/ ConnStartFull \/ ConnProc \/ ConnStop
            \/ ResumeNoLogic \/ ResumeFinish \/ ResumeAnswer
            \/ ResumeLoginSaved \/ ResumeLoginOk
            \/ ResumeLoginNoCity \/ ResumeLoginNoPlayer
            \/ \E l \in 1..logic_count : OnTimer(l)
            \/ Kill \/ Restart \/ RestartWiped

-----------------------------------------------------------------------------
(* Properties *)

GameTypeOK ==
    /\ status \in {"up", "no player memory", "no city", "no player", "killed",
                   "aborted"}
    /\ ObjectsTypeOK
    /\ DOMAIN logics \subseteq 1..logic_count
    /\ \A l \in DOMAIN logics : logics[l].player_idx \in PlayerUnits
=============================================================================
