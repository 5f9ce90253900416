------------------------------ MODULE LuaServer ------------------------------
(***************************************************************************)
(* gamesvr_lua_coroutine: a request is a task, a Lua coroutine that runs     *)
(* until it waits for datasvr.  LuaEngine keeps the tasks under the ids of   *)
(* their timers, and datasvr's answers carry the id back as head.seq.        *)
(*                                                                         *)
(* What the scripts keep over a wait is in a task's entry of co_map_; that   *)
(* includes pointers to players.  A player may be released meanwhile: then   *)
(* the next call through the pointer aborts the process, unless the unit has *)
(* become another client's, to whom the call goes.                           *)
(* Ids are counted: all timers run ten seconds, so that the lowest is the    *)
(* one on top of the heap.                                                 *)
(***************************************************************************)
EXTENDS GameObjects

VARIABLES co_map,     \* co_map_: id -> task, or NoTask where it holds NULL
          timers,     \* the ids on the heap of LuaEngine
          player_of   \* head.player_idx of what the task with an id sends

lua == <<status, objects, co_map, timers, player_of>>

NoTask == [type |-> "NULL"]
NewTask == Len(player_of) + 1

\* co_map_[id] != NULL, which makes an entry for id if there is none.
Live(id) == id \in DOMAIN co_map /\ co_map[id] # NoTask

LuaInit == /\ ObjectsInit
           /\ co_map = [id \in {} |-> NoTask] /\ timers = {} /\ player_of = <<>>

\* The process ends, and does not come back here: what the handler changed in
\* the pools before, which are in shared memory, is left out.
Die(why) == /\ status' = why
            /\ uid_to_player_idx_map' = [u \in {} |-> 0]
            /\ co_map' = [id \in {} |-> NoTask] /\ timers' = {}
            /\ UNCHANGED <<links, players, cities, player_of>>

\* DelPlayer, which looks the player up by its index.
DelPlayerIn(idx) == IF idx \in DOMAIN players THEN DelPlayer(idx) ELSE UNCHANGED objects

-----------------------------------------------------------------------------
(* LuaEngine: CreateTask and Resume up to the script's first CO_YIELD. *)

\* The coroutine yields: it waits for the answer to cmd, and keeps locals.
Yield(id, type, cmd, s, idx, body, old, tries) ==
    /\ co_map' = With(co_map, id,
          [type |-> type, waits |-> cmd, seq |-> s, player_idx |-> idx,
           uid |-> body.uid, password_hash |-> body.pw,
           old_player_idx |-> old, tries |-> tries])
    /\ timers' = timers \cup {id}

\* Mutant: only the coroutine is given up.
MutCloseTask(id) == co_map' = Without(co_map, {id}) /\ UNCHANGED timers

\* CloseTask, which ends the coroutine and its timer.
CloseTask(id) == co_map' = Without(co_map, {id}) /\ timers' = timers \ {id}

\* OnClient...Req find no handler for the request.
Unregistered(body) == /\ body.cmd = "OTHER"
                      /\ UNCHANGED <<co_map, timers, player_of, g2c, g2d, answered>>

\* The script fails, and with it ends the task, before it sends anything: it
\* indexes a player that is nil, its own or the one to be kicked off.
ScriptFails(body, idx, ps) ==
    /\ body.cmd # "OTHER"
    /\ \/ idx \notin DOMAIN ps
       \/ /\ body.cmd = "LOGIN"
          /\ FindPlayerIdxByUid(body.uid) > 0
          /\ FindPlayerIdxByUid(body.uid) \notin DOMAIN ps
    /\ CloseTask(NewTask)
    /\ UNCHANGED <<g2c, g2d, answered>>

\* normal_reg: check_account or check_password is not 0.
ScriptRejects(m, body, idx, player) ==
    /\ body.cmd = "NORMAL_REG" /\ body.check # "ok"
    /\ SendAnswers(<<Answer(player, idx, m.seq, body.cmd, -1)>>)
    /\ CloseTask(NewTask)
    /\ UNCHANGED g2d

\* normal_reg and quick_reg: DoAccountReg.
ScriptRegisters(m, body, idx) ==
    /\ \/ body.cmd = "NORMAL_REG" /\ body.check = "ok"
       \/ body.cmd = "QUICK_REG"
    /\ SendToDatasvr(ToData("REG", NewTask, body.uid, body.pw, 1))
    /\ Yield(NewTask, body.cmd, "REG", m.seq, idx, body, 0, 1)
    /\ UNCHANGED <<g2c, answered>>

\* login: DoGetPlayerData.
ScriptLogsIn(m, body, idx) ==
    /\ body.cmd = "LOGIN"
    /\ FindPlayerIdxByUid(body.uid) = 0
    /\ SendToDatasvr(ToData("GET", NewTask, body.uid, body.pw, 0))
    /\ Yield(NewTask, "LOGIN", "GET", m.seq, idx, body, 0, 0)
    /\ UNCHANGED <<g2c, answered>>

\* login: DoUpdatePlayerData, once for itself and once as CO_YIELD's argument.
SaveTwice(player, id) ==
    g2d' = Push(g2d, <<SetPlayerData(player, id), SetPlayerData(player, id)>>)

\* login: the player that has the uid is kicked off, and its data are saved.
ScriptKicks(m, body, idx, ps) ==
    LET old == FindPlayerIdxByUid(body.uid)
    IN  /\ body.cmd = "LOGIN"
        /\ old > 0 /\ old \in DOMAIN ps
        /\ g2c' = Push(g2c, <<ToConn("STOP", ps[old].conn_fd, old, 0, 0)>>)
        /\ SaveTwice(ps[old], NewTask)
        /\ Yield(NewTask, "LOGIN", "SET", m.seq, idx, body, old, 0)
        /\ UNCHANGED answered

\* HandleRequest for the player at idx, when ps are in use.
HandleRequest(m, idx, ps) ==
    LET body == asked[m.seq].body
    IN  \/ Unregistered(body)
        \/ /\ player_of' = Append(player_of, idx)
           /\ \/ ScriptFails(body, idx, ps)
              \/ /\ idx \in DOMAIN ps
                 /\ \/ ScriptRejects(m, body, idx, ps[idx])
                    \/ ScriptRegisters(m, body, idx)
                    \/ ScriptLogsIn(m, body, idx)
                    \/ ScriptKicks(m, body, idx, ps)

-----------------------------------------------------------------------------
(* MsgModule::Run with a message from connsvr. *)

\* CONN_START: a new player for the connection.
ConnStart ==
    /\ FromConnsvr("START")
    /\ \E idx \in PlayerUnits \ DOMAIN players :
         LET ps == With(players, idx, NewPlayer(Head(c2g).conn_fd))
         IN  players' = ps /\ HandleRequest(Head(c2g), idx, ps)
    /\ UNCHANGED <<d2g, asked, status, cities, uid_to_player_idx_map>>

\* ... without a free unit, AddPlayer calls init() of a NULL Player.
ConnStartFull ==
    /\ Up /\ c2g # <<>> /\ Head(c2g).cmd = "START"
    /\ PlayerUnits \subseteq DOMAIN players
    /\ Die("no player memory")

ConnProc ==
    /\ FromConnsvr("PROC")
    /\ HandleRequest(Head(c2g), Head(c2g).player_idx, players)
    /\ UNCHANGED <<d2g, asked, status, objects>>

\* CONN_STOP: the player's data are saved for no task (0), the player is gone.
ConnStop ==
    /\ FromConnsvr("STOP")
    /\ LET idx == Head(c2g).player_idx
       IN  /\ DelPlayerIn(idx)
           /\ IF idx \in DOMAIN players
              THEN SendToDatasvr(SetPlayerData(players[idx], 0))
              ELSE UNCHANGED g2d
    /\ UNCHANGED <<g2c, d2g, asked, answered, status, co_map, timers, player_of>>

-----------------------------------------------------------------------------
(* MsgModule::Run with an answer from datasvr: LuaEngine::Resume. *)

Task == co_map[Resumed]
Waits(cmd) == Live(Resumed) /\ Task.waits = cmd
\* What the handler pushes as the result of CO_YIELD.
Flag == IF Head(d2g).cmd = "GET" /\ Head(d2g).ret # 0 THEN 1 ELSE Head(d2g).ret

\* OnDatasvrGetPlayerDataRes makes the row's cities before it resumes; the
\* other answers change no object.
BringsCities == Head(d2g).cmd = "GET" /\ Head(d2g).ret = 0
ItsUnit == player_of[Resumed]
HasPlayer == BringsCities => ItsUnit \in DOMAIN players
RowFits == BringsCities =>
    /\ Cardinality(CityUnits \ cities) >= Head(d2g).cities
    /\ Cardinality(players[ItsUnit].city_list) + Head(d2g).cities <= MaxCities
NewCities ==
    IF BringsCities
    THEN {new \in SUBSET (CityUnits \ cities) : Cardinality(new) = Head(d2g).cities}
    ELSE {{}}


WithCities(new) == IF new = {} THEN players
                   ELSE [players EXCEPT ![ItsUnit].city_list = @ \cup new]

\* A handler gets as far as Resume.
FromHandler == FromDatasvr /\ HasPlayer /\ RowFits

\* ... or it uses a player or a city it could not get.
AnswerNoPlayer == /\ Up /\ d2g # <<>>
                  /\ ~HasPlayer
                  /\ Die("no player")
AnswerNoCity == /\ Up /\ d2g # <<>>
                /\ HasPlayer /\ ~RowFits
                /\ Die("no city")

\* There is no such task: co_map_[id] makes an entry for it that is NULL.  (The
\* answers to saves of ConnStop have no task, and their id is 0.)
ResumeNoTask ==
    /\ FromHandler
    /\ ~Live(Resumed)
    /\ co_map' = IF Resumed > 0 THEN With(co_map, Resumed, NoTask) ELSE co_map
    /\ \E new \in NewCities : players' = WithCities(new) /\ cities' = cities \cup new
    /\ UNCHANGED <<c2g, g2c, g2d, asked, answered, status, uid_to_player_idx_map,
                   timers, player_of>>

-----------------------------------------------------------------------------
(* LuaEngine: a coroutine goes on behind its CO_YIELD. *)

\* The unit that its next call goes through, once DelPlayer has released the
\* player that was kicked off and saved.
NextUnit == IF Waits("SET") /\ Flag # 0 THEN Task.old_player_idx ELSE Task.player_idx
KickedUnits == IF Waits("SET") /\ Flag = 0 THEN {Task.old_player_idx} ELSE {}

\* ShmPool::GetPos finds a unit in use, by which player ever.  (set_uid and all
\* that sends begin with GetPlayerIdx.)
UnitInUse == NextUnit \in DOMAIN players \ KickedUnits

\* ... or its CHECK fails, before anything is sent.
ResumeReleased ==
    /\ Up /\ d2g # <<>>
    /\ HasPlayer /\ RowFits
    /\ Live(Resumed)
    /\ ~UnitInUse
    /\ Die("released player")

\* CreateTask pops the coroutine from Lua's stack, and nothing else refers to
\* it: the collector may free it while it waits.  Its memory may be as it was
\* (the actions below); or Resume takes it for one that cannot go on...  (That
\* a later coroutine has got it, and goes on instead, is left out.)
ResumeCollected ==
    /\ "collect" \in Faults
    /\ FromHandler
    /\ Live(Resumed)
    /\ CloseTask(Resumed)
    /\ \E new \in NewCities : players' = WithCities(new) /\ cities' = cities \cup new
    /\ UNCHANGED <<c2g, g2c, g2d, asked, answered, status, uid_to_player_idx_map,
                   player_of>>

\* ... or does not survive it.
ResumeCollectedAborts ==
    /\ "collect" \in Faults
    /\ Up /\ d2g # <<>>
    /\ HasPlayer /\ RowFits
    /\ Live(Resumed)
    /\ Die("collected coroutine")

\* The script's last words go to the client of its unit.
LastWords(ret, more) ==
    LET player == players[Task.player_idx]
    IN  /\ SendAnswers(<<Answer(player, Task.player_idx, Task.seq, Task.type, ret)>> \o more)
        /\ CloseTask(Resumed)

\* A registration is over, or a login has failed.
ResumeAnswer ==
    /\ FromHandler
    /\ \/ Waits("REG") /\ (Flag = 0 \/ Task.type = "NORMAL_REG" \/ Task.tries = 3)
       \/ Waits("GET") /\ Flag # 0
    /\ UnitInUse
    /\ LastWords(IF Flag = 0 THEN 0 ELSE -1, <<>>)
    /\ UNCHANGED <<c2g, g2d, asked, status, objects, player_of>>

\* Mutants: as in the login script, the request is sent once more; it is not sent.
MutRegisterLost(uid) == UNCHANGED g2d
MutRegister(uid) ==
    g2d' = Push(g2d, <<ToData("REG", Resumed, uid, Task.password_hash, 1),
                       ToData("REG", Resumed, uid, Task.password_hash, 1)>>)

Register(uid) == SendToDatasvr(ToData("REG", Resumed, uid, Task.password_hash, 1))

\* Mutant: the client is told of every number that is taken.
MutResumeTryAgain ==
    /\ FromHandler
    /\ Waits("REG") /\ Flag # 0
    /\ Task.type = "QUICK_REG" /\ Task.tries < 3
    /\ UnitInUse
    /\ \E body \in Bodies :
         /\ body.cmd = "QUICK_REG"
         /\ Register(body.uid)
         /\ co_map' = [co_map EXCEPT ![Resumed].tries = @ + 1, ![Resumed].uid = body.uid]
    /\ SendAnswers(<<Answer(players[Task.player_idx], Task.player_idx,
                            Task.seq, Task.type, -1)>>)
    /\ UNCHANGED <<c2g, asked, status, objects, timers, player_of>>

\* quick_reg: up to three numbers are tried.
ResumeTryAgain ==
    /\ FromHandler
    /\ Waits("REG") /\ Flag # 0
    /\ Task.type = "QUICK_REG" /\ Task.tries < 3
    /\ UnitInUse
    /\ \E body \in Bodies :
         /\ body.cmd = "QUICK_REG"
         /\ Register(body.uid)
         /\ co_map' = [co_map EXCEPT ![Resumed].tries = @ + 1, ![Resumed].uid = body.uid]
    /\ UNCHANGED <<c2g, g2c, asked, answered, status, objects, timers, player_of>>

\* login: the old player's data are saved; it goes, and the new one's are read.
\* (Else they are saved again, without end: but the answer to a SET is 0.)
ResumeSaved ==
    /\ FromHandler
    /\ Waits("SET")
    /\ UnitInUse
    /\ IF Flag # 0
       THEN /\ SaveTwice(players[Task.old_player_idx], Resumed)
            /\ UNCHANGED <<objects, co_map>>
       ELSE /\ DelPlayerIn(Task.old_player_idx)
            /\ SendToDatasvr(ToData("GET", Resumed, Task.uid, Task.password_hash, 0))
            /\ co_map' = [co_map EXCEPT ![Resumed].waits = "GET"]
    /\ UNCHANGED <<c2g, g2c, asked, answered, status, timers, player_of>>

LoggedIn(player) == [player EXCEPT !.uid = Task.uid, !.password_hash = Task.password_hash]

\* login: set_uid and set_password_hash through the pointer, and the answer.
ResumeLoggedIn ==
    /\ FromHandler
    /\ Waits("GET") /\ Flag = 0
    /\ UnitInUse
    /\ \E new \in NewCities :
         /\ cities' = cities \cup new
         /\ players' = [WithCities(new) EXCEPT ![Task.player_idx] = LoggedIn(@)]
    /\ BindUid(Task.uid, Task.player_idx)
    /\ LastWords(0, <<ToConn("PROC", players[Task.player_idx].conn_fd, Task.player_idx, 0, 0)>>)
    /\ UNCHANGED <<c2g, g2d, asked, status, player_of>>

\* The answer was cut off at 1024 bytes, and cannot be parsed.
AnswerLost == /\ "lost" \in Faults
              /\ FromDatasvr
              /\ UNCHANGED <<c2g, g2c, g2d, asked, answered, lua>>

-----------------------------------------------------------------------------
(* LuaEngine::Run: TimerPoll and OnTimer.  The end of the process. *)

Least(S) == {x \in S : \A y \in S : x <= y}
Stopping == status = "stopping"

\* Mutant: the coroutine stays.
MutOnTimer == /\ Up \/ Stopping
              /\ Stopping \/ "timeout" \in Faults
              /\ \E id \in Least(timers) : timers' = timers \ {id}
              /\ UNCHANGED <<links, status, objects, co_map, player_of>>

\* The timer on top of the heap expires.  OnTimer closes the task, which deletes
\* the timer, and returns -1; so TimerPoll removes the node that is on top now.
OnTimer == /\ Up \/ Stopping
           /\ Stopping \/ "timeout" \in Faults
           /\ \E id \in Least(timers) :
                LET rest == timers \ {id}
                IN  /\ co_map' = Without(co_map, {id})
                    /\ timers' = rest \ Least(rest)
           /\ UNCHANGED <<links, status, objects, player_of>>

\* ... then it deletes the node of the task a second time, which the allocator
\* may or may not find out.
OnTimerAborts == /\ Up \/ Stopping
                 /\ Stopping \/ "timeout" \in Faults
                 /\ timers # {}
                 /\ Die("double free")

\* ServerFrame is told to stop: AppStop deletes LuaEngineModule, which polls its
\* timers, and nothing else, until co_map_ is empty.
Stop == /\ "stop" \in Faults
        /\ Up
        /\ status' = "stopping"
        /\ UNCHANGED <<links, objects, co_map, timers, player_of>>

Exit == /\ Stopping
        /\ DOMAIN co_map = {}
        /\ status' = "stopped"
        /\ UNCHANGED <<links, objects, co_map, timers, player_of>>

LuaHandles == \/ ConnStart \/ ConnStartFull \/ ConnProc \/ ConnStop
              \/ AnswerNoPlayer \/ AnswerNoCity \/ ResumeNoTask
              \/ ResumeReleased \/ ResumeCollected \/ ResumeCollectedAborts
              \/ ResumeAnswer \/ ResumeTryAgain \/ ResumeSaved \/ ResumeLoggedIn

LuaNext == LuaHandles \/ AnswerLost \/ OnTimer \/ OnTimerAborts \/ Stop \/ Exit

-----------------------------------------------------------------------------
(* Properties *)

\* However a task ends (the script returns or fails, its time is over), its
\* timer ends with it: no timer is left to expire for a task that is gone.
TimersHaveTasks == \A id \in timers : Live(id)
=============================================================================
