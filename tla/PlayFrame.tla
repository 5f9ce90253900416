------------------------------ MODULE PlayFrame ------------------------------
(***************************************************************************)
(* connsvr, gamesvr and datasvr together: the life of client connections    *)
(* and of their sessions.                                                  *)
(***************************************************************************)
EXTENDS ConnSvr, GameSvr, DataService

vars == <<links, connsvr, gamesvr, datasvr>>

Init == LinksInit /\ ConnInit /\ GameInit /\ DataInit

Next == \/ ConnNext /\ UNCHANGED <<gamesvr, datasvr>>
        \/ GameNext /\ UNCHANGED <<connsvr, datasvr>>
        \/ DataNext /\ UNCHANGED <<connsvr, gamesvr>>

Spec == Init /\ [][Next]_vars

\* A logic for each request, and one for the STOP of each connection.
LogicIds == 1..MaxRequests + MaxConns

\* Each process handles what is there for it, for as long as it runs; datasvr's
\* threads finish their statements; the timers of logics expire.
GameHandles == \/ ConnStart \/ ConnStartFull \/ ConnProc \/ ConnStop
               \/ ResumeNoLogic \/ ResumeFinish \/ ResumeAnswer
               \/ ResumeLoginSaved \/ ResumeLoginOk
               \/ ResumeLoginNoCity \/ ResumeLoginNoPlayer
Fairness == /\ WF_vars((ZmqRead \/ ZmqReadSendFail \/ ZmqReadNoConn)
                         /\ UNCHANGED <<gamesvr, datasvr>>)
            /\ WF_vars(GameHandles /\ UNCHANGED <<connsvr, datasvr>>)
            /\ WF_vars(DataNext /\ UNCHANGED <<connsvr, gamesvr>>)
            /\ \A l \in LogicIds :
                   WF_vars(OnTimer(l) /\ UNCHANGED <<connsvr, datasvr>>)

FairSpec == Spec /\ Fairness

TypeOK == LinksTypeOK /\ ConnTypeOK /\ GameTypeOK /\ DataTypeOK

-----------------------------------------------------------------------------
(* Safety *)

\* What a logic in this state is waiting for.
Expects(l) == CASE l.type = "UPDATE_PLAYER" -> "SET"
                [] l.type = "REG" -> "REG"
                [] l.type = "LOGIN" /\ l.step = 1 -> "SET"
                [] l.type = "LOGIN" /\ l.step = 2 -> "GET"

\* The messages between gamesvr and datasvr, as a family indexed by place.
InFlight(id) ==
    [g2d |-> {i \in DOMAIN g2d : g2d[i].seq = id},
     d2g |-> {i \in DOMAIN d2g : d2g[i].seq = id},
     jobs |-> {j \in jobs : j.request.seq = id}]
Cmds(id) == {g2d[i].cmd : i \in InFlight(id).g2d}
            \cup {d2g[i].cmd : i \in InFlight(id).d2g}
            \cup {j.request.cmd : j \in InFlight(id).jobs}

\* Every answer that can still arrive for a logic is the one answer its step
\* waits for: the codes of all answers are alike (0 is RET_..._OK of each), so
\* that a step that were resumed by another step's or another logic's answer
\* would take it for its own.
AnswersExpected ==
    \A id \in DOMAIN logics :
        /\ Cardinality(InFlight(id).g2d) + Cardinality(InFlight(id).d2g)
             + Cardinality(InFlight(id).jobs) <= 1
        /\ Cmds(id) \subseteq {Expects(logics[id])}

\* A player that counts as logged in (uid # 0) has an account whose password
\* was given: through late answers, retries and reused units.
PlayerVerified ==
    \A i \in DOMAIN players :
        players[i].uid # 0 =>
            /\ players[i].uid \in DOMAIN sg_data
            /\ sg_data[players[i].uid].password_hash = players[i].password_hash

\* STOP is the last word of a connection: connsvr sends gamesvr nothing of a
\* connection behind its STOP, though its descriptor is used again.
StopIsLast ==
    \A i \in DOMAIN c2g :
        c2g[i].cmd = "STOP" =>
            /\ \A j \in i + 1..Len(c2g) : c2g[j].conn # c2g[i].conn
            /\ \A fd \in DOMAIN conn_map : conn_map[fd].conn # c2g[i].conn

-----------------------------------------------------------------------------
(* Safety, with clients like tcpclient *)

\* A client asks once on a connection, closes only when it has everything
\* gamesvr sent it, and uses an account no other client uses; a login is to
\* an account of the table with its password. No connection breaks, datasvr
\* gets at every result, and nobody kills gamesvr. Logics may still expire,
\* and requests to datasvr may get no answer.
PatientClients ==
    /\ Faults \cap {"pipeline", "again", "shared", "hangup", "reset", "refused", "kill"} = {}
    /\ \A body \in Bodies : body.cmd = "LOGIN" =>
           body.check = "ok" /\ body.uid \in DOMAIN Rows /\ body.pw = Rows[body.uid]
    /\ 0 \notin DOMAIN Rows

\* A queue holds a START and a STOP of as many connections as there can be, the
\* pools a player and a city for each of them, and a player may have a city.
RoomForAll == /\ 2 * ConnPoolSize <= Hwm
              /\ ConnPoolSize <= PlayerPoolSize /\ ConnPoolSize <= CityPoolSize
              /\ MaxCities >= 1

Stopping(i) == \E k \in DOMAIN c2g : c2g[k].cmd = "STOP" /\ c2g[k].player_idx = i

\* The two sides of a session belong together: a connection that knows a
\* player has it, and it sends to that connection; each player is one's that
\* is open, or its STOP is on its way; no two players are one connection's.
SessionsMatch ==
    /\ \A fd \in DOMAIN conn_map :
          LET i == conn_map[fd].player_idx
          IN  i # 0 => i \in DOMAIN players /\ players[i].conn_fd = fd
    /\ \A i \in DOMAIN players :
          LET fd == players[i].conn_fd
          IN  \/ Stopping(i)
             \/ /\ fd \in DOMAIN conn_map
                /\ conn_map[fd].player_idx \in {0, i}
                /\ \A j \in DOMAIN players \ {i} :
                       players[j].conn_fd = fd => Stopping(j)

\* A client gets answers to its own requests only.
RightClient == \A d \in delivered : asked[d[2]].conn = d[1]

\* The data of an account come back from every session as they went in: a
\* new account has one city, and nothing in the game adds any.
CitiesKept == \A u \in DOMAIN sg_data : sg_data[u].cities = 1

\* gamesvr never touches an object it could not get: a player and a city for
\* each connection connsvr accepts are enough, since the STOP of an old one
\* reaches gamesvr before the START of the next.
NeverDown == Up

-----------------------------------------------------------------------------
(* Safety that comments promise *)

\* obj_mgr_module.cpp: a new process restores the relation of uid and player.
RestartRestores == status # "aborted"

-----------------------------------------------------------------------------
(* Liveness *)

\* Every logic comes to its end, whatever is lost.
LogicsEnd == \A l \in LogicIds : l \in DOMAIN logics ~> l \notin DOMAIN logics

\* Every request is answered in the end, and the answer reaches the client.
RequestsAnswered ==
    \A s \in 1..MaxRequests :
        s \in Seqs ~> s \in Seqs /\ <<asked[s].conn, s>> \in delivered
=============================================================================
