------------------------------- MODULE LuaFrame -------------------------------
(***************************************************************************)
(* connsvr, gamesvr_lua_coroutine and datasvr together.                     *)
(***************************************************************************)
EXTENDS ConnSvr, LuaServer, DataService

vars == <<links, connsvr, lua, datasvr>>

Init == LinksInit /\ ConnInit /\ LuaInit /\ DataInit

Next == \/ ConnNext /\ UNCHANGED <<lua, datasvr>>
        \/ LuaNext /\ UNCHANGED <<connsvr, datasvr>>
        \/ DataNext /\ UNCHANGED <<connsvr, lua>>

Spec == Init /\ [][Next]_vars

\* Each process handles what is there for it, for as long as it runs; datasvr's
\* threads finish their statements; time passes.
Fairness == /\ WF_vars((ZmqRead \/ ZmqReadSendFail \/ ZmqReadNoConn)
                         /\ UNCHANGED <<lua, datasvr>>)
            /\ WF_vars(LuaHandles /\ UNCHANGED <<connsvr, datasvr>>)
            /\ WF_vars(DataNext /\ UNCHANGED <<connsvr, lua>>)
            /\ WF_vars((OnTimer \/ OnTimerAborts \/ Exit) /\ UNCHANGED <<connsvr, datasvr>>)

FairSpec == Spec /\ Fairness

-----------------------------------------------------------------------------
(* Safety *)

\* What is on its way between gamesvr and datasvr for a task.
Requests(id) == {i \in DOMAIN g2d : g2d[i].seq = id}
Working(id) == {j \in jobs : j.request.seq = id}
Answers(id) == {i \in DOMAIN d2g : d2g[i].seq = id}
OnTheWay(id) == Cardinality(Requests(id)) + Cardinality(Working(id))
                  + Cardinality(Answers(id))
CmdsOnTheWay(id) == {g2d[i].cmd : i \in Requests(id)}
                      \cup {j.request.cmd : j \in Working(id)}
                      \cup {d2g[i].cmd : i \in Answers(id)}

\* A task that did not kick a player off waits for one answer, and only that one
\* is on its way: no other answer can end its CO_YIELD, through retries, late
\* answers and tasks that are gone.
TaskGetsItsAnswer ==
    \A id \in DOMAIN co_map :
        Live(id) /\ co_map[id].old_player_idx = 0 =>
            /\ OnTheWay(id) <= 1
            /\ CmdsOnTheWay(id) \subseteq {co_map[id].waits}

-----------------------------------------------------------------------------
(* Liveness *)

Ids == 1..MaxRequests

\* A task comes to its end while the process runs, as long as answers come;
\* its own timer, or a login that is kicked off, does not keep it.
TasksEnd == \A id \in Ids : Live(id) ~> ~Live(id) \/ ~Up

\* A shutdown with one task or none comes to its end.
ShutdownEndsAlone ==
    Stopping /\ Cardinality(DOMAIN co_map) <= 1 /\ (\A id \in DOMAIN co_map : id \in timers)
      ~> ~Stopping

\* A shutdown waits for the tasks there are, and comes to its end.
ShutdownEnds == Stopping ~> ~Stopping
=============================================================================
