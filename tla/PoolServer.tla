------------------------------ MODULE PoolServer ------------------------------
(***************************************************************************)
(* A server whose objects lie in a ShmPool, as gamesvr's players do.        *)
(* AppInit attaches the pool, the main loop uses it, and the segment stays  *)
(* when the process ends.  ServerFrame has to see to it that one process at *)
(* most is attached.                                                        *)
(***************************************************************************)
EXTENDS ShmPool, ServerFrame

all == <<vars, frame>>

ServerInit == Init /\ FrameInit

\* AppInit with the module that owns the pool; another unit_count than that of
\* the segment aborts it.
Attach(p) == /\ AppInit(p)
             /\ \E c \in UnitCounts : InitFresh(c) \/ InitAttach(c)
Mismatch(p) == /\ AppInitAborts(p)
               /\ \E c \in UnitCounts : InitMismatch(c)

\* AppRun: calls of the pool.
Use(p) == /\ at[p] = "RunFrame"
          /\ Alloc \/ AllocFull \/ \E i \in Units : Release(i)
          /\ UNCHANGED frame

Detach(p) == AppStop(p) /\ Stop

\* The process is killed, with the pool or without.
KillAttached(p) == at[p] \in Serving /\ Kill(p) /\ Stop
KillOther(p) == at[p] \notin Serving /\ Kill(p) /\ UNCHANGED vars

\* stop.sh removes the segment when it sees no process any more.
StopScript == /\ \A p \in Pids : ~Exists(p)
              /\ Wipe
              /\ UNCHANGED frame

Runs(p) == (FrameStep(p) /\ UNCHANGED vars) \/ Attach(p) \/ Mismatch(p) \/ Detach(p)

ServerNext == \/ \E p \in Pids : \/ Runs(p) \/ Use(p)
                                 \/ Commands(p) /\ UNCHANGED vars
                                 \/ KillAttached(p) \/ KillOther(p)
              \/ StopScript

ServerSpec == ServerInit /\ [][ServerNext]_all

\* The system schedules every process.
FairServer == ServerSpec /\ \A p \in Pids : WF_all(Runs(p))
=============================================================================
