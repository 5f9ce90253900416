----------------------------- MODULE ServerFrame -----------------------------
(***************************************************************************)
(* ServerFrame (src/common/frame/server_frame.cpp): the life of the        *)
(* processes of one server, from "start" through the pid file, the signal  *)
(* handlers and the main loop to the end.  The pid file lies in the        *)
(* directory of the executable and outlives the process; "stop" and        *)
(* "reload" find their process by it and send it a signal.                 *)
(*                                                                         *)
(* What AppInit and AppStop do is left to the module that extends this     *)
(* one.  AppReload is empty in the three servers.  A missing file and an   *)
(* empty one are the same: GetRunningPid reads 0 from both.                *)
(*                                                                         *)
(* CheckForPidFile and CreatePidFile are apart, and nothing locks the file *)
(* in between: two starts at once would both pass.  Start assumes that the *)
(* last start is past it.                                                  *)
(***************************************************************************)
EXTENDS Integers

CONSTANT Pids   \* the process ids there are; the system gives them out again

ASSUME PidsAssumption == Pids \subseteq Nat \ {0}

VARIABLES pid_file,      \* the process id in the pid file, or 0
          at,            \* how far each process is
          is_shutdown_   \* its flag

frame == <<pid_file, at, is_shutdown_>>

\* What a process is about to do, in the order of Run.
Starting == {"CheckForPidFile", "CreatePidFile", "write"}
Loaded == {"SetSignal", "GetInstance", "AppInit"}
Serving == {"RunFrame", "AppStop"}
Leaving == {"RemovePidFile"}

Exists(p) == at[p] # "none"

FrameInit == /\ pid_file = 0
             /\ at = [p \in Pids |-> "none"]
             /\ is_shutdown_ = [p \in Pids |-> FALSE]

Step(p, from, to) == at[p] = from /\ at' = [at EXCEPT ![p] = to]

\* The process ends, and its flag with it.
Ends(p) == /\ at' = [at EXCEPT ![p] = "none"]
           /\ is_shutdown_' = [is_shutdown_ EXCEPT ![p] = FALSE]

-----------------------------------------------------------------------------
(* InitFrame *)

Start(p) == /\ \A q \in Pids : at[q] \notin Starting
            /\ Step(p, "none", "CheckForPidFile")
            /\ UNCHANGED <<pid_file, is_shutdown_>>

\* /proc/<pid>/cwd/<name> is there: a process of this directory has the id that
\* is in the file.  It may be the one that looks.
Running == pid_file # 0 /\ Exists(pid_file)

NotRunning(p) == /\ ~Running
                 /\ Step(p, "CheckForPidFile", "CreatePidFile")
                 /\ UNCHANGED <<pid_file, is_shutdown_>>

\* MUTANT: atexit comes before the check, so that a start that is refused
\* removes the pid file.
MutRefused(p) == /\ Running
                 /\ at[p] = "CheckForPidFile"
                 /\ Ends(p)
                 /\ pid_file' = 0

\* "is running! please stop it!"  The process ends, and leaves the file alone.
Refused(p) == /\ Running
              /\ at[p] = "CheckForPidFile"
              /\ Ends(p)
              /\ UNCHANGED pid_file

\* open with O_TRUNC.  (Where it fails the process ends, as by Kill.)
CreatePidFile(p) == /\ Step(p, "CreatePidFile", "write")
                    /\ pid_file' = 0
                    /\ UNCHANGED is_shutdown_

WritePid(p) == /\ Step(p, "write", "SetSignal")
               /\ pid_file' = p
               /\ UNCHANGED is_shutdown_

\* atexit(RemovePidFile) and the signal handlers.
SetSignal(p) == /\ Step(p, "SetSignal", "GetInstance")
                /\ UNCHANGED <<pid_file, is_shutdown_>>

\* app_ is no longer NULL.
GetInstance(p) == /\ Step(p, "GetInstance", "AppInit")
                  /\ UNCHANGED <<pid_file, is_shutdown_>>

\* MUTANT: the main loop begins with a new flag.
MutAppInit(p) == /\ Step(p, "AppInit", "RunFrame")
                 /\ is_shutdown_' = [is_shutdown_ EXCEPT ![p] = FALSE]
                 /\ UNCHANGED pid_file

\* AppInit comes back, with 0 in every server, and the main loop begins.
AppInit(p) == /\ Step(p, "AppInit", "RunFrame")
              /\ UNCHANGED <<pid_file, is_shutdown_>>

\* A CHECK of AppInit fails: abort() calls no atexit function.
AppInitAborts(p) == /\ at[p] = "AppInit"
                    /\ Ends(p)
                    /\ UNCHANGED pid_file

-----------------------------------------------------------------------------
(* RunFrame, FiniFrame and the end *)

LeaveLoop(p) == /\ is_shutdown_[p]
                /\ Step(p, "RunFrame", "AppStop")
                /\ UNCHANGED <<pid_file, is_shutdown_>>

AppStop(p) == /\ Step(p, "AppStop", "RemovePidFile")
              /\ UNCHANGED <<pid_file, is_shutdown_>>

\* exit calls RemovePidFile, which removes the file whoever wrote it.
Exit(p) == /\ at[p] = "RemovePidFile"
           /\ Ends(p)
           /\ pid_file' = 0

-----------------------------------------------------------------------------
(* "stop" and "reload", and what ends a process from outside *)

\* The signal of "stop" or "reload" comes before SetSignal: it ends the process.
SignalKills(p) == /\ pid_file = p
                  /\ at[p] = "SetSignal"
                  /\ Ends(p)
                  /\ UNCHANGED pid_file

\* SignalHandler upon "stop".
StopSignal(p) == /\ pid_file = p
                 /\ at[p] \in {"GetInstance", "AppInit"} \cup Serving \cup Leaving
                 /\ is_shutdown_' = [is_shutdown_ EXCEPT ![p] = TRUE]
                 /\ UNCHANGED <<pid_file, at>>

\* SignalHandler upon "reload" while app_ is NULL, before and behind its life.
\* While there is an app, AppReload does nothing.
ReloadCrashes(p) == /\ pid_file = p
                    /\ at[p] \in {"GetInstance"} \cup Leaving
                    /\ Ends(p)
                    /\ UNCHANGED pid_file

\* SIGKILL, a signal that nobody handles, a CHECK that fails.
Kill(p) == /\ Exists(p)
           /\ Ends(p)
           /\ UNCHANGED pid_file

\* The steps that neither begin nor end the life of the app.
FrameStep(p) == \/ NotRunning(p) \/ Refused(p) \/ CreatePidFile(p) \/ WritePid(p)
                \/ SetSignal(p) \/ GetInstance(p) \/ LeaveLoop(p) \/ Exit(p)
Commands(p) == Start(p) \/ SignalKills(p) \/ StopSignal(p) \/ ReloadCrashes(p)

-----------------------------------------------------------------------------
(* Properties *)

\* The pid file names the process that serves, from before its handlers are
\* set until it removes the file, through refused starts, crashes that leave
\* a stale file, and signals at any time: so there is one such process at most,
\* "stop" finds it, and no other start passes.
PidFileNamesServer ==
    \A p \in Pids : at[p] \in Loaded \cup Serving \cup Leaving => pid_file = p

FrameTypeOK == /\ pid_file \in Pids \cup {0}
               /\ at \in [Pids -> {"none"} \cup Starting \cup Loaded \cup Serving \cup Leaving]
               /\ is_shutdown_ \in [Pids -> BOOLEAN]

\* Starts are past the file one after the other, and only while nobody serves.
StartsApart ==
    /\ \A p, q \in Pids : at[p] \in Starting /\ at[q] \in Starting => p = q
    /\ \A p, q \in Pids : at[p] \in {"CreatePidFile", "write"}
                            => at[q] \notin Loaded \cup Serving \cup Leaving

FrameInv == FrameTypeOK /\ StartsApart /\ PidFileNamesServer

\* A stop that was received is not lost, whenever it comes, AppInit included:
\* the process ends.
StopEnds == \A p \in Pids : is_shutdown_[p] ~> ~Exists(p)
=============================================================================
