----------------------------- MODULE MCPlayFrame -----------------------------
(* PlayFrame on small instances. *)
EXTENDS PlayFrame

MCBody(cmd, check, uid, pw) == [cmd |-> cmd, check |-> check, uid |-> uid, pw |-> pw]

\* The truncated uid of account 1 happens to be the index of a player, that of
\* account 2 is negative, as half of all hashes are.
MCTrunc == <<1, -2, -3>>

\* The passwords of the accounts that exist.
MCRows == <<1, 1>>

\* Requests that can work, of every kind, then one each that cannot.
GoodLogins == {MCBody("LOGIN", "ok", 1, 1), MCBody("LOGIN", "ok", 2, 1)}
MCGood == GoodLogins \cup {MCBody("NORMAL_REG", "ok", 3, 1)}
MCBad == {MCBody("LOGIN", "ok", 1, 2), MCBody("LOGIN", "bad", 1, 1),
          MCBody("NORMAL_REG", "ok", 1, 2), MCBody("NORMAL_REG", "bad", 3, 1),
          MCBody("NORMAL_REG", "long", 3, 1),
          MCBody("OTHER", "ok", 1, 1)}
MCKinds == GoodLogins \cup {MCBody("QUICK_REG", "ok", 3, 2)} \cup MCBad

MCNone == {}
MCKill == {"kill"}
MCAll == AllFaults \ {"race", "collect"}
MCLossy == {"again", "lost", "timeout"}

\* The instance without faults meets the terms of the theorems on sessions.
ASSUME GoodIsPatient == Faults = {} => PatientClients /\ RoomForAll
=============================================================================
