------------------------------ MODULE MCLuaFrame ------------------------------
(* LuaFrame on small instances. *)
EXTENDS LuaFrame

MCBody(cmd, check, uid, pw) == [cmd |-> cmd, check |-> check, uid |-> uid, pw |-> pw]

\* The accounts that exist, and their passwords; uids are looked up as they are.
MCRows == <<1, 1>>
MCTrunc == <<1, 2, 3>>

\* Requests of every kind and end: a login that works and one with the wrong
\* password; a registration of an account that is there, one whose account is
\* not valid, and a message that nothing is registered for.
MCLogin == {MCBody("LOGIN", "ok", 1, 1)}
MCKinds == MCLogin \cup {MCBody("LOGIN", "ok", 1, 2), MCBody("QUICK_REG", "ok", 1, 2),
                         MCBody("NORMAL_REG", "bad", 3, 1), MCBody("OTHER", "ok", 1, 1)}
\* Tasks that wait more than once.
MCLong == MCLogin \cup {MCBody("QUICK_REG", "ok", 1, 2)}
\* Tasks that do not disturb each other.
MCLogins == MCLogin \cup {MCBody("LOGIN", "ok", 2, 1)}

MCHard == {"shared", "again", "pipeline", "hangup", "timeout", "stop", "lost", "collect"}
MCImpatient == {"shared", "hangup", "timeout", "stop", "collect"}
MCStop == {"stop"}
=============================================================================
