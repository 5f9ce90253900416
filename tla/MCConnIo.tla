------------------------------- MODULE MCConnIo -------------------------------
(* ConnIo on a small instance: one kind of request. *)
EXTENDS ConnIo

MCBodies == {[cmd |-> "OTHER", check |-> "ok", uid |-> 1, pw |-> 1]}
MCFaults == {"pipeline", "again", "shared", "hangup", "reset"}
=============================================================================
