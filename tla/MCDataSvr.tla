------------------------------ MODULE MCDataSvr ------------------------------
(* DataSvr with a login, a save, and two registrations of one account. *)
EXTENDS DataSvr

MCRows == <<1>>
MCRequests == {ToData("GET", 1, 1, 1, 0), ToData("REG", 2, 2, 1, 1),
               ToData("SET", 3, 1, 0, 2)}
MCMore == MCRequests \cup {ToData("REG", 4, 2, 2, 1)}
MCNoBodies == {}
MCFaults == {"refused", "lost"}
MCRace == {"race"}
=============================================================================
