-------------------------------- MODULE Links --------------------------------
(***************************************************************************)
(* What connsvr, gamesvr and datasvr share: the two ZMQ PAIR sockets that   *)
(* join them, as a queue for each direction, the messages on them, and the  *)
(* faults an environment may have.                                         *)
(*                                                                         *)
(* A socket that holds Hwm messages (the high-water mark, 1000 in ZMQ's     *)
(* defaults) refuses another zmq_send(ZMQ_DONTWAIT).                        *)
(***************************************************************************)
EXTENDS Integers, Sequences, FiniteSets

CONSTANTS Hwm,         \* messages a queue can hold
          Bodies,      \* the requests clients may send
          MaxRequests, \* bound: requests in a behaviour
          Faults       \* the faults that may occur

AllFaults ==
    {"pipeline",  \* a client sends a request before the last one is answered
     "again",     \* ... or another one on the same connection after that
     "shared",    \* two connections use one account at a time
     "hangup",    \* a client closes while a message for it is on its way
     "reset",     \* recv or send fails on a connection
     "timeout",   \* a logic is not answered in time
     "refused",   \* datasvr cannot get at the result of a SELECT
     "lost",      \* datasvr loses MySQL, and a request gets no answer
     "race",      \* two threads of datasvr send answers at the same time
     "collect",   \* Lua's collector frees a coroutine that waits
     "stop",      \* gamesvr is told to stop
     "kill"}      \* gamesvr is killed, and started again

\* A request: its cmd; whether its fields pass the checks ("ok"), are rejected
\* ("bad") or do not fit the buffers ("long"); uid and pw are the hashes of
\* account and password (what GenUidNum draws, for a quick registration).
Body == [cmd : {"LOGIN", "NORMAL_REG", "QUICK_REG", "OTHER"},
         check : {"ok", "bad", "long"}, uid : Nat \ {0}, pw : Nat]

ASSUME LinksAssumption ==
    /\ Hwm \in Nat \ {0} /\ MaxRequests \in Nat
    /\ Bodies \subseteq Body
    /\ Faults \subseteq AllFaults

VARIABLES c2g, g2c,  \* between connsvr and gamesvr
          g2d, d2g,  \* between gamesvr and datasvr
          asked,     \* the requests so far: which connection sent which body
          answered   \* how often gamesvr has answered each of them

links == <<c2g, g2c, g2d, d2g, asked, answered>>

Seqs == 1..Len(asked)   \* head.seq of the requests sent so far

\* zmq_send(ZMQ_DONTWAIT) of a list of messages: what does not fit is gone.
Push(queue, msgs) == SubSeq(queue \o msgs, 1,
    IF Len(queue) + Len(msgs) <= Hwm THEN Len(queue) + Len(msgs) ELSE Hwm)

\* ConnData and the message behind it.  conn and seq are there to follow a
\* message: connsvr does not send the one and does not look at the other.
ToGame(cmd, fd, idx, seq, conn) ==
    [cmd |-> cmd, conn_fd |-> fd, player_idx |-> idx, seq |-> seq, conn |-> conn]
ToConn(cmd, fd, idx, seq, ret) ==
    [cmd |-> cmd, conn_fd |-> fd, player_idx |-> idx, seq |-> seq, ret |-> ret]
ToData(cmd, logic_id, uid, pw, n) ==
    [cmd |-> cmd, seq |-> logic_id, uid |-> uid, pw |-> pw, cities |-> n]
FromData(cmd, logic_id, ret, n) ==
    [cmd |-> cmd, seq |-> logic_id, ret |-> ret, cities |-> n]

LinksInit == /\ c2g = <<>> /\ g2c = <<>> /\ g2d = <<>> /\ d2g = <<>>
             /\ asked = <<>> /\ answered = <<>>

LinksTypeOK ==
    /\ \A q \in {c2g, g2c, g2d, d2g} : Len(q) <= Hwm
    /\ \A s \in Seqs : asked[s].body \in Bodies /\ asked[s].conn \in Nat
    /\ DOMAIN answered = Seqs /\ \A s \in Seqs : answered[s] \in Nat
=============================================================================
