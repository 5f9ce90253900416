------------------------------- MODULE DataSvr -------------------------------
(***************************************************************************)
(* datasvr: MsgModule in the main thread, MysqlMgr's free list of MySQL      *)
(* clients, and each client's own thread, which executes a statement on the  *)
(* table sg_data and sends the answer itself, out of the static buffer of    *)
(* MsgModule::SendMsg that all threads share without a lock.                *)
(*                                                                         *)
(* A step of a thread is what lies between two points where others see it:  *)
(* the byte in its pipe, the statement, the buffer, the socket, the list.    *)
(* zmq_send itself is taken as whole, though ZMQ does not promise that for a *)
(* socket that several threads use.  Of gamesvr there are the requests it    *)
(* may send; ids are not used again.                                        *)
(***************************************************************************)
EXTENDS Links

CONSTANTS Clients,   \* how many MySQL clients there are (8 in the code)
          Rows,      \* the accounts in sg_data at the start: uid -> password
          Requests   \* what gamesvr may send

ASSUME DataSvrAssumption ==
    /\ Clients \in Nat \ {0}
    /\ \A m \in Requests : m.cmd \in {"GET", "REG", "SET"}

VARIABLES sg_data,           \* uid -> its row
          free_client_list,
          client,            \* where each thread is, its request and its answer
          send_buf,          \* the buffer of SendMsg
          sent, got,         \* what gamesvr has sent and received
          lost               \* the requests whose threads lost the server

vars == <<links, sg_data, free_client_list, client, send_buf, sent, got, lost>>

ClientIds == 1..Clients
NoRequest == ToData("NONE", 0, 0, 0, 0)
NoAnswer == FromData("NONE", 0, 0, 0)
Garbage == NoAnswer     \* does not parse at the other end
Idle == [pc |-> "idle", request |-> NoRequest, answer |-> NoAnswer]

\* MysqlMgr::Init.
Init == /\ LinksInit
        /\ sg_data = [u \in DOMAIN Rows |-> [password_hash |-> Rows[u], cities |-> 1]]
        /\ free_client_list = [c \in ClientIds |-> c]
        /\ client = [c \in ClientIds |-> Idle]
        /\ send_buf = Garbage
        /\ sent = {} /\ got = <<>> /\ lost = {}

-----------------------------------------------------------------------------
(* The main thread. *)

\* Mutant: every client that is popped is pushed back.
MutRun == /\ free_client_list # <<>> /\ g2d # <<>>
          /\ client' = [client EXCEPT ![Head(free_client_list)] =
                           [pc |-> "told", request |-> Head(g2d), answer |-> NoAnswer]]
          /\ free_client_list' =
                 Append(Tail(free_client_list), Head(free_client_list))
          /\ g2d' = Tail(g2d)
          /\ UNCHANGED <<c2g, g2c, d2g, asked, answered, sg_data, send_buf, sent, got, lost>>

\* MsgModule::Run: PopFreeClient, zmq_recv, and Process, whose byte in the
\* pipe makes the request the thread's.  (Requests fit its 1024 bytes: of one that
\* is cut and cannot be parsed the client would not come back.)
Run == /\ free_client_list # <<>> /\ g2d # <<>>
       /\ client' = [client EXCEPT ![Head(free_client_list)] =
                        [pc |-> "told", request |-> Head(g2d), answer |-> NoAnswer]]
       /\ free_client_list' = Tail(free_client_list)
       /\ g2d' = Tail(g2d)
       /\ UNCHANGED <<c2g, g2c, d2g, asked, answered, sg_data, send_buf, sent, got, lost>>

\* ... with nothing to receive, the client goes to the end of the list.
RunIdle == /\ free_client_list # <<>> /\ g2d = <<>>
           /\ free_client_list' =
                  Append(Tail(free_client_list), Head(free_client_list))
           /\ UNCHANGED <<links, sg_data, client, send_buf, sent, got, lost>>

-----------------------------------------------------------------------------
(* MysqlClient::ThreadLoop of client c. *)

At(c, pc) == client[c].pc = pc
Goto(c, pc, answer) ==
    client' = [client EXCEPT ![c] =
                  [pc |-> pc, request |-> client[c].request, answer |-> answer]]

\* Ping fails, and so does Connect: the loop goes on, without PushFreeClient.
PingFails(c) == /\ "lost" \in Faults
                /\ At(c, "told")
                /\ Goto(c, "stuck", NoAnswer)
                /\ lost' = lost \cup {client[c].request}
                /\ UNCHANGED <<links, sg_data, free_client_list, send_buf, sent, got>>

\* INSERT of a uid without a row; UPDATE of what rows there are; SELECT.
Inserts(m) == m.cmd = "REG" /\ m.uid \notin DOMAIN sg_data
Executed(m) ==
    IF Inserts(m)
    THEN [u \in DOMAIN sg_data \cup {m.uid} |->
             IF u = m.uid THEN [password_hash |-> m.pw, cities |-> m.cities]
             ELSE sg_data[u]]
    ELSE [u \in DOMAIN sg_data |->
             IF m.cmd = "SET" /\ u = m.uid
             THEN [password_hash |-> sg_data[u].password_hash, cities |-> m.cities]
             ELSE sg_data[u]]

\* What the callback makes of the result.
Selects(m) == m.cmd = "GET" /\ m.uid \in DOMAIN sg_data
              /\ sg_data[m.uid].password_hash = m.pw
AnswerTo(m) ==
    CASE Selects(m)                  -> FromData("GET", m.seq, 0, sg_data[m.uid].cities)
      [] m.cmd = "GET" /\ ~Selects(m) -> FromData("GET", m.seq, -1, 0)
      [] m.cmd = "REG"               -> FromData("REG", m.seq, IF Inserts(m) THEN 0 ELSE -2, 0)
      [] m.cmd = "SET"               -> FromData("SET", m.seq, 0, 0)

\* mysql_real_query succeeds, or finds a duplicate.
Query(c) == /\ At(c, "told")
            /\ sg_data' = Executed(client[c].request)
            /\ Goto(c, "answer", AnswerTo(client[c].request))
            /\ UNCHANGED <<links, free_client_list, send_buf, sent, got, lost>>

\* Mutants: no callback without a result; the loop returns at once.
MutQueryNoResult(c) ==
    /\ "refused" \in Faults
    /\ At(c, "told")
    /\ client[c].request.cmd = "GET"
    /\ Goto(c, "push", NoAnswer)
    /\ UNCHANGED <<links, sg_data, free_client_list, send_buf, sent, got, lost>>
MutQueryNoResultReturns(c) ==
    /\ "refused" \in Faults
    /\ At(c, "told")
    /\ client[c].request.cmd = "GET"
    /\ Goto(c, "stuck", NoAnswer)
    /\ UNCHANGED <<links, sg_data, free_client_list, send_buf, sent, got, lost>>

\* ... succeeds, but a result that should be there is not.
QueryNoResult(c) ==
    /\ "refused" \in Faults
    /\ At(c, "told")
    /\ client[c].request.cmd = "GET"
    /\ Goto(c, "answer", FromData("GET", client[c].request.seq, -1, 0))
    /\ UNCHANGED <<links, sg_data, free_client_list, send_buf, sent, got, lost>>

\* Mutant: the result of the repeated statement is answered, which for an
\* INSERT that took effect the first time is a duplicate.
MutQueryRepeated(c) ==
    /\ "lost" \in Faults
    /\ At(c, "told")
    /\ sg_data' = Executed(client[c].request)
    /\ Goto(c, "answer", FromData(client[c].request.cmd, client[c].request.seq, -2, 0))
    /\ lost' = lost \cup {client[c].request}
    /\ UNCHANGED <<links, free_client_list, send_buf, sent, got>>

\* ... fails; the client connects again and repeats the statement, which may
\* fail or not, and there is no callback.
QueryRepeated(c) ==
    /\ "lost" \in Faults
    /\ At(c, "told")
    /\ sg_data' \in {sg_data, Executed(client[c].request)}
    /\ Goto(c, "push", NoAnswer)
    /\ lost' = lost \cup {client[c].request}
    /\ UNCHANGED <<links, free_client_list, send_buf, sent, got>>

\* The bytes of two messages, as they may come out of the buffer.
Mixed(a, b) == [cmd : {a.cmd, b.cmd}, seq : {a.seq, b.seq}, ret : {a.ret, b.ret},
                cities : {a.cities, b.cities}] \cup {Garbage}

\* SendMsg: SerializeToArray begins, while others may be at it (a race),
SerializeBegin(c) ==
    /\ At(c, "answer")
    /\ "race" \in Faults \/ \A d \in ClientIds : ~At(d, "write") /\ ~At(d, "send")
    /\ Goto(c, "write", client[c].answer)
    /\ IF \E d \in ClientIds \ {c} : At(d, "write")
       THEN send_buf' \in Mixed(client[c].answer, send_buf)
       ELSE send_buf' = client[c].answer
    /\ UNCHANGED <<links, sg_data, free_client_list, sent, got, lost>>

\* ends,
SerializeEnd(c) ==
    /\ At(c, "write")
    /\ Goto(c, "send", client[c].answer)
    /\ UNCHANGED <<links, sg_data, free_client_list, send_buf, sent, got, lost>>

\* and zmq_send takes as many bytes as this thread's message has.
Send(c) == /\ At(c, "send")
           /\ \E b \in IF send_buf = client[c].answer THEN {send_buf}
                       ELSE Mixed(client[c].answer, send_buf) :
                  d2g' = Push(d2g, <<b>>)
           /\ Goto(c, "push", NoAnswer)
           /\ UNCHANGED <<c2g, g2c, g2d, asked, answered, sg_data, free_client_list,
                          send_buf, sent, got, lost>>

PushFreeClient(c) ==
    /\ At(c, "push")
    /\ client' = [client EXCEPT ![c] = Idle]
    /\ free_client_list' = Append(free_client_list, c)
    /\ UNCHANGED <<links, sg_data, send_buf, sent, got, lost>>

Works(c) == Query(c) \/ QueryNoResult(c) \/ QueryRepeated(c) \/ PingFails(c)
ThreadLoop(c) == \/ Works(c)
                 \/ SerializeBegin(c) \/ SerializeEnd(c) \/ Send(c)
                 \/ PushFreeClient(c)

-----------------------------------------------------------------------------
(* gamesvr *)

Ask(m) == /\ m \notin sent
          /\ Len(g2d) < Hwm
          /\ sent' = sent \cup {m}
          /\ g2d' = Append(g2d, m)
          /\ UNCHANGED <<c2g, g2c, d2g, asked, answered, sg_data, free_client_list,
                         client, send_buf, got, lost>>

Receive == /\ d2g # <<>>
           /\ got' = Append(got, Head(d2g))
           /\ d2g' = Tail(d2g)
           /\ UNCHANGED <<c2g, g2c, g2d, asked, answered, sg_data, free_client_list,
                          client, send_buf, sent, lost>>

Next == \/ Run \/ RunIdle
        \/ \E c \in ClientIds : ThreadLoop(c)
        \/ \E m \in Requests : Ask(m)
        \/ Receive

Spec == Init /\ [][Next]_vars

\* The main loop polls its socket, each thread goes on, gamesvr receives.
FairSpec == /\ Spec
            /\ WF_vars(Run) /\ WF_vars(Receive)
            /\ \A c \in ClientIds : WF_vars(ThreadLoop(c))

-----------------------------------------------------------------------------
(* Properties *)

\* The free list holds the clients whose threads have nothing to do, each of
\* them once: Process never overwrites a request that a thread is working on.
ClientsExclusive ==
    /\ \A c \in ClientIds : At(c, "idle") <=>
           \E k \in DOMAIN free_client_list : free_client_list[k] = c
    /\ \A j, k \in DOMAIN free_client_list :
           free_client_list[j] = free_client_list[k] => j = k

\* README, section 4: the answer to a request brings its id back as it was.
\* Every message gamesvr gets or will get answers one of its requests, and no
\* two of them the same.
IdsEchoed ==
    LET all == got \o d2g
    IN  /\ \A k \in DOMAIN all : \E m \in sent : all[k].seq = m.seq /\ all[k].cmd = m.cmd
        /\ \A j, k \in DOMAIN all : all[j].seq = all[k].seq => j = k

\* datasvr keeps what DataService promises gamesvr.  (No two requests are equal.)
Jobs == {[request |-> client[c].request, nth |-> 1, answer |-> client[c].answer] :
            c \in {d \in ClientIds : client[d].pc \in {"told", "answer", "write", "send"}}}
Service == INSTANCE DataService WITH jobs <- Jobs
ImplementsService == Service!DataSpec

\* Every request is answered, if its thread does not lose the server, and as
\* long as there is a client left to take it.
EveryRequestAnswered ==
    \A m \in Requests :
        m \in sent ~> \/ \E k \in DOMAIN got : got[k].seq = m.seq
                     \/ m \in lost
                     \/ \A c \in ClientIds : At(c, "stuck")

\* Every client comes back to the list, unless Ping could not reach the server.
ClientsReturn ==
    \A c \in ClientIds :
        ~At(c, "idle") ~> At(c, "idle") \/ (At(c, "stuck") /\ client[c].request \in lost)
=============================================================================
