----------------------------- MODULE DataService -----------------------------
(***************************************************************************)
(* What gamesvr may assume of datasvr: requests are taken in order and each  *)
(* given to one of Clients MySQL clients, a thread each, which executes its  *)
(* statement on the table sg_data and sends one answer, after the others or  *)
(* before them; or none.                                                   *)
(***************************************************************************)
EXTENDS Links

CONSTANTS Clients,   \* the size of the pool of MySQL clients
          Rows       \* the accounts in sg_data at the start: uid -> password

ASSUME DataServiceAssumption == Clients \in Nat \ {0}

VARIABLES sg_data,  \* uid -> its row: password_hash, and cities in player_data
          jobs      \* the requests the threads work on, equal ones numbered

datasvr == <<sg_data, jobs>>

DataInit == /\ sg_data = [u \in DOMAIN Rows |->
                            [password_hash |-> Rows[u], cities |-> 1]]
            /\ jobs = {}

\* The answer of a job whose statement is not executed yet; a job that works on
\* m, one like the other; the lowest number no job on m has.
NoAnswer == FromData("NONE", 0, 0, 0)
Job(m) == CHOOSE j \in jobs : j.request = m /\ j.answer = NoAnswer
Unused(m) == {n \in 1..Clients : \A j \in jobs : j.request = m => j.nth # n}
Number(m) == CHOOSE n \in Unused(m) : \A k \in Unused(m) : n <= k

\* MsgModule::Run: a request for a free client.
Take == /\ g2d # <<>>
        /\ Cardinality(jobs) < Clients
        /\ jobs' = jobs \cup {[request |-> Head(g2d), nth |-> Number(Head(g2d)),
                              answer |-> NoAnswer]}
        /\ g2d' = Tail(g2d)
        /\ UNCHANGED <<c2g, g2c, d2g, asked, answered, sg_data>>

\* The answer to m is known; it is sent later.
Answered(m, ret, n) ==
    /\ jobs' = (jobs \ {Job(m)})
                 \cup {[Job(m) EXCEPT !.answer = FromData(m.cmd, m.seq, ret, n)]}
    /\ UNCHANGED links

\* The table after a statement: INSERT, for a uid without a row.
Insert(m) == [u \in DOMAIN sg_data \cup {m.uid} |->
                 IF u = m.uid THEN [password_hash |-> m.pw, cities |-> m.cities]
                 ELSE sg_data[u]]
\* UPDATE ... WHERE uid = ..., which may match no row.
Update(m) == [u \in DOMAIN sg_data |->
                 IF u = m.uid THEN [sg_data[u] EXCEPT !.cities = m.cities]
                 ELSE sg_data[u]]

\* Mutants: REPLACE in place of INSERT; an INSERT that fails is not answered.
MutRegReplaces(m) == m.cmd = "REG" /\ Answered(m, 0, 0) /\ sg_data' = Insert(m)
MutRegSilent(m) == /\ m.cmd = "REG"
                   /\ IF m.uid \in DOMAIN sg_data
                      THEN jobs' = jobs \ {Job(m)} /\ UNCHANGED <<links, sg_data>>
                      ELSE Answered(m, 0, 0) /\ sg_data' = Insert(m)

Reg(m) == /\ m.cmd = "REG"
          /\ IF m.uid \in DOMAIN sg_data
             THEN Answered(m, -2, 0) /\ UNCHANGED sg_data
             ELSE Answered(m, 0, 0) /\ sg_data' = Insert(m)

\* SELECT player_data WHERE uid = ... AND password_hash = ...
Get(m) == /\ m.cmd = "GET"
          /\ IF m.uid \in DOMAIN sg_data /\ sg_data[m.uid].password_hash = m.pw
             THEN Answered(m, 0, sg_data[m.uid].cities)
             ELSE Answered(m, -1, 0)
          /\ UNCHANGED sg_data

Set(m) == m.cmd = "SET" /\ Answered(m, 0, 0) /\ sg_data' = Update(m)

\* The statement is executed, but its result cannot be had.
Fail(m) == /\ "refused" \in Faults
           /\ m.cmd = "GET"
           /\ Answered(m, -1, 0)
           /\ UNCHANGED sg_data

\* The client loses the server, and no answer is sent.  When it is connected
\* again, the statement is executed once more, and its result not looked at.
Lose(m) == /\ "lost" \in Faults
           /\ jobs' = jobs \ {Job(m)}
           /\ \/ UNCHANGED sg_data
              \/ m.cmd = "REG" /\ m.uid \notin DOMAIN sg_data /\ sg_data' = Insert(m)
              \/ m.cmd = "SET" /\ sg_data' = Update(m)
           /\ UNCHANGED links

\* SendMsg.
Reply(j) == /\ j.answer # NoAnswer
            /\ d2g' = Push(d2g, <<j.answer>>)
            /\ jobs' = jobs \ {j}
            /\ UNCHANGED <<c2g, g2c, g2d, asked, answered, sg_data>>

Works(m) == Reg(m) \/ Get(m) \/ Set(m) \/ Fail(m) \/ Lose(m)
DataNext == \/ Take
            \/ \E j \in jobs : \/ j.answer = NoAnswer /\ Works(j.request)
                               \/ Reply(j)

\* What gamesvr does meanwhile: it sends a request, or receives an answer.
Environment == /\ UNCHANGED datasvr
               /\ \/ d2g # <<>> /\ d2g' = Tail(d2g) /\ UNCHANGED g2d
                  \/ g2d = SubSeq(g2d', 1, Len(g2d)) /\ UNCHANGED d2g
               /\ UNCHANGED <<c2g, g2c, asked, answered>>

DataSpec == DataInit /\ [][DataNext \/ Environment]_<<links, datasvr>>

DataTypeOK == /\ \A u \in DOMAIN sg_data : sg_data[u].cities \in Nat
              /\ Cardinality(jobs) <= Clients
=============================================================================
