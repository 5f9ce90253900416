---------------------------- MODULE DataSvrProofs ----------------------------
(***************************************************************************)
(* Proofs about datasvr's threads, for any number of them, all requests and *)
(* all faults, the race for the send buffer among them.                    *)
(***************************************************************************)
EXTENDS DataSvr, LinksProofs

Listed(c) == \E k \in DOMAIN free_client_list : free_client_list[k] = c

\* The invariant behind ClientsExclusive: what the list and the threads are.
ListInv == /\ free_client_list \in Seq(ClientIds)
           /\ DOMAIN client = ClientIds
           /\ ClientsExclusive

-----------------------------------------------------------------------------
(* Lists without repetition. *)

NoRepetition(s) == \A j, k \in DOMAIN s : s[j] = s[k] => j = k

\* Append of what is not there.
LEMMA AppendNew ==
    ASSUME NEW S, NEW s \in Seq(S), NEW e \in S,
           NoRepetition(s), \A k \in DOMAIN s : s[k] # e
    PROVE  /\ Append(s, e) \in Seq(S)
           /\ NoRepetition(Append(s, e))
           /\ \A x : (\E k \in DOMAIN Append(s, e) : Append(s, e)[k] = x)
                       <=> (x = e \/ \E k \in DOMAIN s : s[k] = x)
<1>1. /\ Append(s, e) \in Seq(S)
      /\ Len(Append(s, e)) = Len(s) + 1
      /\ \A k \in 1..Len(s) : Append(s, e)[k] = s[k]
      /\ Append(s, e)[Len(s) + 1] = e
  OBVIOUS
<1>2. /\ DOMAIN s = 1..Len(s) /\ Len(s) \in Nat
      /\ DOMAIN Append(s, e) = 1..Len(s) + 1
  BY <1>1
<1> DEFINE t == Append(s, e)
<1> HIDE DEF t
<1>3. NoRepetition(t)
  <2> SUFFICES ASSUME NEW j \in 1..Len(s) + 1, NEW k \in 1..Len(s) + 1, t[j] = t[k]
               PROVE  j = k
    BY <1>2 DEF NoRepetition, t
  <2>1. CASE j \in 1..Len(s) /\ k \in 1..Len(s)
    BY <1>1, <1>2, <2>1 DEF NoRepetition, t
  <2>2. CASE j = Len(s) + 1 \/ k = Len(s) + 1
    BY <1>1, <1>2, <2>2 DEF t
  <2> QED
    BY <1>2, <2>1, <2>2
<1>4. ASSUME NEW x
      PROVE  (\E k \in DOMAIN t : t[k] = x) <=> (x = e \/ \E k \in DOMAIN s : s[k] = x)
  BY <1>1, <1>2 DEF t
<1> QED
  BY <1>1, <1>3, <1>4 DEF t

\* The rest of a list has what the list has but its head.
LEMMA TailWithout ==
    ASSUME NEW S, NEW s \in Seq(S), s # <<>>, NoRepetition(s)
    PROVE  /\ Head(s) \in S
           /\ \E k \in DOMAIN s : s[k] = Head(s)
           /\ Tail(s) \in Seq(S)
           /\ NoRepetition(Tail(s))
           /\ \A x : (\E k \in DOMAIN Tail(s) : Tail(s)[k] = x)
                       <=> (x # Head(s) /\ \E k \in DOMAIN s : s[k] = x)
<1>1. /\ Len(s) \in Nat \ {0} /\ DOMAIN s = 1..Len(s)
      /\ Head(s) = s[1] /\ Head(s) \in S
      /\ Tail(s) \in Seq(S) /\ Len(Tail(s)) = Len(s) - 1
      /\ DOMAIN Tail(s) = 1..Len(s) - 1
      /\ \A k \in 1..Len(s) - 1 : Tail(s)[k] = s[k + 1]
  OBVIOUS
<1>2. NoRepetition(Tail(s))
  <2> SUFFICES ASSUME NEW j \in 1..Len(s) - 1, NEW k \in 1..Len(s) - 1,
                      Tail(s)[j] = Tail(s)[k]
               PROVE  j = k
    BY <1>1 DEF NoRepetition
  <2>1. s[j + 1] = s[k + 1] /\ j + 1 \in DOMAIN s /\ k + 1 \in DOMAIN s
    BY <1>1
  <2> QED
    BY <2>1 DEF NoRepetition
<1>3. ASSUME NEW x
      PROVE  (\E k \in DOMAIN Tail(s) : Tail(s)[k] = x)
                <=> (x # Head(s) /\ \E k \in DOMAIN s : s[k] = x)
  <2>1. ASSUME NEW k \in 1..Len(s) - 1, Tail(s)[k] = x
        PROVE  x # Head(s) /\ \E i \in DOMAIN s : s[i] = x
    <3>1. s[k + 1] = x /\ k + 1 \in DOMAIN s /\ 1 \in DOMAIN s /\ k + 1 # 1
      BY <1>1, <2>1
    <3> QED
      BY <1>1, <3>1 DEF NoRepetition
  <2>2. ASSUME NEW k \in 1..Len(s), s[k] = x, x # Head(s)
        PROVE  \E i \in DOMAIN Tail(s) : Tail(s)[i] = x
    <3>1. k - 1 \in 1..Len(s) - 1 /\ k - 1 + 1 = k
      BY <1>1, <2>2
    <3>2. Tail(s)[k - 1] = x
      BY <1>1, <2>2, <3>1
    <3> QED
      BY <1>1, <3>1, <3>2
  <2> QED
    BY <1>1, <2>1, <2>2
<1>4. \E k \in DOMAIN s : s[k] = Head(s)
  BY <1>1
<1> QED
  BY <1>1, <1>2, <1>3, <1>4

-----------------------------------------------------------------------------
(* ListInv, action by action. *)

\* ClientsExclusive in the words of this module.
LEMMA Exclusive == ClientsExclusive <=>
    /\ \A c \in ClientIds : At(c, "idle") <=> Listed(c)
    /\ NoRepetition(free_client_list)
  BY DEF ClientsExclusive, Listed, NoRepetition

LEMMA ListInit == Init => ListInv
<1> SUFFICES ASSUME Init PROVE ListInv
  OBVIOUS
<1>1. ClientIds = 1..Clients /\ Clients \in Nat
  BY DataSvrAssumption DEF ClientIds
<1>2. free_client_list = [k \in 1..Clients |-> k]
  BY <1>1 DEF Init
<1>3. /\ free_client_list \in Seq(ClientIds)
      /\ DOMAIN free_client_list = ClientIds
      /\ \A k \in ClientIds : free_client_list[k] = k
  BY <1>1, <1>2
<1>4. DOMAIN client = ClientIds /\ \A c \in ClientIds : At(c, "idle")
  BY DEF Init, Idle, At
<1> QED
  BY <1>3, <1>4 DEF ListInv, ClientsExclusive

\* Run takes the head of the list, whose thread has nothing to do.
LEMMA ListRun == ListInv /\ Run => ListInv'
<1> SUFFICES ASSUME ListInv, Run PROVE ListInv'
  OBVIOUS
<1> DEFINE h == Head(free_client_list)
<1>1. /\ free_client_list \in Seq(ClientIds) /\ free_client_list # <<>>
      /\ NoRepetition(free_client_list)
      /\ free_client_list' = Tail(free_client_list)
  BY Exclusive DEF ListInv, Run
<1>2. /\ h \in ClientIds
      /\ free_client_list' \in Seq(ClientIds)
      /\ NoRepetition(free_client_list')
      /\ \A c : Listed(c)' <=> (c # h /\ Listed(c))
  BY <1>1, TailWithout DEF Listed
<1>3. /\ DOMAIN client' = ClientIds
      /\ client'[h].pc = "told"
      /\ \A c \in ClientIds \ {h} : client'[c] = client[c]
  BY <1>2 DEF Run, ListInv
<1> HIDE DEF h
<1>4. ASSUME NEW c \in ClientIds PROVE At(c, "idle")' <=> Listed(c)'
  <2>1. CASE c = h
    BY <1>2, <1>3, <2>1 DEF At
  <2>2. CASE c # h
    BY <1>2, <1>3, <2>2, Exclusive DEF At, ListInv
  <2> QED
    BY <2>1, <2>2
<1>5. /\ \A c \in ClientIds : At(c, "idle")' <=> Listed(c)'
      /\ NoRepetition(free_client_list)'
  BY <1>2, <1>4
<1>6. ClientsExclusive'
  BY <1>5 DEF ClientsExclusive, Listed, NoRepetition
<1> QED
  BY <1>2, <1>3, <1>6 DEF ListInv

\* RunIdle moves the head of the list to its end.
LEMMA ListRunIdle == ListInv /\ RunIdle => ListInv'
<1> SUFFICES ASSUME ListInv, RunIdle PROVE ListInv'
  OBVIOUS
<1> DEFINE h == Head(free_client_list)
           rest == Tail(free_client_list)
<1>1. /\ free_client_list \in Seq(ClientIds) /\ free_client_list # <<>>
      /\ NoRepetition(free_client_list)
      /\ free_client_list' = Append(rest, h)
  BY Exclusive DEF ListInv, RunIdle
<1>2. /\ h \in ClientIds /\ Listed(h)
      /\ rest \in Seq(ClientIds) /\ NoRepetition(rest)
      /\ \A c : (\E k \in DOMAIN rest : rest[k] = c) <=> (c # h /\ Listed(c))
  BY <1>1, TailWithout DEF Listed
<1>3. \A k \in DOMAIN rest : rest[k] # h
  BY <1>2
<1> HIDE DEF h, rest
<1>4. /\ Append(rest, h) \in Seq(ClientIds)
      /\ NoRepetition(Append(rest, h))
      /\ \A c : (\E k \in DOMAIN Append(rest, h) : Append(rest, h)[k] = c)
                   <=> (c = h \/ \E k \in DOMAIN rest : rest[k] = c)
  BY <1>2, <1>3, AppendNew
<1>5. \A c : Listed(c)' <=> Listed(c)
  BY <1>1, <1>2, <1>4 DEF Listed
<1>6. client' = client
  BY DEF RunIdle
<1>7. /\ \A c \in ClientIds : At(c, "idle")' <=> Listed(c)'
      /\ NoRepetition(free_client_list)'
  BY <1>1, <1>4, <1>5, <1>6, Exclusive DEF At, ListInv
<1>8. ClientsExclusive'
  BY <1>7 DEF ClientsExclusive, Listed, NoRepetition
<1> QED
  BY <1>1, <1>4, <1>6, <1>8 DEF ListInv

\* A thread that is not idle goes on, and stays off the list.
LEMMA ListGoto ==
    ASSUME ListInv, NEW c \in ClientIds, ~At(c, "idle"), NEW pc, pc # "idle", NEW answer,
           Goto(c, pc, answer), UNCHANGED free_client_list
    PROVE  ListInv'
<1>1. /\ DOMAIN client' = ClientIds
      /\ client'[c].pc = pc
      /\ \A d \in ClientIds \ {c} : client'[d] = client[d]
  BY DEF Goto, ListInv
<1>2. \A d \in ClientIds : At(d, "idle")' <=> At(d, "idle")
  BY <1>1 DEF At
<1> QED
  BY <1>1, <1>2 DEF ListInv, ClientsExclusive

\* PushFreeClient: the thread is idle, and was not on the list.
LEMMA ListPush == ASSUME ListInv, NEW c \in ClientIds, PushFreeClient(c) PROVE ListInv'
<1>1. /\ free_client_list \in Seq(ClientIds) /\ NoRepetition(free_client_list)
      /\ free_client_list' = Append(free_client_list, c)
  BY Exclusive DEF ListInv, PushFreeClient
<1>2. ~Listed(c)
  BY Exclusive DEF ListInv, PushFreeClient, At
<1>3. /\ free_client_list' \in Seq(ClientIds)
      /\ NoRepetition(free_client_list')
      /\ \A d : Listed(d)' <=> (d = c \/ Listed(d))
  BY <1>1, <1>2, AppendNew DEF Listed
<1>4. /\ DOMAIN client' = ClientIds
      /\ client'[c].pc = "idle"
      /\ \A d \in ClientIds \ {c} : client'[d] = client[d]
  BY DEF PushFreeClient, ListInv, Idle
<1>5. ASSUME NEW d \in ClientIds PROVE At(d, "idle")' <=> Listed(d)'
  <2>1. CASE d = c
    BY <1>3, <1>4, <2>1 DEF At
  <2>2. CASE d # c
    BY <1>3, <1>4, <2>2, Exclusive DEF At, ListInv
  <2> QED
    BY <2>1, <2>2
<1>6. ClientsExclusive'
  BY <1>3, <1>5 DEF ClientsExclusive, Listed, NoRepetition
<1> QED
  BY <1>3, <1>4, <1>6 DEF ListInv

LEMMA ListStep == ListInv /\ [Next]_vars => ListInv'
<1> SUFFICES ASSUME ListInv, [Next]_vars PROVE ListInv'
  OBVIOUS
<1>1. CASE UNCHANGED <<free_client_list, client>>
  BY <1>1 DEF ListInv, ClientsExclusive, At
<1>2. CASE Run
  BY <1>2, ListRun
<1>3. CASE RunIdle
  BY <1>3, ListRunIdle
<1>4. ASSUME NEW c \in ClientIds, ThreadLoop(c) PROVE ListInv'
  <2>1. CASE Query(c)
    BY <2>1, ListGoto DEF Query, At
  <2>2. CASE QueryNoResult(c)
    BY <2>2, ListGoto DEF QueryNoResult, At
  <2>3. CASE QueryRepeated(c)
    BY <2>3, ListGoto DEF QueryRepeated, At
  <2>4. CASE PingFails(c)
    BY <2>4, ListGoto DEF PingFails, At
  <2>5. CASE SerializeBegin(c)
    BY <2>5, ListGoto DEF SerializeBegin, At
  <2>6. CASE SerializeEnd(c)
    BY <2>6, ListGoto DEF SerializeEnd, At
  <2>7. CASE Send(c)
    BY <2>7, ListGoto DEF Send, At
  <2>8. CASE PushFreeClient(c)
    BY <2>8, ListPush
  <2> QED
    BY <1>4, <2>1, <2>2, <2>3, <2>4, <2>5, <2>6, <2>7, <2>8 DEF ThreadLoop, Works
<1>5. CASE Receive \/ \E m \in Requests : Ask(m)
  BY <1>1, <1>5 DEF Receive, Ask
<1>6. CASE UNCHANGED vars
  BY <1>1, <1>6 DEF vars
<1> QED
  BY <1>2, <1>3, <1>4, <1>5, <1>6 DEF Next

\* A client is on the free list if and only if its thread has nothing to do,
\* and once: Process never overwrites the request of a thread at work, though
\* threads fail, reconnect, get stuck, or meet at the send buffer.
THEOREM ClientsNeverShared == Spec => []ClientsExclusive
<1>1. ListInv => ClientsExclusive
  BY DEF ListInv
<1> QED
  BY <1>1, ListInit, ListStep, PTL DEF Spec

-----------------------------------------------------------------------------
(* The requests and the threads at work on them *)

\* A thread at work, its job, and what it may look like; a row of the table.
Working(c) == client[c].pc \in {"told", "answer", "write", "send"}
JobOf(c) == [request |-> client[c].request, nth |-> 1, answer |-> client[c].answer]
IsThread(t) ==
    /\ t = [pc |-> t.pc, request |-> t.request, answer |-> t.answer]
    /\ t.pc = "told" => t.answer = NoAnswer
    /\ t.pc \in {"answer", "write", "send"} =>
           t.answer.seq = t.request.seq /\ t.answer.cmd = t.request.cmd
IsRow(r) == r = [password_hash |-> r.password_hash, cities |-> r.cities]

\* A request that was sent is on the queue once, or one thread is at work on it, or
\* neither.
ThreadInv ==
    /\ sent \subseteq Requests
    /\ Queue(g2d) /\ Msgs(g2d) \subseteq sent
    /\ \A i, j \in DOMAIN g2d : g2d[i] = g2d[j] => i = j
    /\ DOMAIN client = ClientIds
    /\ \A c \in ClientIds : IsThread(client[c])
    /\ \A c \in ClientIds : Working(c) => client[c].request \in sent \ Msgs(g2d)
    /\ \A c, d \in ClientIds :
           Working(c) /\ Working(d) /\ client[c].request = client[d].request => c = d
    /\ sg_data = [u \in DOMAIN sg_data |-> sg_data[u]]
    /\ \A u \in DOMAIN sg_data : IsRow(sg_data[u])

\* One thread goes on with its request.
Goes(c, pc, answer) ==
    /\ Working(c) /\ Goto(c, pc, answer)
    /\ pc = "told" => answer = NoAnswer
    /\ pc \in {"answer", "write", "send"} =>
           answer.seq = client[c].request.seq /\ answer.cmd = client[c].request.cmd

LEMMA GoesKeeps ==
    ASSUME ThreadInv, NEW c \in ClientIds, NEW pc, NEW answer, Goes(c, pc, answer),
           UNCHANGED <<sent, g2d>>,
           sg_data' = [u \in DOMAIN sg_data' |-> sg_data'[u]],
           \A u \in DOMAIN sg_data' : IsRow(sg_data'[u])
    PROVE  ThreadInv'
<1>1. /\ DOMAIN client' = ClientIds
      /\ client'[c] = [pc |-> pc, request |-> client[c].request, answer |-> answer]
      /\ \A d \in ClientIds \ {c} : client'[d] = client[d]
  BY DEF Goes, Goto, ThreadInv
<1>2. \A d \in ClientIds : client'[d].request = client[d].request /\ (Working(d)' => Working(d))
  BY <1>1 DEF Goes, Working
<1>3. IsThread(client'[c])
  BY <1>1 DEF Goes, IsThread
<1>4. \A d \in ClientIds : IsThread(client'[d])
  BY <1>1, <1>3 DEF ThreadInv
<1> QED
  BY <1>1, <1>2, <1>4 DEF ThreadInv

\* The table after a statement has rows, like the table before it.
LEMMA RowsKept ==
    ASSUME ThreadInv, NEW m
    PROVE  /\ Executed(m) = [u \in DOMAIN Executed(m) |-> Executed(m)[u]]
           /\ \A u \in DOMAIN Executed(m) : IsRow(Executed(m)[u])
<1>1. CASE Inserts(m)
  BY <1>1 DEF Executed, ThreadInv, IsRow
<1>2. CASE ~Inserts(m)
  BY <1>2 DEF Executed, ThreadInv, IsRow
<1> QED
  BY <1>1, <1>2

\* What the answers of datasvr are.
LEMMA AnswersEcho ==
    ASSUME ThreadInv, NEW c \in ClientIds, Working(c), NEW m, m = client[c].request
    PROVE  /\ m.cmd \in {"GET", "REG", "SET"}
           /\ AnswerTo(m).seq = m.seq /\ AnswerTo(m).cmd = m.cmd
<1>1. m.cmd \in {"GET", "REG", "SET"}
  BY DataSvrAssumption DEF ThreadInv
<1>2. CASE m.cmd = "GET"
  BY <1>2 DEF AnswerTo, Selects, FromData
<1>3. CASE m.cmd = "REG"
  BY <1>3 DEF AnswerTo, Selects, FromData
<1>4. CASE m.cmd = "SET"
  BY <1>4 DEF AnswerTo, Selects, FromData
<1> QED
  BY <1>1, <1>2, <1>3, <1>4

LEMMA ThreadInit == Init => ThreadInv
<1> SUFFICES ASSUME Init PROVE ThreadInv
  OBVIOUS
<1>1. g2d = <<>> /\ sent = {}
  BY DEF Init, LinksInit
<1>2. Queue(g2d) /\ Msgs(g2d) = {} /\ DOMAIN g2d = {}
  BY <1>1, EmptyQueue
<1>3. /\ DOMAIN client = ClientIds
      /\ \A c \in ClientIds : client[c] = [pc |-> "idle", request |-> NoRequest,
                                           answer |-> NoAnswer]
  BY DEF Init, Idle
<1>4. \A c \in ClientIds : IsThread(client[c]) /\ ~Working(c)
  BY <1>3 DEF IsThread, Working
<1>5. /\ sg_data = [u \in DOMAIN sg_data |-> sg_data[u]]
      /\ \A u \in DOMAIN sg_data : IsRow(sg_data[u])
  BY DEF Init, IsRow
<1> QED
  BY <1>1, <1>2, <1>3, <1>4, <1>5 DEF ThreadInv

\* Run gives the head of the queue to a thread that has nothing to do.
LEMMA RunTakes ==
    ASSUME ListInv, Run
    PROVE  /\ g2d # <<>> /\ g2d' = Tail(g2d)
           /\ UNCHANGED <<sent, sg_data, d2g, got, send_buf>>
           /\ \E c \in ClientIds :
                /\ At(c, "idle")
                /\ DOMAIN client' = ClientIds
                /\ client'[c] = [pc |-> "told", request |-> Head(g2d), answer |-> NoAnswer]
                /\ \A d \in ClientIds \ {c} : client'[d] = client[d]
<1>1. free_client_list \in Seq(ClientIds) /\ free_client_list # <<>>
  BY DEF ListInv, Run
<1>2. PICK c \in ClientIds : c = Head(free_client_list)
  BY <1>1
<1>3. 1 \in DOMAIN free_client_list /\ free_client_list[1] = c
  BY <1>1, <1>2
<1>4. At(c, "idle")
  BY <1>3 DEF ListInv, ClientsExclusive
<1> QED
  BY <1>2, <1>4 DEF ListInv, Run

LEMMA ThreadRun == ASSUME ListInv, ThreadInv, Run PROVE ThreadInv'
<1>1. PICK c \in ClientIds :
          /\ At(c, "idle")
          /\ DOMAIN client' = ClientIds
          /\ client'[c] = [pc |-> "told", request |-> Head(g2d), answer |-> NoAnswer]
          /\ \A d \in ClientIds \ {c} : client'[d] = client[d]
  BY RunTakes
<1>2. g2d # <<>> /\ g2d' = Tail(g2d) /\ UNCHANGED <<sent, sg_data>>
  BY RunTakes
<1>3. /\ Queue(g2d') /\ Head(g2d) \in Msgs(g2d)
      /\ Msgs(g2d) = Msgs(g2d') \cup {Head(g2d)}
  BY <1>2, TailMsgs DEF ThreadInv
<1>4. /\ \A i, j \in DOMAIN g2d' : g2d'[i] = g2d'[j] => i = j
      /\ Head(g2d) \notin Msgs(g2d')
  <2>1. PICK S : g2d \in Seq(S)
    BY DEF ThreadInv, Queue, IsSeq
  <2>2. /\ DOMAIN g2d = 1..Len(g2d) /\ Len(g2d) \in Nat /\ Len(g2d) > 0
        /\ DOMAIN g2d' = 1..Len(g2d) - 1
        /\ \A i \in DOMAIN g2d' : g2d'[i] = g2d[i + 1] /\ i + 1 \in DOMAIN g2d /\ i \in Nat
        /\ Head(g2d) = g2d[1] /\ 1 \in DOMAIN g2d
    BY <1>2, <2>1
  <2>3. \A i, j \in DOMAIN g2d : g2d[i] = g2d[j] => i = j
    BY DEF ThreadInv
  <2>4. \A i, j \in DOMAIN g2d' : g2d'[i] = g2d'[j] => i = j
    <3> TAKE i, j \in DOMAIN g2d'
    <3>1. g2d'[i] = g2d'[j] => i + 1 = j + 1
      BY <2>2, <2>3
    <3> QED
      BY <2>2, <3>1
  <2>5. \A i \in DOMAIN g2d' : g2d'[i] # Head(g2d)
    <3> TAKE i \in DOMAIN g2d'
    <3>1. g2d'[i] = Head(g2d) => i + 1 = 1
      BY <2>2, <2>3
    <3> QED
      BY <2>2, <3>1
  <2> QED
    BY <2>4, <2>5 DEF Msgs
<1>5. /\ client'[c].request = Head(g2d)
      /\ \A d \in ClientIds : Working(d)' <=> (d = c \/ Working(d))
  BY <1>1 DEF At, Working
<1>6. \A d \in ClientIds : IsThread(client'[d])
  <2>1. IsThread(client'[c])
    BY <1>1 DEF IsThread
  <2> QED
    BY <1>1, <2>1 DEF ThreadInv
<1>7. \A d \in ClientIds : Working(d)' => client'[d].request \in sent' \ Msgs(g2d')
  BY <1>1, <1>2, <1>3, <1>4, <1>5 DEF ThreadInv
<1>8. \A d, e \in ClientIds :
          Working(d)' /\ Working(e)' /\ client'[d].request = client'[e].request => d = e
  BY <1>1, <1>3, <1>5 DEF ThreadInv
<1> QED
  BY <1>1, <1>2, <1>3, <1>4, <1>6, <1>7, <1>8 DEF ThreadInv

\* Ask sends what has not been sent.
LEMMA ThreadAsk == ASSUME ThreadInv, NEW m \in Requests, Ask(m) PROVE ThreadInv'
<1>1. PICK S : g2d \in Seq(S)
  BY DEF ThreadInv, Queue, IsSeq
<1>2. /\ g2d' = Append(g2d, m) /\ Len(g2d) < Hwm /\ sent' = sent \cup {m} /\ m \notin sent
      /\ UNCHANGED <<client, sg_data>>
  BY DEF Ask
<1>3. /\ g2d' \in Seq(S \cup {m}) /\ Len(g2d') = Len(g2d) + 1
      /\ DOMAIN g2d' = 1..Len(g2d) + 1 /\ DOMAIN g2d = 1..Len(g2d) /\ Len(g2d) \in Nat
      /\ \A i \in DOMAIN g2d : g2d'[i] = g2d[i]
      /\ g2d'[Len(g2d) + 1] = m
  BY <1>1, <1>2
<1>4. Len(g2d') <= Hwm
  BY <1>2, <1>3, LinksAssumption
<1>5. \A i \in DOMAIN g2d' : i = Len(g2d) + 1 \/ i \in DOMAIN g2d
  BY <1>3
<1>6. \A i \in DOMAIN g2d : g2d[i] # m
  BY <1>2 DEF ThreadInv, Msgs
<1>7. \A i, j \in DOMAIN g2d' : g2d'[i] = g2d'[j] => i = j
  BY <1>3, <1>5, <1>6 DEF ThreadInv
<1>8. Msgs(g2d') = Msgs(g2d) \cup {m}
  BY <1>3, <1>5 DEF Msgs
<1>9. Queue(g2d')
  BY <1>3, <1>4 DEF Queue, IsSeq
<1> QED
  BY <1>2, <1>7, <1>8, <1>9 DEF ThreadInv, Working

\* What the steps of a thread are to its request.
LEMMA ThreadGoes ==
    ASSUME ThreadInv, NEW c \in ClientIds, ThreadLoop(c), ~PushFreeClient(c)
    PROVE  /\ \E pc, answer : Goes(c, pc, answer)
           /\ UNCHANGED <<sent, g2d, got>>
           /\ sg_data' = sg_data \/ sg_data' = Executed(client[c].request)
<1>1. CASE Query(c)
  <2>1. PICK m : m = client[c].request
    OBVIOUS
  <2>2. Working(c)
    BY <1>1 DEF Query, At, Working
  <2>3. AnswerTo(m).seq = m.seq /\ AnswerTo(m).cmd = m.cmd
    BY <2>1, <2>2, AnswersEcho
  <2>4. Goes(c, "answer", AnswerTo(m))
    BY <1>1, <2>1, <2>2, <2>3 DEF Query, Goes
  <2> QED
    BY <1>1, <2>4 DEF Query, links
<1>2. CASE QueryNoResult(c)
  <2>1. Goes(c, "answer", FromData("GET", client[c].request.seq, -1, 0))
    BY <1>2 DEF QueryNoResult, At, Working, Goes, FromData
  <2> QED
    BY <1>2, <2>1 DEF QueryNoResult, links
<1>3. CASE QueryRepeated(c)
  <2>1. Goes(c, "push", NoAnswer)
    BY <1>3 DEF QueryRepeated, At, Working, Goes
  <2> QED
    BY <1>3, <2>1 DEF QueryRepeated, links
<1>4. CASE PingFails(c)
  <2>1. Goes(c, "stuck", NoAnswer)
    BY <1>4 DEF PingFails, At, Working, Goes
  <2> QED
    BY <1>4, <2>1 DEF PingFails, links
<1>5. CASE SerializeBegin(c)
  <2>1. Goes(c, "write", client[c].answer)
    BY <1>5 DEF SerializeBegin, At, Working, Goes, ThreadInv, IsThread
  <2> QED
    BY <1>5, <2>1 DEF SerializeBegin, links
<1>6. CASE SerializeEnd(c)
  <2>1. Goes(c, "send", client[c].answer)
    BY <1>6 DEF SerializeEnd, At, Working, Goes, ThreadInv, IsThread
  <2> QED
    BY <1>6, <2>1 DEF SerializeEnd, links
<1>7. CASE Send(c)
  <2>1. Goes(c, "push", NoAnswer)
    BY <1>7 DEF Send, At, Working, Goes
  <2> QED
    BY <1>7, <2>1 DEF Send
<1> QED
  BY <1>1, <1>2, <1>3, <1>4, <1>5, <1>6, <1>7 DEF ThreadLoop, Works

\* A thread that is done with its request is not at work.
LEMMA ThreadPush ==
    ASSUME ThreadInv, NEW c \in ClientIds, PushFreeClient(c)
    PROVE  /\ ThreadInv'
           /\ ~Working(c) /\ ~Working(c)'
           /\ DOMAIN client' = ClientIds
           /\ \A d \in ClientIds \ {c} : client'[d] = client[d]
<1>1. /\ DOMAIN client' = ClientIds
      /\ client'[c] = [pc |-> "idle", request |-> NoRequest, answer |-> NoAnswer]
      /\ \A d \in ClientIds \ {c} : client'[d] = client[d]
      /\ UNCHANGED <<sent, g2d, sg_data>>
  BY DEF PushFreeClient, Idle, ThreadInv, links
<1>2. /\ \A d \in ClientIds : Working(d)' <=> Working(d)
      /\ ~Working(c) /\ ~Working(c)'
  BY <1>1 DEF Working, PushFreeClient, At
<1>3. IsThread(client'[c])
  BY <1>1 DEF IsThread
<1>4. \A d \in ClientIds : IsThread(client'[d])
  BY <1>1, <1>3 DEF ThreadInv
<1>5. \A d \in ClientIds : Working(d)' => client'[d] = client[d]
  BY <1>1, <1>2
<1> QED
  BY <1>1, <1>2, <1>4, <1>5 DEF ThreadInv

LEMMA ThreadStep == ListInv /\ ThreadInv /\ [Next]_vars => ThreadInv'
<1> SUFFICES ASSUME ListInv, ThreadInv, [Next]_vars PROVE ThreadInv'
  OBVIOUS
<1>1. CASE UNCHANGED <<sent, g2d, client, sg_data>>
  BY <1>1 DEF ThreadInv, Working
<1>2. CASE Run
  BY <1>2, ThreadRun
<1>3. CASE RunIdle \/ Receive \/ UNCHANGED vars
  BY <1>1, <1>3 DEF RunIdle, Receive, vars, links
<1>4. ASSUME NEW m \in Requests, Ask(m) PROVE ThreadInv'
  BY <1>4, ThreadAsk
<1>5. ASSUME NEW c \in ClientIds, ThreadLoop(c) PROVE ThreadInv'
  <2>1. CASE PushFreeClient(c)
    BY <2>1, ThreadPush
  <2>2. CASE ~PushFreeClient(c)
    <3>1. PICK pc, answer : Goes(c, pc, answer)
      BY <1>5, <2>2, ThreadGoes
    <3>2. /\ UNCHANGED <<sent, g2d>>
          /\ sg_data' = sg_data \/ sg_data' = Executed(client[c].request)
      BY <1>5, <2>2, ThreadGoes
    <3>3. PICK m : m = client[c].request
      OBVIOUS
    <3>4. /\ sg_data' = [u \in DOMAIN sg_data' |-> sg_data'[u]]
          /\ \A u \in DOMAIN sg_data' : IsRow(sg_data'[u])
      <4>1. CASE sg_data' = sg_data
        BY <4>1 DEF ThreadInv
      <4>2. CASE sg_data' = Executed(m)
        BY <4>2, RowsKept
      <4> QED
        BY <3>2, <3>3, <4>1, <4>2
    <3> QED
      BY <3>1, <3>2, <3>4, GoesKeeps
  <2> QED
    BY <2>1, <2>2
<1> QED
  BY <1>2, <1>3, <1>4, <1>5 DEF Next

-----------------------------------------------------------------------------
(* The send buffer, without the race *)

\* One thread at a time has the buffer, with its answer in it.
Sends(c) == client[c].pc \in {"write", "send"}
BufferInv == /\ \A c, d \in ClientIds : Sends(c) /\ Sends(d) => c = d
             /\ \A c \in ClientIds : Sends(c) => send_buf = client[c].answer

LEMMA BufferStep ==
    ASSUME "race" \notin Faults, ListInv, ThreadInv, BufferInv, [Next]_vars
    PROVE  BufferInv'
<1>1. CASE UNCHANGED <<client, send_buf>>
  BY <1>1 DEF BufferInv, Sends
<1>2. CASE Run
  <2>1. PICK c \in ClientIds :
            /\ client'[c] = [pc |-> "told", request |-> Head(g2d), answer |-> NoAnswer]
            /\ \A d \in ClientIds \ {c} : client'[d] = client[d]
    BY <1>2, RunTakes
  <2>2. ~Sends(c)' /\ \A d \in ClientIds : Sends(d)' => Sends(d) /\ client'[d] = client[d]
    BY <2>1 DEF Sends
  <2>3. send_buf' = send_buf
    BY <1>2 DEF Run
  <2> QED
    BY <2>2, <2>3 DEF BufferInv
<1>3. CASE RunIdle \/ Receive \/ UNCHANGED vars
  BY <1>1, <1>3 DEF RunIdle, Receive, vars
<1>4. ASSUME NEW m \in Requests, Ask(m) PROVE BufferInv'
  BY <1>1, <1>4 DEF Ask
<1>5. ASSUME NEW c \in ClientIds, NEW pc, pc \notin {"write", "send"}, NEW answer,
             Goto(c, pc, answer), UNCHANGED send_buf
      PROVE  BufferInv'
  <2>1. /\ client'[c] = [pc |-> pc, request |-> client[c].request, answer |-> answer]
        /\ \A d \in ClientIds \ {c} : client'[d] = client[d]
    BY <1>5 DEF Goto, ThreadInv
  <2>2. \A d \in ClientIds : Sends(d)' => Sends(d) /\ client'[d] = client[d]
    BY <1>5, <2>1 DEF Sends
  <2> QED
    BY <1>5, <2>2 DEF BufferInv
<1>6. ASSUME NEW c \in ClientIds, Works(c) \/ Send(c) PROVE BufferInv'
  BY <1>5, <1>6 DEF Works, Query, QueryNoResult, QueryRepeated, PingFails, Send
<1>7. ASSUME NEW c \in ClientIds, SerializeBegin(c) PROVE BufferInv'
  <2>1. \A d \in ClientIds : ~Sends(d)
    BY <1>7 DEF SerializeBegin, At, Sends
  <2>2. send_buf' = client[c].answer
    BY <1>7, <2>1 DEF SerializeBegin, At, Sends
  <2>3. /\ client'[c].answer = client[c].answer
        /\ \A d \in ClientIds \ {c} : client'[d] = client[d]
    BY <1>7 DEF SerializeBegin, Goto, ThreadInv
  <2>4. \A d \in ClientIds : Sends(d)' => d = c
    BY <2>1, <2>3 DEF Sends
  <2> QED
    BY <2>2, <2>3, <2>4 DEF BufferInv
<1>8. ASSUME NEW c \in ClientIds, SerializeEnd(c) PROVE BufferInv'
  <2>1. Sends(c) /\ send_buf' = send_buf
    BY <1>8 DEF SerializeEnd, At, Sends
  <2>2. /\ client'[c].answer = client[c].answer
        /\ \A d \in ClientIds \ {c} : client'[d] = client[d]
    BY <1>8 DEF SerializeEnd, Goto, ThreadInv
  <2>3. \A d \in ClientIds : Sends(d)' => Sends(d) /\ client'[d].answer = client[d].answer
    BY <2>1, <2>2 DEF Sends
  <2> QED
    BY <2>1, <2>3 DEF BufferInv
<1>9. ASSUME NEW c \in ClientIds, PushFreeClient(c) PROVE BufferInv'
  <2>1. /\ client'[c].pc = "idle" /\ send_buf' = send_buf
        /\ \A d \in ClientIds \ {c} : client'[d] = client[d]
    BY <1>9 DEF PushFreeClient, Idle, ThreadInv
  <2>2. \A d \in ClientIds : Sends(d)' => Sends(d) /\ client'[d] = client[d]
    BY <2>1 DEF Sends
  <2> QED
    BY <2>1, <2>2 DEF BufferInv
<1> QED
  BY <1>2, <1>3, <1>4, <1>6, <1>7, <1>8, <1>9 DEF Next, ThreadLoop

-----------------------------------------------------------------------------
(* datasvr implements DataService: the threads at work are the jobs *)

LEMMA JobsAre == \A j : j \in Jobs <=> \E c \in ClientIds : Working(c) /\ j = JobOf(c)
  BY DEF Jobs, Working, JobOf

\* When one thread goes on, one job can go and one can come.
LEMMA JobsChange ==
    ASSUME ThreadInv, NEW c \in ClientIds,
           \A d \in ClientIds \ {c} : client'[d] = client[d]
    PROVE  Jobs' = (Jobs \ (IF Working(c) THEN {JobOf(c)} ELSE {}))
                      \cup (IF Working(c)' THEN {JobOf(c)'} ELSE {})
<1>1. \A j : j \in Jobs' <=> \E d \in ClientIds : Working(d)' /\ j = JobOf(d)'
  BY DEF Jobs, Working, JobOf
<1>2. \A d \in ClientIds \ {c} : /\ Working(d)' <=> Working(d)
                                 /\ JobOf(d)' = JobOf(d)
  BY DEF Working, JobOf
<1>3. \A d \in ClientIds \ {c} : Working(d) /\ Working(c) => JobOf(d) # JobOf(c)
  BY DEF JobOf, ThreadInv
<1> QED
  BY <1>1, <1>2, <1>3, JobsAre

\* The job of a thread whose statement is not executed is the one on its request.
LEMMA JobFound ==
    ASSUME ThreadInv, NEW c \in ClientIds, At(c, "told"), NEW m, m = client[c].request
    PROVE  /\ JobOf(c) = [request |-> m, nth |-> 1, answer |-> NoAnswer]
           /\ JobOf(c) \in Jobs
           /\ Service!Job(m) = JobOf(c)
<1>1. Working(c) /\ client[c].answer = NoAnswer
  BY DEF At, Working, ThreadInv, IsThread
<1>2. JobOf(c) = [request |-> m, nth |-> 1, answer |-> NoAnswer]
  BY <1>1 DEF JobOf
<1>3. JobOf(c) \in Jobs
  BY <1>1, JobsAre
<1>4. \A j \in Jobs : j.request = m => j = JobOf(c)
  <2> SUFFICES ASSUME NEW j \in Jobs, j.request = m PROVE j = JobOf(c)
    OBVIOUS
  <2>1. PICK d \in ClientIds : Working(d) /\ j = JobOf(d)
    BY JobsAre
  <2>2. client[d].request = client[c].request
    BY <2>1 DEF JobOf
  <2> QED
    BY <1>1, <2>1, <2>2 DEF ThreadInv
<1>5. Service!Job(m) = CHOOSE j \in Jobs : j.request = m /\ j.answer = NoAnswer
  BY DEF Service!Job, Service!NoAnswer, NoAnswer, Service!FromData, FromData
<1>6. JobOf(c).request = m /\ JobOf(c).answer = NoAnswer
  BY <1>2
<1> HIDE DEF JobOf
<1>7. (CHOOSE j \in Jobs : j.request = m /\ j.answer = NoAnswer) = JobOf(c)
  BY <1>3, <1>4, <1>6
<1> QED
  BY <1>2, <1>3, <1>5, <1>7

\* Number is 1, as long as no job is on the request.
LEMMA FirstNumber ==
    ASSUME NEW m, \A j \in Jobs : j.request # m
    PROVE  Service!Number(m) = 1
<1>1. Clients \in Nat /\ Clients >= 1
  BY DataSvrAssumption
<1>2. Service!Unused(m) = 1..Clients
  BY DEF Service!Unused
<1>3. 1 \in 1..Clients /\ \A k \in 1..Clients : 1 <= k
  BY <1>1
<1>4. \A n \in 1..Clients : (\A k \in 1..Clients : n <= k) => n = 1
  BY <1>1, <1>3
<1>5. (CHOOSE n \in 1..Clients : \A k \in 1..Clients : n <= k) = 1
  BY <1>3, <1>4
<1> QED
  BY <1>2, <1>5 DEF Service!Number

\* Every job has a thread of its own, and thread c is not among them.
LEMMA JobsBounded ==
    ASSUME ThreadInv, NEW c \in ClientIds, ~Working(c)
    PROVE  Cardinality(Jobs) < Clients
<1> DEFINE T == ClientIds \ {c}
           Thread(j) == CHOOSE d \in T : Working(d) /\ j = JobOf(d)
           f == [j \in Jobs |-> Thread(j)]
<1>1. IsFiniteSet(ClientIds) /\ Cardinality(ClientIds) = Clients /\ Clients \in Nat
  BY DataSvrAssumption, FS_Interval DEF ClientIds
<1>2. IsFiniteSet(T) /\ Cardinality(T) = Clients - 1
  BY <1>1, FS_RemoveElement
<1>3. \A j \in Jobs : \E d \in T : Working(d) /\ j = JobOf(d)
  BY JobsAre
<1>4. \A j \in Jobs : Thread(j) \in T /\ j = JobOf(Thread(j))
  BY <1>3
<1>5. f \in [Jobs -> T] /\ \A j \in Jobs : f[j] = Thread(j)
  BY <1>4
<1> HIDE DEF f, Thread, T
<1>6. \A j, k \in Jobs : f[j] = f[k] => j = k
  BY <1>4, <1>5
<1>7. f \in Injection(Jobs, T)
  BY <1>5, <1>6 DEF Injection, IsInjective
<1>8. Cardinality(Jobs) <= Cardinality(T) /\ IsFiniteSet(Jobs)
  BY <1>2, <1>7, FS_Injection
<1>9. Cardinality(Jobs) \in Nat
  BY <1>8, FS_CardinalityType
<1> QED
  BY <1>1, <1>2, <1>8, <1>9

\* DataService's numbers of elements are those of this module.
LEMMA SameCardinality == \A S : Service!Cardinality(S) = Cardinality(S)
  BY DEF Service!Cardinality, Cardinality

\* Run is Take.
LEMMA RunIsTake == ASSUME ListInv, ThreadInv, Run PROVE Service!Take
<1>1. PICK c \in ClientIds :
          /\ At(c, "idle")
          /\ DOMAIN client' = ClientIds
          /\ client'[c] = [pc |-> "told", request |-> Head(g2d), answer |-> NoAnswer]
          /\ \A d \in ClientIds \ {c} : client'[d] = client[d]
  BY RunTakes
<1>2. ~Working(c) /\ Working(c)'
  BY <1>1 DEF At, Working
<1>3. PICK m : m = Head(g2d)
  OBVIOUS
<1>4. JobOf(c)' = [request |-> m, nth |-> 1, answer |-> NoAnswer]
  BY <1>1, <1>3 DEF JobOf
<1>5. Jobs' = Jobs \cup {[request |-> m, nth |-> 1, answer |-> NoAnswer]}
  BY <1>1, <1>2, <1>4, JobsChange
<1>6. \A j \in Jobs : j.request # m
  <2>1. m \in Msgs(g2d)
    BY <1>3, TailMsgs DEF ThreadInv, Run
  <2> QED
    BY <2>1, JobsAre DEF JobOf, ThreadInv
<1>7. Service!Number(m) = 1
  BY <1>6, FirstNumber
<1>8. Service!Cardinality(Jobs) < Clients
  BY <1>2, JobsBounded, SameCardinality
<1>9. Jobs' = Jobs \cup {[request |-> Head(g2d), nth |-> Service!Number(Head(g2d)),
                          answer |-> Service!NoAnswer]}
  BY <1>3, <1>5, <1>7 DEF Service!NoAnswer, NoAnswer, Service!FromData, FromData
<1>10. /\ g2d # <<>> /\ g2d' = Tail(g2d)
       /\ UNCHANGED <<c2g, g2c, d2g, asked, answered, sg_data>>
  BY DEF Run
<1> QED
  BY <1>8, <1>9, <1>10 DEF Service!Take

\* A thread that knows its answer is a job that is answered,
LEMMA AnswersJob ==
    ASSUME ThreadInv, NEW c \in ClientIds, At(c, "told"), NEW m, m = client[c].request,
           NEW ret, NEW n, Goto(c, "answer", FromData(m.cmd, m.seq, ret, n)),
           UNCHANGED links
    PROVE  Service!Answered(m, ret, n)
<1> DEFINE answer == FromData(m.cmd, m.seq, ret, n)
<1>1. /\ client'[c] = [pc |-> "answer", request |-> m, answer |-> answer]
      /\ \A d \in ClientIds \ {c} : client'[d] = client[d]
  BY DEF Goto, ThreadInv
<1> HIDE DEF answer
<1>2. Working(c) /\ Working(c)'
  BY <1>1 DEF At, Working
<1>3. JobOf(c)' = [request |-> m, nth |-> 1, answer |-> answer]
  BY <1>1 DEF JobOf
<1>4. /\ JobOf(c) = [request |-> m, nth |-> 1, answer |-> NoAnswer]
      /\ Service!Job(m) = JobOf(c)
  BY JobFound
<1>5. [JobOf(c) EXCEPT !.answer = answer] = [request |-> m, nth |-> 1, answer |-> answer]
  BY <1>4
<1>6. Jobs' = (Jobs \ {JobOf(c)}) \cup {JobOf(c)'}
  BY <1>1, <1>2, JobsChange
<1>7. Jobs' = (Jobs \ {Service!Job(m)}) \cup {[Service!Job(m) EXCEPT !.answer = answer]}
  BY <1>3, <1>4, <1>5, <1>6
<1>8. answer = Service!FromData(m.cmd, m.seq, ret, n)
  BY DEF answer, FromData, Service!FromData
<1> QED
  BY <1>7, <1>8 DEF Service!Answered, links, Service!links

\* ... and one that loses the server is a job that is lost.
LEMMA LosesJob ==
    ASSUME ThreadInv, NEW c \in ClientIds, At(c, "told"), NEW m, m = client[c].request,
           NEW pc, pc \in {"push", "stuck"}, Goto(c, pc, NoAnswer), UNCHANGED links,
           "lost" \in Faults, sg_data' \in {sg_data, Executed(m)}
    PROVE  Service!Lose(m)
<1>1. /\ client'[c] = [pc |-> pc, request |-> m, answer |-> NoAnswer]
      /\ \A d \in ClientIds \ {c} : client'[d] = client[d]
  BY DEF Goto, ThreadInv
<1>2. Working(c) /\ ~Working(c)'
  BY <1>1 DEF At, Working
<1>3. Jobs' = Jobs \ {Service!Job(m)}
  BY <1>1, <1>2, JobsChange, JobFound
<1>4. m.cmd \in {"GET", "REG", "SET"}
  BY <1>2, AnswersEcho
<1>5. sg_data = [u \in DOMAIN sg_data |-> sg_data[u]]
      /\ \A u \in DOMAIN sg_data : IsRow(sg_data[u])
  BY DEF ThreadInv
<1>6. CASE Inserts(m)
  BY <1>3, <1>6 DEF Service!Lose, Executed, Inserts, Service!Insert, links, Service!links
<1>7. CASE m.cmd = "SET"
  <2>1. Executed(m) = Service!Update(m)
    BY <1>5, <1>7 DEF Executed, Inserts, Service!Update, IsRow
  <2> QED
    BY <1>3, <1>7, <2>1 DEF Service!Lose, links, Service!links
<1>8. CASE ~Inserts(m) /\ m.cmd # "SET"
  <2>1. Executed(m) = sg_data
    BY <1>5, <1>8 DEF Executed
  <2> QED
    BY <1>3, <2>1 DEF Service!Lose, links, Service!links
<1> QED
  BY <1>6, <1>7, <1>8

\* Query is Reg, Get or Set; without a result, Fail.
LEMMA WorksIsWorks ==
    ASSUME ThreadInv, NEW c \in ClientIds, Works(c), NEW m, m = client[c].request
    PROVE  /\ At(c, "told")
           /\ \/ Service!Reg(m) \/ Service!Get(m) \/ Service!Set(m)
              \/ Service!Fail(m) \/ Service!Lose(m)
<1>1. At(c, "told")
  BY DEF Works, Query, QueryNoResult, QueryRepeated, PingFails
<1>2. Working(c)
  BY <1>1 DEF At, Working
<1>3. m.cmd \in {"GET", "REG", "SET"}
  BY <1>2, AnswersEcho
<1>4. sg_data = [u \in DOMAIN sg_data |-> sg_data[u]]
      /\ \A u \in DOMAIN sg_data : IsRow(sg_data[u])
  BY DEF ThreadInv
<1>5. CASE Query(c)
  <2>1. sg_data' = Executed(m) /\ Goto(c, "answer", AnswerTo(m)) /\ UNCHANGED links
    BY <1>5 DEF Query
  <2>2. \A ret, n : AnswerTo(m) = FromData(m.cmd, m.seq, ret, n) => Service!Answered(m, ret, n)
    BY <1>1, <2>1, AnswersJob
  <2>3. CASE m.cmd = "REG"
    <3>1. AnswerTo(m) = FromData("REG", m.seq, IF Inserts(m) THEN 0 ELSE -2, 0)
      BY <2>3 DEF AnswerTo, Selects
    <3>2. Service!Answered(m, IF Inserts(m) THEN 0 ELSE -2, 0)
      BY <2>2, <2>3, <3>1
    <3>3. CASE Inserts(m)
      BY <1>1, <2>1, <2>3, <3>2, <3>3
         DEF Service!Reg, Service!Insert, Inserts, Executed
    <3>4. CASE ~Inserts(m)
      <4>1. sg_data' = sg_data
        BY <1>4, <2>1, <2>3, <3>4 DEF Executed
      <4> QED
        BY <1>1, <2>3, <3>2, <3>4, <4>1 DEF Service!Reg, Inserts
    <3> QED
      BY <3>3, <3>4
  <2>4. CASE m.cmd = "GET"
    <3>1. sg_data' = sg_data
      BY <1>4, <2>1, <2>4 DEF Executed, Inserts
    <3>2. AnswerTo(m) = IF Selects(m) THEN FromData("GET", m.seq, 0, sg_data[m.uid].cities)
                        ELSE FromData("GET", m.seq, -1, 0)
      BY <2>4 DEF AnswerTo
    <3>3. IF Selects(m) THEN Service!Answered(m, 0, sg_data[m.uid].cities)
          ELSE Service!Answered(m, -1, 0)
      BY <2>2, <2>4, <3>2
    <3> QED
      BY <1>1, <2>4, <3>1, <3>3 DEF Service!Get, Selects
  <2>5. CASE m.cmd = "SET"
    <3>1. AnswerTo(m) = FromData("SET", m.seq, 0, 0)
      BY <2>5 DEF AnswerTo, Selects
    <3>2. Service!Answered(m, 0, 0)
      BY <2>2, <2>5, <3>1
    <3>3. Executed(m) = Service!Update(m)
      BY <1>4, <2>5 DEF Executed, Inserts, Service!Update, IsRow
    <3> QED
      BY <1>1, <2>1, <2>5, <3>2, <3>3 DEF Service!Set
  <2> QED
    BY <1>3, <2>3, <2>4, <2>5
<1>6. CASE QueryNoResult(c)
  <2>1. /\ "refused" \in Faults /\ m.cmd = "GET" /\ sg_data' = sg_data /\ UNCHANGED links
        /\ Goto(c, "answer", FromData(m.cmd, m.seq, -1, 0))
    BY <1>6 DEF QueryNoResult
  <2>2. Service!Answered(m, -1, 0)
    BY <1>1, <2>1, AnswersJob
  <2> QED
    BY <1>1, <2>1, <2>2 DEF Service!Fail
<1>7. CASE QueryRepeated(c) \/ PingFails(c)
  <2>1. /\ "lost" \in Faults /\ UNCHANGED links
        /\ sg_data' \in {sg_data, Executed(m)}
        /\ \E pc \in {"push", "stuck"} : Goto(c, pc, NoAnswer)
    BY <1>7 DEF QueryRepeated, PingFails
  <2>2. Service!Lose(m)
    BY <1>1, <2>1, LosesJob
  <2> QED
    BY <1>1, <2>2
<1> QED
  BY <1>1, <1>5, <1>6, <1>7 DEF Works

\* Nobody at DataService sees how an answer gets into the buffer, or that a thread
\* gets onto the list again.
LEMMA ThreadStutters ==
    ASSUME ThreadInv, NEW c \in ClientIds,
           SerializeBegin(c) \/ SerializeEnd(c) \/ PushFreeClient(c)
    PROVE  UNCHANGED <<links, sg_data, Jobs>>
<1>1. UNCHANGED <<links, sg_data>>
  BY DEF SerializeBegin, SerializeEnd, PushFreeClient
<1>2. CASE SerializeBegin(c) \/ SerializeEnd(c)
  <2>1. PICK pc \in {"write", "send"} : Goto(c, pc, client[c].answer)
    BY <1>2 DEF SerializeBegin, SerializeEnd
  <2>2. /\ client'[c] = [pc |-> pc, request |-> client[c].request, answer |-> client[c].answer]
        /\ \A d \in ClientIds \ {c} : client'[d] = client[d]
    BY <2>1 DEF Goto, ThreadInv
  <2>3. Working(c) /\ Working(c)'
    BY <1>2, <2>2 DEF SerializeBegin, SerializeEnd, At, Working
  <2>4. JobOf(c)' = JobOf(c) /\ JobOf(c) \in Jobs
    BY <2>2, <2>3, JobsAre DEF JobOf
  <2>5. Jobs' = (Jobs \ {JobOf(c)}) \cup {JobOf(c)'}
    BY <2>2, <2>3, JobsChange
  <2> QED
    BY <1>1, <2>4, <2>5
<1>3. CASE PushFreeClient(c)
  BY <1>1, <1>3, ThreadPush, JobsChange
<1> QED
  BY <1>2, <1>3

\* Send is Reply, when the buffer is the thread's own.
LEMMA SendIsReply ==
    ASSUME ThreadInv, BufferInv, NEW c \in ClientIds, Send(c)
    PROVE  JobOf(c) \in Jobs /\ Service!Reply(JobOf(c))
<1>1. Working(c) /\ send_buf = client[c].answer
  BY DEF Send, At, Working, Sends, BufferInv
<1>2. JobOf(c) \in Jobs /\ JobOf(c).answer = client[c].answer
  BY <1>1, JobsAre DEF JobOf
<1>3. client[c].answer.cmd \in {"GET", "REG", "SET"}
  <2>1. client[c].answer.cmd = client[c].request.cmd
    BY DEF ThreadInv, IsThread, Send, At
  <2> QED
    BY <1>1, <2>1, AnswersEcho
<1>4. client[c].answer # Service!NoAnswer
  BY <1>3 DEF Service!NoAnswer, Service!FromData
<1>5. /\ client'[c] = [pc |-> "push", request |-> client[c].request, answer |-> NoAnswer]
      /\ \A d \in ClientIds \ {c} : client'[d] = client[d]
  BY DEF Send, Goto, ThreadInv
<1>6. ~Working(c)'
  BY <1>5 DEF Working
<1>7. Jobs' = Jobs \ {JobOf(c)}
  BY <1>1, <1>5, <1>6, JobsChange
<1>8. d2g' = Push(d2g, <<client[c].answer>>)
  BY <1>1 DEF Send
<1>9. UNCHANGED <<c2g, g2c, g2d, asked, answered, sg_data>>
  BY DEF Send
<1> QED
  BY <1>2, <1>4, <1>7, <1>8, <1>9 DEF Service!Reply, Service!Push, Push

\* What gamesvr does is what DataService leaves to it.
LEMMA GameIsEnvironment ==
    ASSUME ThreadInv, Receive \/ \E m \in Requests : Ask(m)
    PROVE  Service!Environment
<1>1. UNCHANGED <<sg_data, client, c2g, g2c, asked, answered>>
  BY DEF Receive, Ask
<1>2. UNCHANGED <<sg_data, Jobs>>
  BY <1>1 DEF Jobs
<1>3. CASE Receive
  BY <1>1, <1>2, <1>3 DEF Receive, Service!Environment, Service!datasvr
<1>4. CASE \E m \in Requests : Ask(m)
  <2>1. PICK m \in Requests : g2d' = Append(g2d, m) /\ UNCHANGED d2g
    BY <1>4 DEF Ask
  <2>2. PICK S : g2d \in Seq(S)
    BY DEF ThreadInv, Queue, IsSeq
  <2>3. g2d = SubSeq(g2d', 1, Len(g2d))
    BY <2>1, <2>2
  <2> QED
    BY <1>1, <1>2, <2>1, <2>3 DEF Service!Environment, Service!datasvr
<1> QED
  BY <1>3, <1>4

LEMMA ServiceStep ==
    ASSUME ListInv, ThreadInv, BufferInv, [Next]_vars
    PROVE  [Service!DataNext \/ Service!Environment]_<<Service!links, Service!datasvr>>
<1>1. CASE UNCHANGED <<links, sg_data, Jobs>>
  BY <1>1 DEF Service!links, links, Service!datasvr
<1>2. CASE UNCHANGED vars \/ RunIdle
  BY <1>1, <1>2 DEF vars, RunIdle, Jobs
<1>3. CASE Run
  BY <1>3, RunIsTake DEF Service!DataNext
<1>4. ASSUME NEW c \in ClientIds, ThreadLoop(c)
      PROVE  UNCHANGED <<links, sg_data, Jobs>> \/ Service!DataNext
  <2>1. CASE Works(c)
    <3>1. PICK m : m = client[c].request
      OBVIOUS
    <3>2. /\ At(c, "told")
          /\ \/ Service!Reg(m) \/ Service!Get(m) \/ Service!Set(m)
             \/ Service!Fail(m) \/ Service!Lose(m)
      BY <2>1, <3>1, WorksIsWorks
    <3>3. PICK j : j = JobOf(c)
      OBVIOUS
    <3>4. j \in Jobs /\ j.request = m /\ j.answer = Service!NoAnswer
      BY <3>1, <3>2, <3>3, JobFound
         DEF Service!NoAnswer, NoAnswer, Service!FromData, FromData
    <3>5. Service!Works(m)
      BY <3>2 DEF Service!Works
    <3> QED
      BY <3>4, <3>5 DEF Service!DataNext
  <2>2. CASE Send(c)
    <3>1. PICK j : j = JobOf(c)
      OBVIOUS
    <3>2. j \in Jobs /\ Service!Reply(j)
      BY <2>2, <3>1, SendIsReply
    <3> QED
      BY <3>2 DEF Service!DataNext
  <2>3. CASE SerializeBegin(c) \/ SerializeEnd(c) \/ PushFreeClient(c)
    BY <2>3, ThreadStutters
  <2> QED
    BY <1>4, <2>1, <2>2, <2>3 DEF ThreadLoop
<1>5. CASE Receive \/ \E m \in Requests : Ask(m)
  BY <1>5, GameIsEnvironment
<1> QED
  BY <1>1, <1>2, <1>3, <1>4, <1>5 DEF Next

\* Without the race datasvr keeps what DataService promises gamesvr, on which the
\* proofs about PlayFrame and LuaFrame rest: a request is taken in its turn, its
\* statement takes effect at once, and its answer is sent once, whole, or not at
\* all, though threads overtake each other, fail, reconnect or get stuck.
THEOREM ServiceImplemented ==
    ASSUME "race" \notin Faults PROVE Spec => ImplementsService
<1>1. Init => Service!DataInit
  <2> SUFFICES ASSUME Init PROVE Service!DataInit
    OBVIOUS
  <2>1. \A c \in ClientIds : client[c].pc = "idle"
    BY DEF Init, Idle
  <2>2. Jobs = {}
    BY <2>1 DEF Jobs
  <2> QED
    BY <2>2 DEF Init, Service!DataInit
<1>2. Init => BufferInv
  BY DEF Init, Idle, BufferInv, Sends
<1>3. ListInv /\ ThreadInv /\ BufferInv /\ [Next]_vars => BufferInv'
  BY BufferStep
<1>4. ListInv /\ ThreadInv /\ BufferInv /\ [Next]_vars
        => [Service!DataNext \/ Service!Environment]_<<Service!links, Service!datasvr>>
  BY ServiceStep
<1> QED
  BY <1>1, <1>2, <1>3, <1>4, ListInit, ListStep, ThreadInit, ThreadStep, PTL
     DEF Spec, ImplementsService, Service!DataSpec

-----------------------------------------------------------------------------
(* The answers *)

\* A request that datasvr has not dealt with; what gamesvr gets or will get.
Open(m) == m \in Msgs(g2d) \/ \E c \in ClientIds : Working(c) /\ client[c].request = m
All == got \o d2g
Echoes(answer, m) == answer.seq = m.seq /\ answer.cmd = m.cmd

\* An answer is that to a request which is dealt with, and no two are to the same.
EchoInv == /\ IsSeq(got) /\ Queue(d2g)
           /\ \A k \in DOMAIN All : \E m \in sent : ~Open(m) /\ Echoes(All[k], m)
           /\ \A j, k \in DOMAIN All : All[j].seq = All[k].seq => j = k

\* What is dealt with is not taken up again.
LEMMA DealtWith ==
    ASSUME ListInv, ThreadInv, [Next]_vars
    PROVE  sent \subseteq sent' /\ \A m \in sent : ~Open(m) => ~Open(m)'
<1>1. CASE UNCHANGED <<sent, g2d, client>>
  BY <1>1 DEF Open, Working
<1>2. CASE Run
  <2>1. PICK c \in ClientIds :
            /\ DOMAIN client' = ClientIds
            /\ client'[c] = [pc |-> "told", request |-> Head(g2d), answer |-> NoAnswer]
            /\ \A d \in ClientIds \ {c} : client'[d] = client[d]
    BY <1>2, RunTakes
  <2>2. g2d # <<>> /\ g2d' = Tail(g2d) /\ UNCHANGED sent
    BY <1>2, RunTakes
  <2>3. Head(g2d) \in Msgs(g2d) /\ Msgs(g2d') \subseteq Msgs(g2d)
    BY <2>2, TailMsgs DEF ThreadInv
  <2>4. client'[c].request \in Msgs(g2d)
    BY <2>1, <2>3
  <2> QED
    BY <2>1, <2>2, <2>3, <2>4 DEF Open, Working
<1>3. CASE RunIdle \/ Receive \/ UNCHANGED vars
  BY <1>1, <1>3 DEF RunIdle, Receive, vars, links
<1>4. ASSUME NEW r \in Requests, Ask(r)
      PROVE  sent \subseteq sent' /\ \A m \in sent : ~Open(m) => ~Open(m)'
  <2>1. PICK S : g2d \in Seq(S)
    BY DEF ThreadInv, Queue, IsSeq
  <2>2. g2d' = Append(g2d, r) /\ r \notin sent /\ sent' = sent \cup {r} /\ UNCHANGED client
    BY <1>4 DEF Ask
  <2>3. Msgs(g2d') \subseteq Msgs(g2d) \cup {r}
    BY <2>1, <2>2 DEF Msgs
  <2> QED
    BY <2>2, <2>3 DEF Open, Working
<1>5. ASSUME NEW c \in ClientIds, ThreadLoop(c)
      PROVE  sent \subseteq sent' /\ \A m \in sent : ~Open(m) => ~Open(m)'
  <2>1. CASE PushFreeClient(c)
    <3>1. /\ ~Working(c)' /\ \A d \in ClientIds \ {c} : client'[d] = client[d]
          /\ UNCHANGED <<sent, g2d>>
      BY <2>1, ThreadPush DEF PushFreeClient, links
    <3> QED
      BY <3>1 DEF Open, Working
  <2>2. CASE ~PushFreeClient(c)
    <3>1. PICK pc, answer : Goes(c, pc, answer)
      BY <1>5, <2>2, ThreadGoes
    <3>2. UNCHANGED <<sent, g2d>>
      BY <1>5, <2>2, ThreadGoes
    <3>3. /\ Working(c) /\ client'[c].request = client[c].request
          /\ \A d \in ClientIds \ {c} : client'[d] = client[d]
      BY <3>1 DEF Goes, Goto, ThreadInv
    <3> QED
      BY <3>2, <3>3 DEF Open, Working
  <2> QED
    BY <2>1, <2>2
<1> QED
  BY <1>2, <1>3, <1>4, <1>5 DEF Next

\* Every request has an id of its own, as those of gamesvr's logics have.
IdsApart == \A m, n \in Requests : m.seq = n.seq => m = n

\* With the answers as they were,
LEMMA SameAnswers ==
    ASSUME ListInv, ThreadInv, EchoInv, [Next]_vars, All' = All, IsSeq(got'), Queue(d2g')
    PROVE  EchoInv'
<1>1. \A k \in DOMAIN All : \E m \in sent' : ~Open(m)' /\ Echoes(All[k], m)
  BY DealtWith DEF EchoInv
<1> HIDE DEF All
<1>2. DOMAIN All' = DOMAIN All
  OBVIOUS
<1>3. \A k \in DOMAIN All' : \E m \in sent' : ~Open(m)' /\ Echoes(All'[k], m)
  BY <1>1, <1>2
<1> QED
  BY <1>3 DEF EchoInv, Echoes

\* ... or one more, to a request that is dealt with now.
LEMMA MoreAnswers ==
    ASSUME IdsApart, ListInv, ThreadInv, EchoInv, [Next]_vars,
           NEW r \in sent, Open(r), ~Open(r)', NEW b, Echoes(b, r),
           All' = Append(All, b), IsSeq(got'), Queue(d2g')
    PROVE  EchoInv'
<1>1. \A k \in DOMAIN All : \E m \in sent' : ~Open(m)' /\ Echoes(All[k], m)
  BY DealtWith DEF EchoInv
<1>2. \A k \in DOMAIN All : All[k].seq # b.seq
  BY DEF EchoInv, Echoes, ThreadInv, IdsApart
<1>3. IsSeq(All)
  <2>1. PICK S, T : got \in Seq(S) /\ d2g \in Seq(T)
    BY DEF EchoInv, Queue, IsSeq
  <2>2. got \in Seq(S \cup T) /\ d2g \in Seq(S \cup T)
    BY <2>1
  <2> QED
    BY <2>2 DEF All, IsSeq
<1>4. \A j, k \in DOMAIN All : All[j].seq = All[k].seq => j = k
  BY DEF EchoInv
<1>5. r \in sent'
  BY DealtWith
<1>6. PICK a : a = All
  OBVIOUS
<1>7. PICK S : a \in Seq(S)
  BY <1>3, <1>6 DEF IsSeq
<1>8. PICK e : e = Append(a, b)
  OBVIOUS
<1>9. /\ DOMAIN e = 1..Len(a) + 1 /\ DOMAIN a = 1..Len(a) /\ Len(a) \in Nat
      /\ \A i \in DOMAIN a : e[i] = a[i]
      /\ e[Len(a) + 1] = b
  BY <1>7, <1>8
<1>10. \A i \in DOMAIN e : i \in DOMAIN a \/ i = Len(a) + 1
  BY <1>9
<1>11. \A k \in DOMAIN e : \E m \in sent' : ~Open(m)' /\ Echoes(e[k], m)
  BY <1>1, <1>5, <1>6, <1>9, <1>10
<1>12. \A j, k \in DOMAIN e : e[j].seq = e[k].seq => j = k
  BY <1>2, <1>4, <1>6, <1>9, <1>10
<1>13. All' = e
  BY <1>6, <1>8
<1> QED
  BY <1>11, <1>12, <1>13 DEF EchoInv, Echoes

LEMMA EchoStep ==
    ASSUME IdsApart, ListInv, ThreadInv, BufferInv, EchoInv, [Next]_vars
    PROVE  EchoInv'
<1>1. CASE UNCHANGED <<got, d2g>>
  <2>1. All' = All /\ IsSeq(got') /\ Queue(d2g')
    BY <1>1 DEF All, EchoInv
  <2> QED
    BY <2>1, SameAnswers
<1>2. CASE Run \/ RunIdle \/ UNCHANGED vars \/ \E m \in Requests : Ask(m)
  BY <1>1, <1>2 DEF Run, RunIdle, vars, Ask, links
<1>3. CASE Receive
  <2>1. PICK S, T : got \in Seq(S) /\ d2g \in Seq(T)
    BY DEF EchoInv, Queue, IsSeq
  <2>2. d2g # <<>> /\ d2g' = Tail(d2g) /\ got' = Append(got, Head(d2g))
    BY <1>3 DEF Receive
  <2>3. got \in Seq(S \cup T) /\ d2g \in Seq(S \cup T)
    BY <2>1
  <2>4. got' \in Seq(S \cup T) /\ got' \o d2g' = got \o d2g
    BY <2>2, <2>3
  <2>5. Queue(d2g')
    BY <2>2, TailMsgs DEF EchoInv
  <2>6. All' = All /\ IsSeq(got')
    BY <2>4 DEF All, IsSeq
  <2> QED
    BY <2>5, <2>6, SameAnswers
<1>4. ASSUME NEW c \in ClientIds, ThreadLoop(c), ~Send(c) PROVE EchoInv'
  <2>1. UNCHANGED <<got, d2g>>
    BY <1>4 DEF ThreadLoop, Works, Query, QueryNoResult, QueryRepeated, PingFails,
                SerializeBegin, SerializeEnd, PushFreeClient, links
  <2> QED
    BY <1>1, <2>1
<1>5. ASSUME NEW c \in ClientIds, Send(c) PROVE EchoInv'
  <2>1. Working(c) /\ send_buf = client[c].answer
    BY <1>5 DEF Send, At, Working, Sends, BufferInv
  <2>2. PICK r, b : r = client[c].request /\ b = client[c].answer
    OBVIOUS
  <2>3. r \in sent /\ Open(r) /\ r \notin Msgs(g2d) /\ Echoes(b, r)
    BY <1>5, <2>1, <2>2 DEF ThreadInv, IsThread, Open, Echoes, Send, At
  <2>4. /\ client'[c].pc = "push"
        /\ \A d \in ClientIds \ {c} : client'[d] = client[d]
        /\ UNCHANGED <<g2d, got>>
        /\ d2g' = Push(d2g, <<b>>)
    BY <1>5, <2>1, <2>2 DEF Send, Goto, ThreadInv
  <2>5. ~Open(r)'
    BY <2>1, <2>2, <2>3, <2>4 DEF Open, Working, ThreadInv
  <2>6. d2g' = IF Len(d2g) < Hwm THEN Append(d2g, b) ELSE d2g
    BY <2>4, PushOne DEF EchoInv, Queue
  <2>7. PICK S, T : got \in Seq(S) /\ d2g \in Seq(T)
    BY DEF EchoInv, Queue, IsSeq
  <2>8. CASE Len(d2g) < Hwm
    <3>1. d2g' = Append(d2g, b)
      BY <2>6, <2>8
    <3>2. got \in Seq(S \cup T \cup {b}) /\ d2g \in Seq(S \cup T \cup {b})
      BY <2>7
    <3>3. /\ d2g' \in Seq(S \cup T \cup {b}) /\ Len(d2g') = Len(d2g) + 1 /\ Len(d2g) \in Nat
          /\ got \o d2g' = Append(got \o d2g, b)
      BY <3>1, <3>2
    <3>4. Queue(d2g')
      BY <2>8, <3>3, LinksAssumption DEF Queue, IsSeq
    <3>5. All' = Append(All, b) /\ IsSeq(got')
      BY <2>4, <2>7, <3>3 DEF All, IsSeq
    <3> QED
      BY <2>3, <2>5, <3>4, <3>5, MoreAnswers
  <2>9. CASE ~(Len(d2g) < Hwm)
    BY <1>1, <2>4, <2>6, <2>9
  <2> QED
    BY <2>8, <2>9
<1> QED
  BY <1>2, <1>3, <1>4, <1>5 DEF Next

\* The race is the only way in which an answer can come back with an id that
\* gamesvr did not send, or twice: without it every answer has the id and the cmd of
\* one request, and no two answers have the same.
THEOREM IdsComeBack ==
    ASSUME "race" \notin Faults, IdsApart PROVE Spec => []IdsEchoed
<1>1. Init => BufferInv /\ EchoInv
  <2> SUFFICES ASSUME Init PROVE BufferInv /\ EchoInv
    OBVIOUS
  <2>1. got = <<>> /\ d2g = <<>>
    BY DEF Init, LinksInit
  <2>2. <<>> \in Seq({}) /\ <<>> \o <<>> = <<>> /\ DOMAIN <<>> = {}
    OBVIOUS
  <2>3. All = <<>>
    BY <2>1, <2>2 DEF All
  <2>4. EchoInv
    BY <2>1, <2>2, <2>3, EmptyQueue DEF EchoInv, IsSeq
  <2> QED
    BY <2>4 DEF Init, Idle, BufferInv, Sends
<1>2. ListInv /\ ThreadInv /\ BufferInv /\ EchoInv /\ [Next]_vars => BufferInv' /\ EchoInv'
  BY BufferStep, EchoStep
<1>3. EchoInv => IdsEchoed
  BY DEF EchoInv, IdsEchoed, All, Echoes
<1> QED
  BY <1>1, <1>2, <1>3, ListInit, ListStep, ThreadInit, ThreadStep, PTL DEF Spec
=============================================================================
