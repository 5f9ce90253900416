----------------------------- MODULE LinksProofs -----------------------------
(***************************************************************************)
(* Lemmas about the queues between the servers: what zmq_send and the        *)
(* receivers make of the messages in them, for queues of every length and    *)
(* every high-water mark.                                                  *)
(***************************************************************************)
EXTENDS Links, SequenceTheorems, FiniteSetTheorems, TLAPS

IsSeq(s) == \E S : s \in Seq(S)

\* A queue as a socket may hold it; the messages in it; the numbers on them.
Queue(q) == IsSeq(q) /\ Len(q) <= Hwm
Msgs(q) == {q[i] : i \in DOMAIN q}
SeqsOf(q) == {m.seq : m \in Msgs(q)}

\* No number is on two messages, but those of Z.
Distinct(q, Z) == \A i, j \in DOMAIN q : q[i].seq = q[j].seq /\ q[i].seq \notin Z => i = j

-----------------------------------------------------------------------------
(* zmq_send *)

\* What zmq_send makes of a queue that is not over its mark.
LEMMA PushOne ==
    ASSUME NEW q, IsSeq(q), Len(q) <= Hwm, NEW m
    PROVE  Push(q, <<m>>) = IF Len(q) < Hwm THEN Append(q, m) ELSE q
<1>1. PICK S : q \in Seq(S)
  BY DEF IsSeq
<1> DEFINE T == S \cup {m}
<1>2. q \in Seq(T) /\ <<m>> \in Seq(T) /\ Len(<<m>>) = 1 /\ <<m>>[1] = m
  BY <1>1
<1>3. Len(q) \in Nat /\ Hwm \in Nat
  BY <1>1, LinksAssumption
<1>4. /\ q \o <<m>> \in Seq(T) /\ Len(q \o <<m>>) = Len(q) + 1
      /\ \A i \in 1..Len(q) : (q \o <<m>>)[i] = q[i]
      /\ (q \o <<m>>)[Len(q) + 1] = m
  BY <1>2
<1> DEFINE r == q \o <<m>>
<1> HIDE DEF T, r
<1>5. CASE Len(q) < Hwm
  <2>1. Push(q, <<m>>) = SubSeq(r, 1, Len(q) + 1)
    BY <1>2, <1>3, <1>5 DEF Push, r
  <2>2. SubSeq(r, 1, Len(q) + 1) = Append(q, m)
    BY <1>2, <1>3, <1>4 DEF r
  <2> QED
    BY <1>5, <2>1, <2>2
<1>6. CASE Len(q) = Hwm
  <2>1. Push(q, <<m>>) = SubSeq(r, 1, Len(q))
    BY <1>2, <1>3, <1>6 DEF Push, r
  <2>2. SubSeq(r, 1, Len(q)) = q
    BY <1>2, <1>3, <1>4 DEF r
  <2> QED
    BY <1>3, <1>6, <2>1, <2>2
<1>7. Len(q) < Hwm \/ Len(q) = Hwm
  BY <1>3
<1> QED
  BY <1>5, <1>6, <1>7

\* A list of messages: some of them join what is there.
LEMMA PushMsgs ==
    ASSUME NEW q, Queue(q), NEW msgs, IsSeq(msgs)
    PROVE  /\ Queue(Push(q, msgs))
           /\ Msgs(Push(q, msgs)) \subseteq Msgs(q) \cup Msgs(msgs)
           /\ \A Z : Distinct(q, Z) /\ (\A m \in Msgs(msgs) : m.seq \in Z)
                      => Distinct(Push(q, msgs), Z)
<1>1. PICK S : q \in Seq(S)
  BY DEF Queue, IsSeq
<1>2. PICK T : msgs \in Seq(T)
  BY DEF IsSeq
<1> DEFINE U == S \cup T
           all == q \o msgs
           n == IF Len(q) + Len(msgs) <= Hwm THEN Len(q) + Len(msgs) ELSE Hwm
           r == SubSeq(all, 1, n)
<1>3. q \in Seq(U) /\ msgs \in Seq(U)
  BY <1>1, <1>2
<1>4. /\ Len(q) \in Nat /\ Len(msgs) \in Nat /\ Hwm \in Nat
      /\ DOMAIN q = 1..Len(q) /\ DOMAIN msgs = 1..Len(msgs)
  BY <1>1, <1>2, LinksAssumption
<1>5. /\ all \in Seq(U) /\ Len(all) = Len(q) + Len(msgs)
      /\ \A i \in 1..Len(all) : all[i] = IF i <= Len(q) THEN q[i] ELSE msgs[i - Len(q)]
  BY <1>3
<1>6. n \in Nat /\ n <= Hwm /\ n <= Len(all)
  BY <1>4, <1>5
<1>7. Push(q, msgs) = r
  BY DEF Push
<1> HIDE DEF U, all, n
<1>8. r \in Seq(U) /\ Len(r) = n /\ \A i \in 1..n : r[i] = all[i]
  BY <1>5, <1>6
<1>9. DOMAIN r = 1..n
  BY <1>8
<1> HIDE DEF r
<1>10. ASSUME NEW i \in 1..n PROVE r[i] \in Msgs(q) \cup Msgs(msgs)
  <2>1. i \in 1..Len(all)
    BY <1>4, <1>5, <1>6
  <2>2. CASE i <= Len(q)
    BY <1>4, <1>5, <1>8, <2>1, <2>2 DEF Msgs
  <2>3. CASE ~(i <= Len(q))
    <3>1. i - Len(q) \in 1..Len(msgs)
      BY <1>4, <1>5, <2>1, <2>3
    <3> QED
      BY <1>4, <1>5, <1>8, <2>1, <2>3, <3>1 DEF Msgs
  <2> QED
    BY <2>2, <2>3
<1>11. Msgs(r) \subseteq Msgs(q) \cup Msgs(msgs)
  BY <1>9, <1>10 DEF Msgs
<1>12. ASSUME NEW Z, Distinct(q, Z), \A m \in Msgs(msgs) : m.seq \in Z
       PROVE  Distinct(r, Z)
  <2>1. ASSUME NEW i \in 1..n, r[i].seq \notin Z
        PROVE  i \in DOMAIN q /\ r[i] = q[i]
    <3>1. i \in 1..Len(all)
      BY <1>4, <1>5, <1>6
    <3>2. CASE i <= Len(q)
      BY <1>4, <1>5, <1>8, <3>1, <3>2
    <3>3. CASE ~(i <= Len(q))
      <4>1. i - Len(q) \in 1..Len(msgs) /\ r[i] = msgs[i - Len(q)]
        BY <1>4, <1>5, <1>8, <3>1, <3>3
      <4> QED
        BY <1>4, <1>12, <2>1, <4>1 DEF Msgs
    <3> QED
      BY <3>2, <3>3
  <2> QED
    BY <1>9, <1>12, <2>1 DEF Distinct
<1> QED
  BY <1>6, <1>7, <1>8, <1>11, <1>12 DEF Queue, IsSeq

\* One message and two, as the handlers send them.
LEMMA OneMsg == \A m : IsSeq(<<m>>) /\ Msgs(<<m>>) = {m}
<1> TAKE m
<1>1. <<m>> \in Seq({m}) /\ DOMAIN <<m>> = {1} /\ <<m>>[1] = m
  OBVIOUS
<1> QED
  BY <1>1 DEF IsSeq, Msgs

LEMMA TwoMsgs == \A m, n : IsSeq(<<m, n>>) /\ Msgs(<<m, n>>) = {m, n}
<1> TAKE m, n
<1>1. <<m, n>> \in Seq({m, n}) /\ DOMAIN <<m, n>> = {1, 2}
  OBVIOUS
<1>2. <<m, n>>[1] = m /\ <<m, n>>[2] = n
  OBVIOUS
<1> QED
  BY <1>1, <1>2 DEF IsSeq, Msgs

LEMMA TwoJoined == ASSUME NEW m, NEW n PROVE <<m>> \o <<n>> = <<m, n>>
<1> DEFINE T == {m, n}
           s == <<m>> \o <<n>>
           r == <<m, n>>
<1>1. /\ <<m>> \in Seq(T) /\ <<n>> \in Seq(T) /\ r \in Seq(T)
      /\ Len(<<m>>) = 1 /\ Len(<<n>>) = 1 /\ <<m>>[1] = m /\ <<n>>[1] = n
      /\ Len(r) = 2 /\ r[1] = m /\ r[2] = n
  OBVIOUS
<1>2. s \in Seq(T) /\ Len(s) = 2 /\ s[1] = m
  BY <1>1
<1>3. s[2] = n
  BY <1>1
<1> HIDE DEF s, r, T
<1>4. \A i \in 1..2 : s[i] = r[i]
  BY <1>1, <1>2, <1>3
<1>5. s = r
  BY <1>1, <1>2, <1>4, SeqEqual
<1> QED
  BY <1>5 DEF s, r

\* A message with a number of its own leaves all of them apart; one that there
\* is no room for changes nothing.
LEMMA PushDistinct ==
    ASSUME NEW q, Queue(q), NEW m
    PROVE  /\ Queue(Push(q, <<m>>))
           /\ \/ Push(q, <<m>>) = q
              \/ /\ Msgs(Push(q, <<m>>)) = Msgs(q) \cup {m}
                 /\ SeqsOf(Push(q, <<m>>)) = SeqsOf(q) \cup {m.seq}
                 /\ \A Z : Distinct(q, Z) /\ (m.seq \in Z \/ m.seq \notin SeqsOf(q))
                              => Distinct(Push(q, <<m>>), Z)
<1>1. Queue(Push(q, <<m>>))
  BY PushMsgs, OneMsg
<1>2. Push(q, <<m>>) = q \/ Push(q, <<m>>) = Append(q, m)
  BY PushOne DEF Queue
<1>3. PICK S : q \in Seq(S)
  BY DEF Queue, IsSeq
<1> DEFINE r == Append(q, m)
           n == Len(q)
<1>4. /\ n \in Nat /\ DOMAIN q = 1..n /\ DOMAIN r = 1..n + 1
      /\ \A i \in 1..n : r[i] = q[i]
      /\ r[n + 1] = m
  <2>1. q \in Seq(S \cup {m})
    BY <1>3
  <2> QED
    BY <2>1
<1> HIDE DEF r, n
<1>5. DOMAIN r = DOMAIN q \cup {n + 1} /\ n + 1 \notin DOMAIN q
  BY <1>4
<1>6. Msgs(r) = Msgs(q) \cup {m}
  BY <1>4, <1>5 DEF Msgs
<1>7. SeqsOf(r) = SeqsOf(q) \cup {m.seq}
  BY <1>6 DEF SeqsOf
<1>8. ASSUME NEW Z, Distinct(q, Z), m.seq \in Z \/ m.seq \notin SeqsOf(q) PROVE Distinct(r, Z)
  <2>1. \A i \in DOMAIN q : q[i].seq # m.seq \/ m.seq \in Z
    BY <1>8 DEF SeqsOf, Msgs
  <2> QED
    BY <1>4, <1>5, <1>8, <2>1 DEF Distinct
<1>9. CASE Push(q, <<m>>) = r
  BY <1>1, <1>6, <1>7, <1>8, <1>9
<1> QED
  BY <1>1, <1>2, <1>9 DEF r

-----------------------------------------------------------------------------
(* What receives, or loses, messages *)

\* What is left of a queue when n messages are taken from its front.
LEMMA Suffix ==
    ASSUME NEW S, NEW q \in Seq(S), NEW n \in 0..Len(q)
    PROVE  LET r == SubSeq(q, n + 1, Len(q))
           IN  /\ r \in Seq(S)
               /\ DOMAIN r = 1..Len(q) - n /\ Len(r) = Len(q) - n
               /\ \A i \in 1..Len(q) - n : r[i] = q[i + n]
<1> DEFINE r == SubSeq(q, n + 1, Len(q))
<1>1. Len(q) \in Nat /\ n \in Nat /\ n <= Len(q)
  OBVIOUS
<1>2. \A i \in n + 1..Len(q) : q[i] \in S
  BY <1>1
<1>3. n + 1 \in Int /\ Len(q) \in Int
  BY <1>1
<1>4. /\ r \in Seq(S)
      /\ Len(r) = IF n + 1 <= Len(q) THEN Len(q) - (n + 1) + 1 ELSE 0
      /\ \A i \in 1..Len(q) - (n + 1) + 1 : r[i] = q[n + 1 + i - 1]
  BY <1>2, <1>3, SubSeqProperties
<1> HIDE DEF r
<1>5. Len(r) = Len(q) - n
  BY <1>1, <1>4
<1>6. DOMAIN r = 1..Len(r)
  BY <1>4
<1>7. \A i \in 1..Len(q) - n : r[i] = q[i + n]
  <2> TAKE i \in 1..Len(q) - n
  <2>1. n + 1 + i - 1 = i + n /\ i \in 1..Len(q) - (n + 1) + 1
    BY <1>1
  <2> QED
    BY <1>4, <2>1
<1> QED
  BY <1>4, <1>5, <1>6, <1>7 DEF r

\* What is left has nothing new, and numbers apart stay apart.
LEMMA SuffixMsgs ==
    ASSUME NEW q, Queue(q), NEW n \in 0..Len(q)
    PROVE  LET r == SubSeq(q, n + 1, Len(q))
           IN  /\ Queue(r)
               /\ Msgs(r) \subseteq Msgs(q) /\ SeqsOf(r) \subseteq SeqsOf(q)
               /\ \A Z : Distinct(q, Z) => Distinct(r, Z)
<1>1. PICK S : q \in Seq(S)
  BY DEF Queue, IsSeq
<1> DEFINE r == SubSeq(q, n + 1, Len(q))
<1>2. /\ r \in Seq(S) /\ DOMAIN r = 1..Len(q) - n /\ Len(r) = Len(q) - n
      /\ \A i \in 1..Len(q) - n : r[i] = q[i + n]
  BY <1>1, Suffix
<1>3. Len(q) \in Nat /\ Hwm \in Nat /\ DOMAIN q = 1..Len(q) /\ n \in Nat
  BY <1>1, LinksAssumption
<1> HIDE DEF r
<1>4. Queue(r)
  <2>1. Len(q) <= Hwm
    BY DEF Queue
  <2>2. Len(r) <= Hwm
    BY <1>2, <1>3, <2>1
  <2> QED
    BY <1>2, <2>2 DEF Queue, IsSeq
<1>5. \A i \in DOMAIN r : i + n \in DOMAIN q /\ r[i] = q[i + n]
  BY <1>2, <1>3
<1>6. Msgs(r) \subseteq Msgs(q)
  BY <1>5 DEF Msgs
<1>7. SeqsOf(r) \subseteq SeqsOf(q)
  BY <1>6 DEF SeqsOf
<1>8. ASSUME NEW Z, Distinct(q, Z) PROVE Distinct(r, Z)
  <2> SUFFICES ASSUME NEW i \in DOMAIN r, NEW j \in DOMAIN r,
                      r[i].seq = r[j].seq, r[i].seq \notin Z
               PROVE  i = j
    BY DEF Distinct
  <2>1. q[i + n].seq = q[j + n].seq /\ q[i + n].seq \notin Z
    BY <1>5
  <2>2. i + n = j + n
    BY <1>5, <1>8, <2>1 DEF Distinct
  <2> QED
    BY <1>2, <1>3, <2>2
<1> QED
  BY <1>4, <1>6, <1>7, <1>8 DEF r

\* zmq_recv: the first message leaves the others.
LEMMA TailMsgs ==
    ASSUME NEW q, Queue(q), q # <<>>
    PROVE  /\ Queue(Tail(q))
           /\ Head(q) \in Msgs(q)
           /\ Msgs(q) = Msgs(Tail(q)) \cup {Head(q)}
           /\ SeqsOf(q) = SeqsOf(Tail(q)) \cup {Head(q).seq}
           /\ \A Z : Distinct(q, Z) =>
                  /\ Distinct(Tail(q), Z)
                  /\ Head(q).seq \notin Z => Head(q).seq \notin SeqsOf(Tail(q))
<1>1. PICK S : q \in Seq(S)
  BY DEF Queue, IsSeq
<1>2. 1 \in 0..Len(q) /\ Tail(q) = SubSeq(q, 1 + 1, Len(q)) /\ 1 \in DOMAIN q
  BY <1>1
<1>3. Queue(Tail(q)) /\ \A Z : Distinct(q, Z) => Distinct(Tail(q), Z)
  BY <1>2, SuffixMsgs
<1> DEFINE r == Tail(q)
<1>4. /\ Len(q) \in Nat /\ Len(q) # 0 /\ DOMAIN q = 1..Len(q)
      /\ DOMAIN r = 1..Len(q) - 1 /\ \A i \in 1..Len(q) - 1 : r[i] = q[i + 1]
      /\ Head(q) = q[1]
  <2>1. /\ DOMAIN SubSeq(q, 1 + 1, Len(q)) = 1..Len(q) - 1
        /\ \A i \in 1..Len(q) - 1 : SubSeq(q, 1 + 1, Len(q))[i] = q[i + 1]
    BY <1>1, <1>2, Suffix
  <2> QED
    BY <1>1, <1>2, <2>1
<1> HIDE DEF r
<1>5. \A i \in DOMAIN r : i + 1 \in DOMAIN q /\ i + 1 # 1 /\ r[i] = q[i + 1]
  BY <1>4
<1>6. \A i \in DOMAIN q \ {1} : i - 1 \in DOMAIN r /\ q[i] = r[i - 1]
  BY <1>4
<1>7. Head(q) \in Msgs(q)
  BY <1>2, <1>4 DEF Msgs
<1>8. Msgs(q) = Msgs(r) \cup {Head(q)}
  <2>1. Msgs(r) \subseteq Msgs(q)
    BY <1>5 DEF Msgs
  <2>2. \A i \in DOMAIN q : q[i] \in Msgs(r) \cup {Head(q)}
    <3> TAKE i \in DOMAIN q
    <3>1. CASE i = 1
      BY <1>4, <3>1
    <3>2. CASE i # 1
      <4>1. i - 1 \in DOMAIN r /\ q[i] = r[i - 1]
        BY <1>6, <3>2
      <4> QED
        BY <4>1 DEF Msgs
    <3> QED
      BY <3>1, <3>2
  <2> QED
    BY <1>7, <2>1, <2>2 DEF Msgs
<1>9. SeqsOf(q) = SeqsOf(r) \cup {Head(q).seq}
  BY <1>8 DEF SeqsOf
<1>10. ASSUME NEW Z, Distinct(q, Z), Head(q).seq \notin Z PROVE Head(q).seq \notin SeqsOf(r)
  BY <1>2, <1>4, <1>5, <1>10 DEF Distinct, SeqsOf, Msgs
<1> QED
  BY <1>3, <1>7, <1>8, <1>9, <1>10 DEF r

\* Messages are taken from the front, or none are.
Shrinks(q, r) == \E n \in 0..Len(q) : r = SubSeq(q, n + 1, Len(q))

LEMMA ShrinksWhen == ASSUME NEW q, Queue(q)
                     PROVE  Shrinks(q, q) /\ (q # <<>> => Shrinks(q, Tail(q)))
<1>1. PICK S : q \in Seq(S)
  BY DEF Queue, IsSeq
<1>2. /\ 0 \in 0..Len(q) /\ q = SubSeq(q, 0 + 1, Len(q))
      /\ q # <<>> => 1 \in 0..Len(q) /\ Tail(q) = SubSeq(q, 1 + 1, Len(q))
  BY <1>1
<1> QED
  BY <1>2 DEF Shrinks

LEMMA ShrinksMsgs ==
    ASSUME NEW q, Queue(q), NEW r, Shrinks(q, r)
    PROVE  /\ Queue(r)
           /\ Msgs(r) \subseteq Msgs(q) /\ SeqsOf(r) \subseteq SeqsOf(q)
           /\ \A Z : Distinct(q, Z) => Distinct(r, Z)
  BY SuffixMsgs DEF Shrinks

\* What a queue starts with.
LEMMA EmptyQueue ==
    Queue(<<>>) /\ Msgs(<<>>) = {} /\ SeqsOf(<<>>) = {} /\ \A Z : Distinct(<<>>, Z)
<1>1. <<>> \in Seq({}) /\ Len(<<>>) = 0 /\ DOMAIN <<>> = {} /\ 0 <= Hwm
  BY LinksAssumption
<1> QED
  BY <1>1 DEF Queue, IsSeq, Msgs, SeqsOf, Distinct

-----------------------------------------------------------------------------
(* Requests and their answers *)

\* A request is in the queue, or waits with a logic or a task (W has pairs of an
\* id and the number of a request), or is answered; no request has two of these,
\* and none is answered twice.
Once(q, W, ans) ==
    /\ Distinct(q, {0})
    /\ \A v, w \in W : v[2] = w[2] /\ v[2] # 0 => v = w
    /\ \A w \in W : w[2] # 0 => w[2] \notin SeqsOf(q)
    /\ \A s \in SeqsOf(q) \cup {w[2] : w \in W} :
           s \in 0..Len(ans) /\ (s # 0 => ans[s] = 0)
    /\ \A s \in 1..Len(ans) : ans[s] <= 1

\* A new request; it may not fit into the queue.
LEMMA OnceAsk ==
    ASSUME NEW q, Queue(q), NEW W, NEW ans \in Seq(Nat), Once(q, W, ans),
           NEW m, m.seq = Len(ans) + 1, NEW r, r = q \/ r = Push(q, <<m>>)
    PROVE  Once(r, W, Append(ans, 0))
<1> DEFINE n == Len(ans)
           b == Append(ans, 0)
<1>1. n \in Nat /\ Len(b) = n + 1 /\ b[n + 1] = 0 /\ \A s \in 1..n : b[s] = ans[s]
  OBVIOUS
<1>2. \A s \in SeqsOf(q) \cup {w[2] : w \in W} : s \in 0..n /\ (s # 0 => ans[s] = 0)
  BY DEF Once
<1>3. \A s \in 1..n : ans[s] <= 1
  BY DEF Once
<1> HIDE DEF n, b
<1>4. 0..n \subseteq 0..n + 1 /\ n + 1 \notin 0..n /\ 0..n \subseteq 1..n \cup {0}
      /\ 1..n + 1 = 1..n \cup {n + 1} /\ n + 1 # 0
      /\ \A s \in 0..n : s # 0 => s \in 1..n
  BY <1>1
<1>5. n + 1 \notin SeqsOf(q) /\ \A w \in W : w[2] # n + 1
  BY <1>2, <1>4
<1>6. /\ \A s \in SeqsOf(q) \cup {w[2] : w \in W} : s \in 0..n + 1 /\ (s # 0 => b[s] = 0)
      /\ \A s \in 1..n + 1 : b[s] <= 1
  <2>1. ASSUME NEW s \in SeqsOf(q) \cup {w[2] : w \in W}
        PROVE  s \in 0..n + 1 /\ (s # 0 => b[s] = 0)
    <3>1. s \in 0..n /\ (s # 0 => ans[s] = 0)
      BY <1>2
    <3> QED
      BY <1>1, <1>4, <3>1
  <2>2. ASSUME NEW s \in 1..n + 1 PROVE b[s] <= 1
    BY <1>1, <1>3, <1>4
  <2> QED
    BY <2>1, <2>2
<1>7. CASE r = q
  BY <1>1, <1>6, <1>7 DEF Once, b
<1>8. CASE r # q
  <2>1. r = Push(q, <<m>>) /\ m.seq = n + 1
    BY <1>8 DEF n
  <2>2. SeqsOf(r) = SeqsOf(q) \cup {n + 1} /\ Distinct(r, {0})
    BY <1>5, <1>8, <2>1, PushDistinct DEF Once
  <2>3. \A s \in SeqsOf(r) \cup {w[2] : w \in W} : s \in 0..n + 1 /\ (s # 0 => b[s] = 0)
    BY <1>1, <1>4, <1>6, <2>2
  <2> QED
    BY <1>1, <1>5, <1>6, <2>2, <2>3 DEF Once, b
<1> QED
  BY <1>7, <1>8

\* A message that is no request.
LEMMA OnceTell ==
    ASSUME NEW q, Queue(q), NEW W, NEW ans \in Seq(Nat), Once(q, W, ans),
           NEW m, m.seq = 0
    PROVE  Once(Push(q, <<m>>), W, ans)
<1> DEFINE r == Push(q, <<m>>)
<1>1. r = q \/ (SeqsOf(r) = SeqsOf(q) \cup {0} /\ Distinct(r, {0}))
  BY PushDistinct DEF Once
<1>2. 0 \in 0..Len(ans)
  OBVIOUS
<1> HIDE DEF r
<1>3. Once(r, W, ans)
  BY <1>1, <1>2 DEF Once
<1> QED
  BY <1>3 DEF r

\* Messages are lost, or logics or tasks are given up.
LEMMA OnceFewer ==
    ASSUME NEW q, NEW W, NEW ans, Once(q, W, ans),
           NEW r, SeqsOf(r) \subseteq SeqsOf(q), Distinct(r, {0}), NEW V, V \subseteq W
    PROVE  Once(r, V, ans)
  BY DEF Once

\* The first request becomes a logic's, or a task's.
LEMMA OnceAccept ==
    ASSUME NEW q, Queue(q), q # <<>>, NEW W, NEW ans \in Seq(Nat), Once(q, W, ans),
           NEW id, NEW V, V \subseteq W \cup {<<id, Head(q).seq>>, <<id, 0>>}
    PROVE  Once(Tail(q), V, ans)
<1> DEFINE r == Tail(q)
           h == Head(q).seq
<1>1. SeqsOf(q) = SeqsOf(r) \cup {h} /\ Distinct(r, {0}) /\ (h # 0 => h \notin SeqsOf(r))
  BY TailMsgs DEF Once
<1>2. <<id, h>>[2] = h /\ <<id, 0>>[2] = 0 /\ 0 \in 0..Len(ans)
  OBVIOUS
<1> HIDE DEF r, h
<1>3. V \subseteq W \cup {<<id, h>>, <<id, 0>>}
  BY DEF h
<1>4. \A w \in W : w[2] = h => h = 0
  BY <1>1 DEF Once
<1>5. \A v, w \in V : v[2] = w[2] /\ v[2] # 0 => v = w
  BY <1>2, <1>3, <1>4 DEF Once
<1>6. \A w \in V : w[2] # 0 => w[2] \notin SeqsOf(r)
  BY <1>1, <1>2, <1>3 DEF Once
<1>7. \A s \in SeqsOf(r) \cup {w[2] : w \in V} : s \in SeqsOf(q) \cup {w[2] : w \in W} \cup {0}
  BY <1>1, <1>2, <1>3
<1>8. \A s \in SeqsOf(r) \cup {w[2] : w \in V} :
          s \in 0..Len(ans) /\ (s # 0 => ans[s] = 0)
  BY <1>2, <1>7 DEF Once
<1>9. Once(r, V, ans)
  BY <1>1, <1>5, <1>6, <1>8 DEF Once
<1> QED
  BY <1>9 DEF r

\* ans is counted up at s, which is not 0, or not at all.
Counted(ans, s, b) == /\ Len(b) = Len(ans)
                      /\ \A t \in 1..Len(ans) : b[t] = ans[t] + IF t = s THEN 1 ELSE 0

\* The first request is answered at once.
LEMMA OnceNow ==
    ASSUME NEW q, Queue(q), q # <<>>, NEW W, NEW ans \in Seq(Nat), Once(q, W, ans),
           NEW b, Counted(ans, Head(q).seq, b)
    PROVE  Once(Tail(q), W, b)
<1> DEFINE r == Tail(q)
           h == Head(q).seq
<1>1. SeqsOf(q) = SeqsOf(r) \cup {h} /\ Distinct(r, {0}) /\ (h # 0 => h \notin SeqsOf(r))
  BY TailMsgs DEF Once
<1> HIDE DEF r, h
<1>2. \A s \in SeqsOf(r) \cup {w[2] : w \in W} : s # 0 => s # h
  BY <1>1 DEF Once
<1>3. /\ Len(b) = Len(ans) /\ \A t \in 1..Len(ans) : ans[t] \in Nat
      /\ \A t \in 1..Len(ans) : b[t] = ans[t] + IF t = h THEN 1 ELSE 0
  BY DEF Counted, h
<1>4. h \in 0..Len(ans) /\ (h # 0 => ans[h] = 0)
  BY <1>1 DEF Once
<1>5. \A t \in 1..Len(ans) : ans[t] <= 1
  BY DEF Once
<1>6. Len(ans) \in Nat
  OBVIOUS
<1>7. \A t \in 1..Len(ans) : b[t] <= 1
  BY <1>3, <1>4, <1>5, <1>6
<1>8. \A s \in SeqsOf(r) \cup {w[2] : w \in W} :
          s \in 0..Len(ans) /\ (s # 0 => b[s] = 0)
  <2> SUFFICES ASSUME NEW s \in SeqsOf(r) \cup {w[2] : w \in W}
               PROVE  s \in 0..Len(ans) /\ (s # 0 => b[s] = 0)
    OBVIOUS
  <2>1. s \in 0..Len(ans) /\ (s # 0 => ans[s] = 0)
    BY <1>1 DEF Once
  <2> QED
    BY <1>2, <1>3, <1>6, <2>1
<1>9. Once(r, W, b)
  BY <1>1, <1>3, <1>7, <1>8 DEF Once
<1> QED
  BY <1>9 DEF r

\* A logic, or a task, ends with its answer.
LEMMA OnceLater ==
    ASSUME NEW q, NEW W, NEW ans \in Seq(Nat), Once(q, W, ans),
           NEW w \in W, NEW V, V \subseteq W \ {w}, NEW b, Counted(ans, w[2], b)
    PROVE  Once(q, V, b)
<1> DEFINE h == w[2]
<1>1. \A s \in SeqsOf(q) \cup {v[2] : v \in V} : s # 0 => s # h
  BY DEF Once
<1>2. h \in 0..Len(ans) /\ (h # 0 => ans[h] = 0)
  BY DEF Once
<1> HIDE DEF h
<1>3. /\ Len(b) = Len(ans) /\ \A t \in 1..Len(ans) : ans[t] \in Nat
      /\ \A t \in 1..Len(ans) : b[t] = ans[t] + IF t = h THEN 1 ELSE 0
  BY DEF Counted, h
<1>4. \A t \in 1..Len(ans) : ans[t] <= 1
  BY DEF Once
<1>5. Len(ans) \in Nat
  OBVIOUS
<1>6. \A t \in 1..Len(ans) : b[t] <= 1
  BY <1>2, <1>3, <1>4, <1>5
<1>7. \A s \in SeqsOf(q) \cup {v[2] : v \in V} :
          s \in 0..Len(ans) /\ (s # 0 => b[s] = 0)
  <2> SUFFICES ASSUME NEW s \in SeqsOf(q) \cup {v[2] : v \in V}
               PROVE  s \in 0..Len(ans) /\ (s # 0 => b[s] = 0)
    OBVIOUS
  <2>1. s \in 0..Len(ans) /\ (s # 0 => ans[s] = 0)
    BY DEF Once
  <2> QED
    BY <1>1, <1>3, <1>5, <2>1
<1> QED
  BY <1>3, <1>6, <1>7 DEF Once

\* How many of a list of messages have number s: there is one answer at the most.
Count(msgs, s) == Cardinality({i \in DOMAIN msgs : msgs[i].seq = s})

LEMMA CountOne == \A m, s : Count(<<m>>, s) = IF s = m.seq THEN 1 ELSE 0
<1> TAKE m, s
<1>1. DOMAIN <<m>> = {1} /\ <<m>>[1] = m
  OBVIOUS
<1>2. CASE s = m.seq
  <2>1. {i \in DOMAIN <<m>> : <<m>>[i].seq = s} = {1}
    BY <1>1, <1>2
  <2> QED
    BY <1>2, <2>1, FS_Singleton DEF Count
<1>3. CASE s # m.seq
  <2>1. {i \in DOMAIN <<m>> : <<m>>[i].seq = s} = {}
    BY <1>1, <1>3
  <2> QED
    BY <1>3, <2>1, FS_EmptySet DEF Count
<1> QED
  BY <1>2, <1>3

LEMMA CountTwo ==
    \A m, n, s : s # n.seq => Count(<<m, n>>, s) = IF s = m.seq THEN 1 ELSE 0
<1> TAKE m, n, s
<1> HAVE s # n.seq
<1>1. DOMAIN <<m, n>> = {1, 2} /\ <<m, n>>[1] = m /\ <<m, n>>[2] = n
  OBVIOUS
<1>2. CASE s = m.seq
  <2>1. {i \in DOMAIN <<m, n>> : <<m, n>>[i].seq = s} = {1}
    BY <1>1, <1>2
  <2> QED
    BY <1>2, <2>1, FS_Singleton DEF Count
<1>3. CASE s # m.seq
  <2>1. {i \in DOMAIN <<m, n>> : <<m, n>>[i].seq = s} = {}
    BY <1>1, <1>3
  <2> QED
    BY <1>3, <2>1, FS_EmptySet DEF Count
<1> QED
  BY <1>2, <1>3

=============================================================================
