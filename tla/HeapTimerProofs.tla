--------------------------- MODULE HeapTimerProofs ---------------------------
(***************************************************************************)
(* Theorems about HeapTimer, for heaps of every size: its rotations keep   *)
(* the heap in order and the index array exact, free indices are linked    *)
(* without a gap, and it implements TimerSet.  What the recursive          *)
(* functions compute is shown by induction over positions: there is no     *)
(* least one for which it would be wrong.                                  *)
(***************************************************************************)
EXTENDS HeapTimer, WellFoundedInduction, SequenceTheorems, TLAPS

-----------------------------------------------------------------------------
(* Induction over positions, and the loops *)

\* A set of numbers has a least one.
LEMMA LeastOne == \A T \in SUBSET Nat : T # {} => \E n \in T : \A m \in T : n <= m
<1> SUFFICES ASSUME NEW T \in SUBSET Nat, T # {} PROVE \E n \in T : \A m \in T : n <= m
  OBVIOUS
<1>1. PICK R : R = OpToRel(<, Nat)
  OBVIOUS
<1>2. IsWellFoundedOn(R, Nat)
  BY <1>1, NatLessThanWellFounded
<1>3. \A x, y \in Nat : x < y => <<x, y>> \in R
  BY <1>1 DEF OpToRel
<1>4. PICK n \in T : \A m \in T : ~ (<<m, n>> \in R)
  BY <1>2, WFMin
<1>5. \A m \in T : ~(m < n)
  BY <1>3, <1>4
<1>6. \A m \in T : n <= m
  BY <1>5
<1> QED
  BY <1>6

\* A set of numbers has all of them that has each whose predecessors it has.
LEMMA AllNumbers ==
    ASSUME NEW S, \A n \in Nat : (\A m \in 0..n - 1 : m \in S) => n \in S
    PROVE  \A n \in Nat : n \in S
<1>1. PICK T : T = {n \in Nat : n \notin S}
  OBVIOUS
<1>2. ASSUME T # {} PROVE FALSE
  <2>1. PICK n \in T : \A m \in T : n <= m
    BY <1>1, <1>2, LeastOne
  <2>2. \A m \in 0..n - 1 : m \in Nat /\ m < n
    BY <1>1, <2>1
  <2>3. \A m \in 0..n - 1 : m \in S
    BY <1>1, <2>1, <2>2
  <2> QED
    BY <1>1, <2>1, <2>3
<1> QED
  BY <1>1, <1>2

LEMMA Parents ==
    /\ GetParentPos(0) = 0
    /\ \A p \in Nat \ {0} : GetParentPos(p) \in 0..p - 1
    /\ \A p, q \in Nat : p <= q => GetParentPos(p) <= GetParentPos(q)
    /\ \A p \in Nat : GetLeftChildPos(p) \in Nat /\ GetLeftChildPos(p) > p
    /\ \A p \in Nat, q \in Nat \ {0} : GetParentPos(q) = p <=>
           q = GetLeftChildPos(p) \/ q = GetLeftChildPos(p) + 1
  BY DEF GetParentPos, GetLeftChildPos

\* The loop of RotateUp, as a function of the position it has come to.
Up(u, l, node, p) ==
    LET parent == l.heap[GetParentPos(p)]
    IN  IF p > 0 /\ node.expire < parent.expire
        THEN Place(u[GetParentPos(p)], p, parent)
        ELSE Place(l, p, node)
UpIs(u, l, node, n) == u = [p \in 0..n |-> Up(u, l, node, p)]

LEMMA UpExists ==
    ASSUME NEW l, NEW node
    PROVE  \A n \in Nat : \E u : UpIs(u, l, node, n)
<1>1. PICK S : S = {n \in Nat : \E u : UpIs(u, l, node, n)}
  OBVIOUS
<1>2. 0 \in S
  <2>1. PICK u : u = [p \in 0..0 |-> Place(l, p, node)]
    OBVIOUS
  <2>2. UpIs(u, l, node, 0)
    BY <2>1 DEF UpIs, Up
  <2> QED
    BY <1>1, <2>2
<1>3. ASSUME NEW n \in Nat \ {0}, n - 1 \in S PROVE n \in S
  <2>1. PICK u : UpIs(u, l, node, n - 1)
    BY <1>1, <1>3
  <2>2. PICK last : last = Up(u, l, node, n)
    OBVIOUS
  <2>3. PICK v : v = [p \in 0..n |-> IF p = n THEN last ELSE u[p]]
    OBVIOUS
  <2>4. \A p \in 0..n - 1 : v[p] = u[p]
    BY <2>3
  <2>5. \A p \in 0..n - 1 : u[p] = Up(u, l, node, p)
    BY <2>1 DEF UpIs
  <2>6. \A p \in 0..n : p > 0 => v[GetParentPos(p)] = u[GetParentPos(p)]
    BY <2>4, Parents
  <2>7. \A p \in 0..n : Up(v, l, node, p) = Up(u, l, node, p)
    BY <2>6 DEF Up
  <2>8. \A p \in 0..n : v[p] = Up(v, l, node, p)
    BY <2>2, <2>3, <2>4, <2>5, <2>7
  <2>9. UpIs(v, l, node, n)
    BY <2>3, <2>8 DEF UpIs
  <2> QED
    BY <1>1, <2>9
<1>4. \A n \in Nat : (\A m \in 0..n - 1 : m \in S) => n \in S
  BY <1>2, <1>3
<1> QED
  BY <1>1, <1>4, AllNumbers

LEMMA RotateUpIs ==
    ASSUME NEW l, NEW node, NEW n \in Nat
    PROVE  \E u : UpIs(u, l, node, n) /\ RotateUp(l, node, n) = u[n]
<1>1. PICK u : u = CHOOSE v : UpIs(v, l, node, n)
  OBVIOUS
<1>2. UpIs(u, l, node, n)
  BY <1>1, UpExists
<1>3. RotateUp(l, node, n) = u[n]
  BY <1>1 DEF RotateUp, UpIs, Up
<1> QED
  BY <1>2, <1>3

\* The same for the loop of RotateDown.
Child(l, n, p) ==
    LET left == GetLeftChildPos(p)
    IN  IF left + 1 < n /\ l.heap[left].expire >= l.heap[left + 1].expire
        THEN left + 1 ELSE left
Down(d, l, n, node, p) ==
    LET child == Child(l, n, p)
    IN  IF GetLeftChildPos(p) < n /\ node.expire >= l.heap[child].expire
        THEN Place(d[child], p, l.heap[child])
        ELSE Place(l, p, node)
DownIs(d, l, n, node, first) == d = [p \in first..n |-> Down(d, l, n, node, p)]

LEMMA Children ==
    ASSUME NEW l, NEW n \in Nat, NEW p \in Nat, GetLeftChildPos(p) < n
    PROVE  /\ Child(l, n, p) \in p + 1..n - 1
           /\ GetParentPos(Child(l, n, p)) = p
  BY Parents DEF Child, GetLeftChildPos, GetParentPos

LEMMA ChildOf ==
    ASSUME NEW n \in Nat, NEW p \in 0..n - 1, NEW x \in p + 1..n - 1
    PROVE  /\ GetParentPos(x) \in 0..x - 1
           /\ GetParentPos(x) >= p => GetParentPos(x) = p \/ GetParentPos(x) \in p + 1..n - 1
           /\ GetParentPos(x) = p => x = GetLeftChildPos(p) \/ x = GetLeftChildPos(p) + 1
  BY DEF GetLeftChildPos, GetParentPos

LEMMA ParentIn ==
    ASSUME NEW n \in Nat, NEW x \in 0..n - 1
    PROVE  /\ GetParentPos(x) \in 0..n - 1 /\ GetParentPos(x) <= x
           /\ x > 0 => GetParentPos(x) \in 0..x - 1
           /\ x = 0 => GetParentPos(x) = 0
  BY DEF GetParentPos

LEMMA DownExists ==
    ASSUME NEW l, NEW node, NEW n \in Nat
    PROVE  \A m \in Nat : m <= n => \E d : DownIs(d, l, n, node, n - m)
<1>1. PICK S : S = {m \in Nat : m <= n => \E d : DownIs(d, l, n, node, n - m)}
  OBVIOUS
<1>2. 0 \in S
  <2>1. PICK d : d = [p \in n..n |-> Place(l, p, node)]
    OBVIOUS
  <2>2. ~(GetLeftChildPos(n) < n)
    BY Parents
  <2>3. \A p \in n..n : p = n
    OBVIOUS
  <2>4. \A p \in n..n : Down(d, l, n, node, p) = Place(l, p, node)
    BY <2>2, <2>3 DEF Down
  <2>5. DownIs(d, l, n, node, n)
    BY <2>1, <2>4 DEF DownIs
  <2>6. n - 0 = n
    OBVIOUS
  <2>7. \E e : DownIs(e, l, n, node, n - 0)
    BY <2>5, <2>6
  <2> QED
    BY <1>1, <2>7
<1>3. ASSUME NEW m \in Nat \ {0}, m - 1 \in S, m <= n PROVE m \in S
  <2>1. PICK d : DownIs(d, l, n, node, n - (m - 1))
    BY <1>1, <1>3
  <2>2. PICK first : first = n - m
    OBVIOUS
  <2>3. PICK val : val = Down(d, l, n, node, first)
    OBVIOUS
  <2>4. PICK e : e = [p \in first..n |-> IF p = first THEN val ELSE d[p]]
    OBVIOUS
  <2>5. first \in Nat /\ n - (m - 1) = first + 1 /\ first < n
    BY <1>3, <2>2
  <2>6. \A p \in first + 1..n : e[p] = d[p]
    BY <2>4, <2>5
  <2>7. \A p \in first + 1..n : d[p] = Down(d, l, n, node, p)
    BY <2>1, <2>5 DEF DownIs
  <2>8. ASSUME NEW p \in first..n PROVE Down(e, l, n, node, p) = Down(d, l, n, node, p)
    <3>1. p \in Nat
      BY <2>5
    <3>2. GetLeftChildPos(p) < n => Child(l, n, p) \in first + 1..n
      BY <2>5, <3>1, Children
    <3> QED
      BY <2>6, <3>2 DEF Down
  <2>9. \A p \in first..n : e[p] = Down(e, l, n, node, p)
    BY <2>3, <2>4, <2>5, <2>6, <2>7, <2>8
  <2>10. DownIs(e, l, n, node, n - m)
    BY <2>2, <2>4, <2>9 DEF DownIs
  <2> QED
    BY <1>1, <2>10
<1>4. \A m \in Nat : (\A k \in 0..m - 1 : k \in S) => m \in S
  BY <1>1, <1>2, <1>3
<1>5. \A m \in Nat : m \in S
  BY <1>4, AllNumbers
<1> QED
  BY <1>1, <1>5

LEMMA RotateDownIs ==
    ASSUME NEW l, NEW node, NEW n \in Nat, NEW pos \in 0..n
    PROVE  \E d : DownIs(d, l, n, node, 0) /\ RotateDown(l, n, node, pos) = d[pos]
<1>1. PICK d : d = CHOOSE e : DownIs(e, l, n, node, 0)
  OBVIOUS
<1>2. \A m \in Nat : m <= n => \E e : DownIs(e, l, n, node, n - m)
  BY DownExists
<1>3. n <= n /\ n - n = 0
  OBVIOUS
<1>4. \E e : DownIs(e, l, n, node, 0)
  BY <1>2, <1>3, Zenon
<1>5. DownIs(d, l, n, node, 0)
  BY <1>1, <1>4
<1>6. RotateDown(l, n, node, pos) = d[pos]
  BY <1>1 DEF RotateDown, DownIs, Down, Child
<1> QED
  BY <1>5, <1>6

-----------------------------------------------------------------------------
(* What the loops do to the nodes and their indices *)

\* A layout with a hole at p, which is for the node; the nodes at E are at the
\* positions that their indices say.
Hole(l, E, p, node) ==
    /\ E \subseteq DOMAIN l.heap /\ p \notin E
    /\ node.index \in DOMAIN l.index
    /\ \A x \in E : /\ l.heap[x].index \in DOMAIN l.index
                    /\ l.index[l.heap[x].index] = x
                    /\ l.heap[x].index # node.index

AreArrays(l) == /\ l.heap = [x \in DOMAIN l.heap |-> l.heap[x]]
                /\ l.index = [i \in DOMAIN l.index |-> l.index[i]]

\* The node is in now, those at E have changed places, and nothing else has.
Moved(l, r, E, p, node) ==
    /\ AreArrays(r)
    /\ DOMAIN r.heap = DOMAIN l.heap \cup {p}
    /\ DOMAIN r.index = DOMAIN l.index
    /\ \A x \in DOMAIN l.heap \ (E \cup {p}) : r.heap[x] = l.heap[x]
    /\ \A x \in E \cup {p} : r.index[r.heap[x].index] = x
    /\ \A x \in E \cup {p} : r.heap[x] = node \/ \E y \in E : r.heap[x] = l.heap[y]
    /\ \E x \in E \cup {p} : r.heap[x] = node
    /\ \A y \in E : \E x \in E \cup {p} : r.heap[x] = l.heap[y]
    /\ \A i \in DOMAIN l.index :
           i # node.index /\ (\A x \in E : l.heap[x].index # i) => r.index[i] = l.index[i]

LEMMA PlaceIs ==
    ASSUME NEW l, NEW p, NEW node
    PROVE  /\ AreArrays(Place(l, p, node))
           /\ DOMAIN Place(l, p, node).heap = DOMAIN l.heap \cup {p}
           /\ Place(l, p, node).heap[p] = node
           /\ \A x \in DOMAIN l.heap : x # p => Place(l, p, node).heap[x] = l.heap[x]
           /\ DOMAIN Place(l, p, node).index = DOMAIN l.index
           /\ node.index \in DOMAIN l.index => Place(l, p, node).index[node.index] = p
           /\ \A i \in DOMAIN l.index :
                  i # node.index => Place(l, p, node).index[i] = l.index[i]
  BY DEF Place, AreArrays

LEMMA PlaceMoves ==
    ASSUME NEW l, NEW E, NEW p, NEW node, Hole(l, E, p, node)
    PROVE  Moved(l, Place(l, p, node), E, p, node)
<1>1. PICK r : r = Place(l, p, node)
  OBVIOUS
<1>2. /\ DOMAIN r.heap = DOMAIN l.heap \cup {p}
      /\ r.heap[p] = node
      /\ \A x \in DOMAIN l.heap : x # p => r.heap[x] = l.heap[x]
      /\ DOMAIN r.index = DOMAIN l.index
      /\ node.index \in DOMAIN l.index => r.index[node.index] = p
      /\ \A i \in DOMAIN l.index : i # node.index => r.index[i] = l.index[i]
  BY <1>1, PlaceIs
<1>3. \A x \in E : r.heap[x] = l.heap[x] /\ r.index[l.heap[x].index] = x
  BY <1>2 DEF Hole
<1>4. r.index[node.index] = p
  BY <1>2 DEF Hole
<1>5. AreArrays(r)
  BY <1>1, PlaceIs
<1>6. Moved(l, r, E, p, node)
  BY <1>2, <1>3, <1>4, <1>5 DEF Moved
<1> QED
  BY <1>1, <1>6

\* The hole moves on to q.
LEMMA HoleMoves ==
    ASSUME NEW l, NEW E, NEW p, NEW node, Hole(l, E, p, node),
           NEW q \in E, NEW F, F \subseteq E \ {q}
    PROVE  Hole(l, F, q, node)
  BY DEF Hole

LEMMA HoleAmong ==
    ASSUME NEW l, NEW E, NEW p, NEW node, Hole(l, E, p, node), NEW F, F \subseteq E
    PROVE  Hole(l, F, p, node)
  BY DEF Hole

\* The node that was at q goes to p.
LEMMA MovesOn ==
    ASSUME NEW l, NEW E, NEW p, NEW node, Hole(l, E, p, node),
           NEW q \in E, NEW F, F \subseteq E \ {q},
           NEW s, Moved(l, s, F, q, node)
    PROVE  Moved(l, Place(s, p, l.heap[q]), E, p, node)
<1>1. PICK n : n = l.heap[q]
  OBVIOUS
<1>2. PICK r : r = Place(s, p, n)
  OBVIOUS
<1>3. /\ DOMAIN r.heap = DOMAIN s.heap \cup {p}
      /\ r.heap[p] = n
      /\ \A x \in DOMAIN s.heap : x # p => r.heap[x] = s.heap[x]
      /\ DOMAIN r.index = DOMAIN s.index
      /\ n.index \in DOMAIN s.index => r.index[n.index] = p
      /\ \A i \in DOMAIN s.index : i # n.index => r.index[i] = s.index[i]
  BY <1>2, PlaceIs
<1>4. DOMAIN s.heap = DOMAIN l.heap /\ DOMAIN s.index = DOMAIN l.index
  BY DEF Moved, Hole
<1>5. n.index \in DOMAIN l.index /\ l.index[n.index] = q /\ n.index # node.index
  BY <1>1 DEF Hole
<1>6. \A x \in E : x # q => l.heap[x].index # n.index
  BY <1>5 DEF Hole
<1>7. \A x \in E : x \in DOMAIN l.heap /\ x # p /\ r.heap[x] = s.heap[x]
  BY <1>3, <1>4 DEF Hole
<1>8. \A x \in F \cup {q} : s.heap[x] = node \/ \E y \in F : s.heap[x] = l.heap[y]
  BY DEF Moved
<1>9. ASSUME NEW x \in E
      PROVE  /\ r.heap[x] = node \/ \E y \in E : r.heap[x] = l.heap[y]
             /\ r.index[r.heap[x].index] = x
  <2>1. CASE x \in F \cup {q}
    <3>1. s.heap[x].index # n.index
      BY <1>5, <1>6, <1>8, <2>1
    <3>2. s.index[s.heap[x].index] = x
      BY <2>1 DEF Moved
    <3>3. s.heap[x].index \in DOMAIN s.index
      BY <1>4, <1>8, <2>1 DEF Hole
    <3> QED
      BY <1>3, <1>7, <1>8, <2>1, <3>1, <3>2, <3>3
  <2>2. CASE x \notin F \cup {q}
    <3>1. s.heap[x] = l.heap[x]
      BY <1>7, <2>2 DEF Moved
    <3>2. \A y \in F : l.heap[y].index # l.heap[x].index
      BY <2>2 DEF Hole
    <3>3. s.index[l.heap[x].index] = l.index[l.heap[x].index]
      BY <3>2 DEF Moved, Hole
    <3>4. r.index[l.heap[x].index] = x
      BY <1>3, <1>4, <1>6, <2>2, <3>3 DEF Hole
    <3> QED
      BY <1>7, <3>1, <3>4
  <2> QED
    BY <2>1, <2>2
<1>10. \E x \in E \cup {p} : r.heap[x] = node
  BY <1>7 DEF Moved
<1>11. ASSUME NEW y \in E PROVE \E x \in E \cup {p} : r.heap[x] = l.heap[y]
  <2>1. CASE y = q
    BY <1>1, <1>3, <2>1
  <2>2. CASE y \in F
    BY <1>7, <2>2 DEF Moved
  <2>3. CASE y \notin F \cup {q}
    BY <1>7, <2>3 DEF Moved
  <2> QED
    BY <2>1, <2>2, <2>3
<1>12. ASSUME NEW i \in DOMAIN l.index,
              i # node.index /\ \A x \in E : l.heap[x].index # i
       PROVE  r.index[i] = l.index[i]
  BY <1>1, <1>3, <1>4, <1>12 DEF Moved
<1>13. ASSUME NEW x \in DOMAIN l.heap \ (E \cup {p}) PROVE r.heap[x] = l.heap[x]
  BY <1>3, <1>4, <1>13 DEF Moved
<1>14. DOMAIN r.heap = DOMAIN l.heap \cup {p} /\ DOMAIN r.index = DOMAIN l.index
  BY <1>3, <1>4
<1>15. /\ r.heap[p] = l.heap[q]
       /\ r.index[r.heap[p].index] = p
  BY <1>1, <1>3, <1>4, <1>5
<1>16. \A x \in E \cup {p} : r.index[r.heap[x].index] = x
  BY <1>9, <1>15
<1>17. \A x \in E \cup {p} : r.heap[x] = node \/ \E y \in E : r.heap[x] = l.heap[y]
  BY <1>9, <1>15
<1>18. AreArrays(r)
  BY <1>2, PlaceIs
<1>19. Moved(l, r, E, p, node)
  BY <1>10, <1>11, <1>12, <1>13, <1>14, <1>16, <1>17, <1>18 DEF Moved
<1> QED
  BY <1>1, <1>2, <1>19

\* Positions that the loop did not come to may be counted in.
LEMMA MovedAmong ==
    ASSUME NEW l, NEW E, NEW p, NEW node, Hole(l, E, p, node),
           NEW F, F \subseteq E, NEW r, Moved(l, r, F, p, node)
    PROVE  Moved(l, r, E, p, node)
<1>1. \A x \in E \ F : x \in DOMAIN l.heap /\ x # p /\ r.heap[x] = l.heap[x]
  BY DEF Hole, Moved
<1>2. ASSUME NEW x \in E \ F PROVE r.index[r.heap[x].index] = x
  <2>1. \A y \in F : l.heap[y].index # l.heap[x].index
    BY <1>2 DEF Hole
  <2>2. r.index[l.heap[x].index] = l.index[l.heap[x].index]
    BY <2>1, <1>2 DEF Hole, Moved
  <2> QED
    BY <1>1, <2>2 DEF Hole
<1>3. \A x \in E \cup {p} : r.index[r.heap[x].index] = x
  BY <1>2 DEF Moved
<1>4. \A x \in E \cup {p} : r.heap[x] = node \/ \E y \in E : r.heap[x] = l.heap[y]
  BY <1>1 DEF Moved
<1>5. \A y \in E : \E x \in E \cup {p} : r.heap[x] = l.heap[y]
  BY <1>1 DEF Moved
<1> QED
  BY <1>3, <1>4, <1>5 DEF Moved

-----------------------------------------------------------------------------
(* The rotations keep the order *)

\* Before and after the loop of RotateUp at position p.
UpBefore(l, node, p) ==
    /\ Hole(l, 0..p - 1, p, node)
    /\ node.expire \in Int
    /\ \A x \in 0..p - 1 : /\ l.heap[x].expire \in Int
                           /\ l.heap[GetParentPos(x)].expire <= l.heap[x].expire
UpAfter(l, r, node, p) ==
    /\ Moved(l, r, 0..p - 1, p, node)
    /\ \A x \in 0..p : r.heap[GetParentPos(x)].expire <= r.heap[x].expire
    /\ \A x \in 0..p - 1 : r.heap[x].expire <= l.heap[x].expire
    /\ r.heap[p] = node \/ (p > 0 /\ r.heap[p] = l.heap[GetParentPos(p)])
    /\ p > 0 /\ l.heap[0].expire <= node.expire => r.heap[0] = l.heap[0]

LEMMA UpStays ==
    ASSUME NEW l, NEW node, NEW p \in Nat, UpBefore(l, node, p),
           p > 0 => l.heap[GetParentPos(p)].expire <= node.expire
    PROVE  UpAfter(l, Place(l, p, node), node, p)
<1>1. PICK r : r = Place(l, p, node)
  OBVIOUS
<1>2. Moved(l, r, 0..p - 1, p, node)
  BY <1>1, PlaceMoves DEF UpBefore
<1>3. r.heap[p] = node
  BY <1>1, PlaceIs
<1>4. \A x \in 0..p - 1 : r.heap[x] = l.heap[x]
  BY <1>1, PlaceIs DEF UpBefore, Hole
<1>5. \A x \in 0..p - 1 : GetParentPos(x) \in 0..p - 1
  BY Parents
<1>6. p > 0 => GetParentPos(p) \in 0..p - 1 /\ 0 \in 0..p - 1
  BY Parents
<1>7. \A x \in 0..p - 1 : r.heap[GetParentPos(x)].expire <= r.heap[x].expire
  BY <1>4, <1>5 DEF UpBefore
<1>8. r.heap[GetParentPos(p)].expire <= r.heap[p].expire
  <2>1. CASE p = 0
    BY <1>3, <2>1, Parents DEF UpBefore
  <2>2. CASE p > 0
    BY <1>3, <1>4, <1>6, <2>2
  <2> QED
    BY <2>1, <2>2
<1>9. \A x \in 0..p : r.heap[GetParentPos(x)].expire <= r.heap[x].expire
  <2>1. \A x \in 0..p : x \in 0..p - 1 \/ x = p
    OBVIOUS
  <2> QED
    BY <1>7, <1>8, <2>1, Zenon
<1>10. \A x \in 0..p - 1 : r.heap[x].expire <= l.heap[x].expire
  BY <1>4 DEF UpBefore
<1>11. UpAfter(l, r, node, p)
  BY <1>2, <1>3, <1>4, <1>6, <1>9, <1>10 DEF UpAfter
<1> QED
  BY <1>1, <1>11

LEMMA UpGoesOn ==
    ASSUME NEW l, NEW node, NEW p \in Nat \ {0}, UpBefore(l, node, p),
           NEW q, q = GetParentPos(p), node.expire < l.heap[q].expire,
           NEW s, UpAfter(l, s, node, q)
    PROVE  UpAfter(l, Place(s, p, l.heap[q]), node, p)
<1>1. PICK r : r = Place(s, p, l.heap[q])
  OBVIOUS
<1>2. q \in 0..p - 1 /\ q \in Nat /\ 0..q - 1 \subseteq (0..p - 1) \ {q}
  BY Parents
<1>3. Moved(l, r, 0..p - 1, p, node)
  BY <1>1, <1>2, MovesOn DEF UpBefore, UpAfter
<1>4. r.heap[p] = l.heap[q]
  BY <1>1, PlaceIs
<1>5. DOMAIN s.heap = DOMAIN l.heap /\ 0..p - 1 \subseteq DOMAIN l.heap
  BY <1>2 DEF UpBefore, UpAfter, Moved, Hole
<1>6. \A x \in 0..p - 1 : r.heap[x] = s.heap[x]
  BY <1>1, <1>5, PlaceIs
<1>7. \A x \in 0..p - 1 : x > q => s.heap[x] = l.heap[x]
  BY <1>2, <1>5 DEF UpAfter, Moved
<1>8. \A x \in 0..q : s.heap[x].expire \in Int
  <2>1. \A x \in (0..q - 1) \cup {q} :
            s.heap[x] = node \/ \E y \in 0..q - 1 : s.heap[x] = l.heap[y]
    BY DEF UpAfter, Moved
  <2>2. node.expire \in Int /\ \A y \in 0..q - 1 : l.heap[y].expire \in Int
    BY <1>2 DEF UpBefore
  <2>3. \A x \in 0..q : x \in (0..q - 1) \cup {q}
    BY <1>2
  <2> QED
    BY <2>1, <2>2, <2>3
<1>9. s.heap[q].expire <= l.heap[q].expire
  <2>1. CASE s.heap[q] = node
    BY <1>2, <2>1 DEF UpBefore
  <2>2. CASE s.heap[q] # node
    BY <1>2, <2>2, Parents DEF UpBefore, UpAfter
  <2> QED
    BY <2>1, <2>2
<1>10. \A x \in 0..p - 1 : /\ s.heap[x].expire <= l.heap[x].expire
                           /\ s.heap[x].expire \in Int
  <2> SUFFICES ASSUME NEW x \in 0..p - 1
               PROVE  s.heap[x].expire <= l.heap[x].expire /\ s.heap[x].expire \in Int
    OBVIOUS
  <2>1. CASE x < q
    BY <1>2, <1>8, <2>1 DEF UpAfter
  <2>2. CASE x = q
    BY <1>2, <1>8, <1>9, <2>2
  <2>3. CASE x > q
    BY <1>7, <2>3 DEF UpBefore
  <2> QED
    BY <1>2, <2>1, <2>2, <2>3
<1>11. ASSUME NEW x \in 0..p - 1
       PROVE  r.heap[GetParentPos(x)].expire <= r.heap[x].expire
  <2>1. GetParentPos(x) \in 0..p - 1
    BY Parents
  <2>2. CASE x <= q
    BY <1>2, <1>6, <2>1, <2>2 DEF UpAfter
  <2>3. CASE x > q
    <3>1. s.heap[GetParentPos(x)].expire <= l.heap[GetParentPos(x)].expire
      BY <1>10, <2>1
    <3>2. l.heap[GetParentPos(x)].expire <= l.heap[x].expire
      BY DEF UpBefore
    <3>3. l.heap[x].expire \in Int /\ l.heap[GetParentPos(x)].expire \in Int
      BY <2>1 DEF UpBefore
    <3>4. s.heap[GetParentPos(x)].expire \in Int
      BY <1>10, <2>1
    <3> QED
      BY <1>6, <1>7, <2>1, <2>3, <3>1, <3>2, <3>3, <3>4
  <2> QED
    BY <1>2, <2>2, <2>3
<1>12. r.heap[GetParentPos(p)].expire <= r.heap[p].expire
  BY <1>2, <1>4, <1>6, <1>9
<1>13. \A x \in 0..p : r.heap[GetParentPos(x)].expire <= r.heap[x].expire
  BY <1>11, <1>12
<1>14. \A x \in 0..p - 1 : r.heap[x].expire <= l.heap[x].expire
  BY <1>6, <1>10
<1>15. ASSUME l.heap[0].expire <= node.expire PROVE r.heap[0] = l.heap[0]
  <2>1. q # 0
    BY <1>2, <1>15 DEF UpBefore
  <2> QED
    BY <1>2, <1>6, <1>15, <2>1 DEF UpAfter
<1>16. UpAfter(l, r, node, p)
  BY <1>3, <1>4, <1>13, <1>14, <1>15 DEF UpAfter
<1> QED
  BY <1>1, <1>16

LEMMA RotateUpCorrect ==
    ASSUME NEW l, NEW node, NEW pos \in Nat, UpBefore(l, node, pos)
    PROVE  UpAfter(l, RotateUp(l, node, pos), node, pos)
<1>1. PICK u : UpIs(u, l, node, pos) /\ RotateUp(l, node, pos) = u[pos]
  BY RotateUpIs
<1>2. \A p \in 0..pos : u[p] = Up(u, l, node, p)
  BY <1>1 DEF UpIs
<1>3. PICK S : S = {p \in Nat : p <= pos => UpAfter(l, u[p], node, p)}
  OBVIOUS
<1>4. \A p \in 0..pos : UpBefore(l, node, p)
  <2>1. \A p \in 0..pos - 1 : p \in 0..pos - 1 /\ 0..p - 1 \subseteq (0..pos - 1) \ {p}
    OBVIOUS
  <2>2. ASSUME NEW p \in 0..pos - 1 PROVE Hole(l, 0..p - 1, p, node)
    BY <2>1, HoleMoves DEF UpBefore
  <2> QED
    BY <2>1, <2>2 DEF UpBefore
<1>5. ASSUME NEW p \in Nat, \A m \in 0..p - 1 : m \in S, p <= pos
      PROVE  UpAfter(l, u[p], node, p)
  <2>1. PICK q : q = GetParentPos(p)
    OBVIOUS
  <2>2. p > 0 => q \in 0..p - 1
    BY <2>1, Parents
  <2>3. UpBefore(l, node, p)
    BY <1>4, <1>5
  <2>4. u[p] = Up(u, l, node, p)
    BY <1>2, <1>5
  <2>5. CASE p > 0 /\ node.expire < l.heap[q].expire
    <3>1. UpAfter(l, u[q], node, q)
      BY <1>3, <1>5, <2>2, <2>5
    <3>2. UpAfter(l, Place(u[q], p, l.heap[q]), node, p)
      BY <2>1, <2>3, <2>5, <3>1, UpGoesOn
    <3> QED
      BY <2>1, <2>4, <2>5, <3>2 DEF Up
  <2>6. CASE ~(p > 0 /\ node.expire < l.heap[q].expire)
    <3>1. p > 0 => l.heap[q].expire <= node.expire
      BY <2>2, <2>3, <2>6 DEF UpBefore
    <3>2. UpAfter(l, Place(l, p, node), node, p)
      BY <2>1, <2>3, <3>1, UpStays
    <3> QED
      BY <2>1, <2>4, <2>6, <3>2 DEF Up
  <2> QED
    BY <2>5, <2>6
<1>6. \A p \in Nat : (\A m \in 0..p - 1 : m \in S) => p \in S
  BY <1>3, <1>5
<1>7. pos \in S
  BY <1>6, AllNumbers
<1> QED
  BY <1>1, <1>3, <1>7

\* The same for the loop of RotateDown, in a heap of n nodes.
DownBefore(l, n, node, p) ==
    /\ Hole(l, p + 1..n - 1, p, node)
    /\ node.expire \in Int
    /\ \A x \in p + 1..n - 1 :
           /\ l.heap[x].expire \in Int
           /\ GetParentPos(x) > p => l.heap[GetParentPos(x)].expire <= l.heap[x].expire
DownAfter(l, r, n, node, p) ==
    /\ Moved(l, r, p + 1..n - 1, p, node)
    /\ \A x \in p + 1..n - 1 : GetParentPos(x) >= p =>
           r.heap[GetParentPos(x)].expire <= r.heap[x].expire
    /\ \A x \in p + 1..n - 1 : l.heap[x].expire <= r.heap[x].expire
    /\ \/ r.heap[p] = node
       \/ \E c \in p + 1..n - 1 : GetParentPos(c) = p /\ r.heap[p] = l.heap[c]

LEMMA DownStays ==
    ASSUME NEW l, NEW n \in Nat, NEW node, NEW p \in 0..n - 1, DownBefore(l, n, node, p),
           GetLeftChildPos(p) < n => node.expire < l.heap[Child(l, n, p)].expire
    PROVE  DownAfter(l, Place(l, p, node), n, node, p)
<1>1. PICK r : r = Place(l, p, node)
  OBVIOUS
<1>2. Moved(l, r, p + 1..n - 1, p, node)
  BY <1>1, PlaceMoves DEF DownBefore
<1>3. r.heap[p] = node
  BY <1>1, PlaceIs
<1>4. \A x \in p + 1..n - 1 : r.heap[x] = l.heap[x]
  BY <1>1, PlaceIs DEF DownBefore, Hole
<1>5. ASSUME NEW x \in p + 1..n - 1, GetParentPos(x) = p
      PROVE  node.expire <= l.heap[x].expire
  <2>1. x = GetLeftChildPos(p) \/ x = GetLeftChildPos(p) + 1
    BY <1>5, ChildOf
  <2>2. GetLeftChildPos(p) \in p + 1..n - 1
    BY <2>1, Parents
  <2>3. l.heap[Child(l, n, p)].expire <= l.heap[x].expire
    BY <2>1, <2>2 DEF DownBefore, Child
  <2>4. Child(l, n, p) \in p + 1..n - 1
    BY <2>2, Children
  <2> QED
    BY <2>2, <2>3, <2>4 DEF DownBefore
<1>6. ASSUME NEW x \in p + 1..n - 1, GetParentPos(x) >= p
      PROVE  r.heap[GetParentPos(x)].expire <= r.heap[x].expire
  <2>1. GetParentPos(x) = p \/ (GetParentPos(x) > p /\ GetParentPos(x) \in p + 1..n - 1)
    BY <1>6, ChildOf
  <2> QED
    BY <1>3, <1>4, <1>5, <2>1 DEF DownBefore
<1>7. \A x \in p + 1..n - 1 : l.heap[x].expire <= r.heap[x].expire
  BY <1>4 DEF DownBefore
<1>8. DownAfter(l, r, n, node, p)
  BY <1>2, <1>3, <1>6, <1>7 DEF DownAfter
<1> QED
  BY <1>1, <1>8

LEMMA DownGoesOn ==
    ASSUME NEW l, NEW n \in Nat, NEW node, NEW p \in 0..n - 1, DownBefore(l, n, node, p),
           GetLeftChildPos(p) < n,
           NEW c, c = Child(l, n, p), node.expire >= l.heap[c].expire,
           NEW s, DownAfter(l, s, n, node, c)
    PROVE  DownAfter(l, Place(s, p, l.heap[c]), n, node, p)
<1>1. PICK r : r = Place(s, p, l.heap[c])
  OBVIOUS
<1>2. c \in p + 1..n - 1 /\ GetParentPos(c) = p
  BY Children
<1>3. c + 1..n - 1 \subseteq (p + 1..n - 1) \ {c}
  BY <1>2
<1>4. Moved(l, r, p + 1..n - 1, p, node)
  BY <1>1, <1>2, <1>3, MovesOn DEF DownBefore, DownAfter
<1>5. r.heap[p] = l.heap[c]
  BY <1>1, PlaceIs
<1>6. DOMAIN s.heap = DOMAIN l.heap /\ p + 1..n - 1 \subseteq DOMAIN l.heap
  BY <1>2 DEF DownBefore, DownAfter, Moved, Hole
<1>7. \A x \in p + 1..n - 1 : r.heap[x] = s.heap[x]
  BY <1>1, <1>6, PlaceIs
<1>8. \A x \in p + 1..n - 1 : x < c => s.heap[x] = l.heap[x]
  BY <1>2, <1>6 DEF DownAfter, Moved
<1>9. \A x \in p + 1..n - 1 : l.heap[x].expire \in Int
  BY DEF DownBefore
<1>10. \A x \in p + 1..n - 1 : s.heap[x].expire \in Int
  <2>1. \A x \in (c + 1..n - 1) \cup {c} :
            s.heap[x] = node \/ \E y \in c + 1..n - 1 : s.heap[x] = l.heap[y]
    BY DEF DownAfter, Moved
  <2>2. node.expire \in Int /\ \A y \in c + 1..n - 1 : l.heap[y].expire \in Int
    BY <1>2 DEF DownBefore
  <2>3. \A x \in p + 1..n - 1 : x \in (c + 1..n - 1) \cup {c} \/ x < c
    BY <1>2
  <2> QED
    BY <1>8, <1>9, <2>1, <2>2, <2>3
<1>11. l.heap[c].expire <= s.heap[c].expire
  <2>1. CASE s.heap[c] = node
    BY <1>2, <1>9, <2>1 DEF DownBefore
  <2>2. CASE s.heap[c] # node
    <3>1. PICK d \in c + 1..n - 1 : GetParentPos(d) = c /\ s.heap[c] = l.heap[d]
      BY <2>2 DEF DownAfter
    <3>2. d \in p + 1..n - 1 /\ c > p
      BY <1>2
    <3> QED
      BY <3>1, <3>2 DEF DownBefore
  <2> QED
    BY <2>1, <2>2
<1>12. ASSUME NEW x \in p + 1..n - 1 PROVE l.heap[x].expire <= s.heap[x].expire
  <2>1. CASE x < c
    BY <1>8, <1>9, <2>1
  <2>2. CASE x = c
    BY <1>11, <2>2
  <2>3. CASE x > c
    BY <1>2, <2>3 DEF DownAfter
  <2> QED
    BY <1>2, <2>1, <2>2, <2>3
<1>13. ASSUME NEW x \in p + 1..n - 1, GetParentPos(x) = p
       PROVE  l.heap[c].expire <= l.heap[x].expire
  <2>1. x = GetLeftChildPos(p) \/ x = GetLeftChildPos(p) + 1
    BY <1>13, ChildOf
  <2>2. GetLeftChildPos(p) \in p + 1..n - 1
    BY <2>1, Parents
  <2> QED
    BY <1>9, <2>1, <2>2 DEF Child
<1>14. ASSUME NEW x \in p + 1..n - 1, GetParentPos(x) >= p
       PROVE  r.heap[GetParentPos(x)].expire <= r.heap[x].expire
  <2>1. PICK y : y = GetParentPos(x)
    OBVIOUS
  <2>2. y = p \/ y \in p + 1..n - 1
    BY <1>14, <2>1, ChildOf
  <2>3. CASE y = p
    <3>1. l.heap[c].expire <= l.heap[x].expire /\ l.heap[x].expire <= s.heap[x].expire
      BY <1>12, <1>13, <2>1, <2>3
    <3>2. l.heap[c].expire \in Int /\ l.heap[x].expire \in Int /\ s.heap[x].expire \in Int
      BY <1>2, <1>9, <1>10
    <3> QED
      BY <1>5, <1>7, <2>1, <2>3, <3>1, <3>2
  <2>4. CASE y \in p + 1..n - 1 /\ y >= c
    <3>1. x \in c + 1..n - 1
      BY <1>2, <2>1, <2>4, Parents
    <3> QED
      BY <1>7, <2>1, <2>4, <3>1 DEF DownAfter
  <2>5. CASE y \in p + 1..n - 1 /\ y < c
    <3>1. l.heap[y].expire <= l.heap[x].expire
      BY <2>1, <2>5 DEF DownBefore
    <3> QED
      BY <1>7, <1>8, <1>9, <1>10, <1>12, <2>1, <2>5, <3>1
  <2> QED
    BY <1>2, <2>2, <2>3, <2>4, <2>5
<1>15. \A x \in p + 1..n - 1 : l.heap[x].expire <= r.heap[x].expire
  BY <1>7, <1>12
<1>16. DownAfter(l, r, n, node, p)
  BY <1>2, <1>4, <1>5, <1>14, <1>15 DEF DownAfter
<1> QED
  BY <1>1, <1>16

LEMMA RotateDownCorrect ==
    ASSUME NEW l, NEW n \in Nat, NEW node, NEW pos \in 0..n - 1, DownBefore(l, n, node, pos)
    PROVE  DownAfter(l, RotateDown(l, n, node, pos), n, node, pos)
<1>1. PICK d : DownIs(d, l, n, node, 0) /\ RotateDown(l, n, node, pos) = d[pos]
  BY RotateDownIs
<1>2. \A p \in 0..n : d[p] = Down(d, l, n, node, p)
  BY <1>1 DEF DownIs
<1>3. PICK S : S = {m \in Nat : \A p \in pos..n - 1 :
                                    p + m = n - 1 => DownAfter(l, d[p], n, node, p)}
  OBVIOUS
<1>4. ASSUME NEW p \in pos..n - 1 PROVE DownBefore(l, n, node, p)
  <2>1. CASE p = pos
    BY <2>1
  <2>2. CASE p # pos
    <3>1. p \in pos + 1..n - 1 /\ p + 1..n - 1 \subseteq (pos + 1..n - 1) \ {p}
      BY <2>2
    <3>2. Hole(l, p + 1..n - 1, p, node)
      BY <3>1, HoleMoves DEF DownBefore
    <3>3. \A x \in p + 1..n - 1 : x \in pos + 1..n - 1 /\ p > pos
      BY <3>1
    <3>4. \A x \in p + 1..n - 1 : GetParentPos(x) > p => GetParentPos(x) > pos
      BY <3>1, ChildOf
    <3> QED
      BY <3>1, <3>2, <3>3, <3>4 DEF DownBefore
  <2> QED
    BY <2>1, <2>2
<1>5. ASSUME NEW m \in Nat, \A k \in 0..m - 1 : k \in S,
             NEW p \in pos..n - 1, p + m = n - 1
      PROVE  DownAfter(l, d[p], n, node, p)
  <2>1. PICK c : c = Child(l, n, p)
    OBVIOUS
  <2>2. GetLeftChildPos(p) < n => c \in p + 1..n - 1
    BY <2>1, Children
  <2>3. DownBefore(l, n, node, p) /\ p \in 0..n - 1
    BY <1>4
  <2>4. d[p] = Down(d, l, n, node, p)
    BY <1>2
  <2>5. CASE GetLeftChildPos(p) < n /\ node.expire >= l.heap[c].expire
    <3>1. PICK k \in 0..m - 1 : c + k = n - 1
      <4>1. n - 1 - c \in 0..m - 1 /\ c + (n - 1 - c) = n - 1
        BY <1>5, <2>2, <2>5
      <4> QED
        BY <4>1
    <3>2. DownAfter(l, d[c], n, node, c)
      BY <1>3, <1>5, <2>2, <2>5, <3>1
    <3>3. DownAfter(l, Place(d[c], p, l.heap[c]), n, node, p)
      BY <2>1, <2>3, <2>5, <3>2, DownGoesOn
    <3> QED
      BY <2>1, <2>4, <2>5, <3>3 DEF Down
  <2>6. CASE ~(GetLeftChildPos(p) < n /\ node.expire >= l.heap[c].expire)
    <3>1. GetLeftChildPos(p) < n => node.expire < l.heap[c].expire
      BY <2>2, <2>3, <2>6 DEF DownBefore
    <3>2. DownAfter(l, Place(l, p, node), n, node, p)
      BY <2>1, <2>3, <3>1, DownStays
    <3> QED
      BY <2>1, <2>4, <2>6, <3>2 DEF Down
  <2> QED
    BY <2>5, <2>6
<1>6. \A m \in Nat : (\A k \in 0..m - 1 : k \in S) => m \in S
  BY <1>3, <1>5
<1>7. n - 1 - pos \in Nat /\ pos + (n - 1 - pos) = n - 1
  OBVIOUS
<1>8. n - 1 - pos \in S
  BY <1>6, <1>7, AllNumbers
<1>9. DownAfter(l, d[pos], n, node, pos)
  BY <1>3, <1>7, <1>8
<1> QED
  BY <1>1, <1>9

\* The loops together, where position pos is to be filled again with a node
\* that is in place, but not in order.
RefillBefore(l, n, node, pos) ==
    /\ DOMAIN l.heap = 0..n - 1
    /\ Hole(l, (0..n - 1) \ {pos}, pos, node)
    /\ \A x \in 0..n - 1 : l.heap[x].expire \in Int
    /\ l.heap[pos] = node
    /\ \A x \in 0..n - 1 : x # pos /\ GetParentPos(x) # pos =>
           l.heap[GetParentPos(x)].expire <= l.heap[x].expire
    /\ \A x \in 0..n - 1 : x # pos /\ GetParentPos(x) = pos /\ pos > 0 =>
           l.heap[GetParentPos(pos)].expire <= l.heap[x].expire
    /\ pos > 0 => l.heap[0].expire <= node.expire
RefillAfter(l, r, n, node, pos) ==
    /\ Moved(l, r, (0..n - 1) \ {pos}, pos, node)
    /\ \A x \in 0..n - 1 : r.heap[GetParentPos(x)].expire <= r.heap[x].expire
    /\ pos > 0 => r.heap[0] = l.heap[0]

LEMMA RefillCorrect ==
    ASSUME NEW l, NEW n \in Nat, NEW node, NEW pos \in 0..n - 1,
           RefillBefore(l, n, node, pos), NEW r, r = Refill(l, n, node, pos)
    PROVE  RefillAfter(l, r, n, node, pos)
<1>1. GetParentPos(pos) \in 0..n - 1 /\ (pos > 0 => GetParentPos(pos) \in 0..pos - 1)
  BY ParentIn
<1>3. /\ node.expire \in Int /\ Hole(l, (0..n - 1) \ {pos}, pos, node)
      /\ \A x \in 0..n - 1 : l.heap[x].expire \in Int
  BY DEF RefillBefore
<1>2. \A x \in 0..n - 1 : x # pos /\ GetParentPos(x) # pos =>
           l.heap[GetParentPos(x)].expire <= l.heap[x].expire
  BY DEF RefillBefore
<1>4. /\ pos + 1..n - 1 \subseteq (0..n - 1) \ {pos}
      /\ 0..pos - 1 \subseteq (0..n - 1) \ {pos}
  OBVIOUS
<1>5. CASE node.expire >= l.heap[GetParentPos(pos)].expire
  <2>1. r = RotateDown(l, n, node, pos)
    BY <1>5 DEF Refill
  <2>2. DownBefore(l, n, node, pos)
    <3>1. Hole(l, pos + 1..n - 1, pos, node)
      BY <1>3, <1>4, HoleAmong
    <3>2. \A x \in pos + 1..n - 1 : x # pos /\ x \in 0..n - 1
      OBVIOUS
    <3> QED
      BY <1>2, <1>3, <3>1, <3>2 DEF DownBefore
  <2>3. DownAfter(l, r, n, node, pos)
    BY <2>1, <2>2, RotateDownCorrect
  <2>4. Moved(l, r, (0..n - 1) \ {pos}, pos, node)
    BY <1>3, <1>4, <2>3, MovedAmong DEF DownAfter
  <2>5. \A x \in 0..n - 1 : x < pos => r.heap[x] = l.heap[x]
    <3>1. \A x \in 0..n - 1 : x < pos => x \notin (pos + 1..n - 1) \cup {pos}
      OBVIOUS
    <3> QED
      BY <2>3, <3>1 DEF DownAfter, Moved, RefillBefore
  <2>6. ASSUME pos > 0
        PROVE  /\ r.heap[pos].expire \in Int
               /\ l.heap[GetParentPos(pos)].expire <= r.heap[pos].expire
    <3>1. CASE r.heap[pos] = node
      BY <1>1, <1>3, <1>5, <3>1
    <3>2. CASE r.heap[pos] # node
      <4>1. PICK c \in pos + 1..n - 1 : GetParentPos(c) = pos /\ r.heap[pos] = l.heap[c]
        BY <2>3, <3>2 DEF DownAfter
      <4> QED
        BY <1>2, <1>1, <1>3, <1>4, <2>6, <4>1 DEF RefillBefore
    <3> QED
      BY <3>1, <3>2
  <2>7. \A x \in 0..n - 1 : r.heap[x].expire \in Int
    <3>1. \A x \in ((0..n - 1) \ {pos}) \cup {pos} :
              r.heap[x] = node \/ \E y \in (0..n - 1) \ {pos} : r.heap[x] = l.heap[y]
      BY <2>4 DEF Moved
    <3> QED
      BY <1>3, <3>1
  <2>8. ASSUME NEW x \in 0..n - 1
        PROVE  r.heap[GetParentPos(x)].expire <= r.heap[x].expire
    <3>1. CASE x > pos /\ GetParentPos(x) >= pos
      BY <2>3, <3>1 DEF DownAfter
    <3>2. CASE x > pos /\ GetParentPos(x) < pos
      <4>1. r.heap[GetParentPos(x)] = l.heap[GetParentPos(x)]
        BY ParentIn, <2>5, <3>2
      <4>2. l.heap[x].expire <= r.heap[x].expire
        BY <2>3, <3>2 DEF DownAfter
      <4>3. l.heap[GetParentPos(x)].expire <= l.heap[x].expire
        BY <1>2, ParentIn, <3>2
      <4> QED
        <5>1. GetParentPos(x) \in 0..n - 1
          BY ParentIn
        <5>2. /\ l.heap[GetParentPos(x)].expire \in Int /\ l.heap[x].expire \in Int
              /\ r.heap[x].expire \in Int
          BY <1>3, <2>7, <5>1
        <5> QED
          BY <4>1, <4>2, <4>3, <5>2
    <3>3. CASE x = pos
      <4>1. CASE pos > 0
        BY <1>1, <2>5, <2>6, <3>3, <4>1
      <4>2. CASE pos = 0
        BY <2>7, <3>3, <4>2, ParentIn
      <4> QED
        BY <4>1, <4>2
    <3>4. CASE x < pos
      <4>1. GetParentPos(x) \in 0..n - 1 /\ GetParentPos(x) < pos
        BY <3>4, ParentIn
      <4>2. l.heap[GetParentPos(x)].expire <= l.heap[x].expire
        BY <1>2, <3>4, <4>1
      <4> QED
        BY <2>5, <3>4, <4>1, <4>2
    <3> QED
      BY ParentIn, <3>1, <3>2, <3>3, <3>4
  <2>9. pos > 0 => r.heap[0] = l.heap[0]
    BY <2>5
  <2> QED
    BY <2>4, <2>8, <2>9 DEF RefillAfter
<1>6. CASE node.expire < l.heap[GetParentPos(pos)].expire
  <2>1. r = RotateUp(l, node, pos)
    BY <1>1, <1>3, <1>6 DEF Refill
  <2>2. pos > 0
    BY <1>3, <1>6, ParentIn DEF RefillBefore
  <2>3. UpBefore(l, node, pos)
    <3>1. Hole(l, 0..pos - 1, pos, node)
      BY <1>3, <1>4, HoleAmong
    <3>2. \A x \in 0..pos - 1 : GetParentPos(x) # pos
      BY ParentIn
    <3> QED
      BY <1>2, <1>3, <1>4, <3>1, <3>2 DEF UpBefore
  <2>4. UpAfter(l, r, node, pos)
    BY <2>1, <2>3, RotateUpCorrect
  <2>5. Moved(l, r, (0..n - 1) \ {pos}, pos, node)
    BY <1>3, <1>4, <2>4, MovedAmong DEF UpAfter
  <2>6. \A x \in 0..n - 1 : x > pos => r.heap[x] = l.heap[x]
    BY <2>4 DEF UpAfter, Moved, RefillBefore
  <2>7. /\ r.heap[pos].expire \in Int
        /\ r.heap[pos].expire <= l.heap[GetParentPos(pos)].expire
    BY <1>1, <1>3, <1>6, <2>4 DEF UpAfter
  <2>8. \A x \in 0..n - 1 : r.heap[x].expire \in Int
    <3>1. \A x \in ((0..n - 1) \ {pos}) \cup {pos} :
              r.heap[x] = node \/ \E y \in (0..n - 1) \ {pos} : r.heap[x] = l.heap[y]
      BY <2>5 DEF Moved
    <3> QED
      BY <1>3, <3>1
  <2>9. ASSUME NEW x \in 0..n - 1
        PROVE  r.heap[GetParentPos(x)].expire <= r.heap[x].expire
    <3>1. CASE x <= pos
      BY <2>4, <3>1 DEF UpAfter
    <3>2. CASE x > pos /\ GetParentPos(x) = pos
      <4>1. l.heap[GetParentPos(pos)].expire <= l.heap[x].expire
        BY <2>2, <3>2 DEF RefillBefore
      <4> QED
        <5>1. l.heap[GetParentPos(pos)].expire \in Int /\ l.heap[x].expire \in Int
          BY <1>1, <1>3
        <5>2. r.heap[x] = l.heap[x]
          BY <2>6, <3>2
        <5> QED
          BY <2>7, <3>2, <4>1, <5>1, <5>2
    <3>3. CASE x > pos /\ GetParentPos(x) < pos
      <4>1. r.heap[GetParentPos(x)].expire <= l.heap[GetParentPos(x)].expire
        <5>1. GetParentPos(x) \in 0..pos - 1
          BY ParentIn, <3>3
        <5> QED
          BY <2>4, <5>1 DEF UpAfter
      <4>2. l.heap[GetParentPos(x)].expire <= l.heap[x].expire
        BY <1>2, ParentIn, <3>3
      <4> QED
        BY ParentIn, <1>3, <2>6, <2>8, <3>3, <4>1, <4>2
    <3>4. CASE x > pos /\ GetParentPos(x) > pos
      <4>1. l.heap[GetParentPos(x)].expire <= l.heap[x].expire
        BY <1>2, <3>4
      <4> QED
        BY ParentIn, <2>6, <3>4, <4>1
    <3> QED
      BY ParentIn, <3>1, <3>2, <3>3, <3>4
  <2>10. r.heap[0] = l.heap[0]
    BY <1>3, <2>2, <2>4 DEF UpAfter, RefillBefore
  <2> QED
    BY <2>5, <2>9, <2>10 DEF RefillAfter
<1> QED
  BY <1>1, <1>3, <1>5, <1>6

-----------------------------------------------------------------------------
(* The invariants *)

Node == [index : Nat, tag : Nat, expire : Nat, interval : Nat]

TypeInv ==
    /\ heap_size \in Nat /\ cur_size \in Nat /\ cur_size + 2 <= heap_size
    /\ heap \in [Positions -> Node]
    /\ timer_node_index_array \in [0..heap_size - 1 -> Int]
    /\ rand_array \in [0..heap_size - 1 -> Nat]
    /\ free_timer_node_index \in Indices
    /\ made \in Seq(Nat)
    /\ clock \in Nat
    /\ now \in Nat \cup {NotPolling}
    /\ expire_node \in Node

\* Nodes and used indices lead to each other.
IndexInv ==
    /\ \A p \in Positions : /\ heap[p].index \in Indices
                            /\ timer_node_index_array[heap[p].index] = p
    /\ \A i \in Indices : timer_node_index_array[i] >= 0 =>
           /\ timer_node_index_array[i] \in Positions
           /\ heap[timer_node_index_array[i]].index = i

\* Tags are those of the ids that were returned.
TagInv ==
    /\ \A p \in Positions : /\ heap[p].tag \in DOMAIN made
                            /\ made[heap[p].tag] = heap[p].index
                            /\ rand_array[heap[p].index] = heap[p].tag
    /\ \A tag \in DOMAIN made : made[tag] \in Indices

\* The free indices are on a list that ends behind the array.
Chain(f, k) ==
    /\ f \in [0..k -> Nat]
    /\ f[0] = free_timer_node_index /\ f[k] = heap_size
    /\ \A j \in 0..k - 1 : /\ f[j] \in Indices
                           /\ timer_node_index_array[f[j]] = -f[j + 1]
    /\ \A i, j \in 0..k : f[i] = f[j] => i = j
    /\ \A i \in Indices : timer_node_index_array[i] < 0 => \E j \in 0..k - 1 : f[j] = i
FreeInv == \E f : Chain(f, heap_size - 1 - cur_size)

\* The node whose callback runs is still on top, unless it is gone.
PollInv ==
    /\ now <= clock
    /\ expire_node # NoNode =>
           /\ now # NotPolling /\ expire_node.expire <= now
           /\ expire_node.tag \in DOMAIN made
           /\ StillArmed => heap[0] = expire_node

HeapInv == TypeInv /\ IndexInv /\ TagInv /\ HeapOrdered /\ FreeInv /\ PollInv

-----------------------------------------------------------------------------
(* Each kind of step *)

\* What RemoveNode does: h and index are what it leaves, with n nodes.
Removal(h, index, n, pos) ==
    /\ h \in [0..n - 1 -> Node]
    /\ index \in [0..heap_size - 1 -> Int]
    /\ \A p \in 0..n - 1 : h[GetParentPos(p)].expire <= h[p].expire
    /\ \A p \in 0..n - 1 : \E q \in Positions \ {pos} : h[p] = heap[q]
    /\ \A q \in Positions \ {pos} : \E p \in 0..n - 1 : h[p] = heap[q]
    /\ \A p \in 0..n - 1 : index[h[p].index] = p
    /\ index[heap[pos].index] = -free_timer_node_index
    /\ \A i \in Indices : timer_node_index_array[i] < 0 =>
           index[i] = timer_node_index_array[i]
    /\ pos > 0 => h[0] = heap[0]
Removed(pos) ==
    /\ Removal(heap', timer_node_index_array', cur_size - 1, pos)
    /\ cur_size' = cur_size - 1
    /\ heap_size' = heap_size
    /\ free_timer_node_index' = heap[pos].index
    /\ rand_array' = [rand_array EXCEPT ![heap[pos].index] = 0]

LEMMA HeapNodes ==
    ASSUME TypeInv, NEW p \in Positions
    PROVE  /\ heap[p] \in Node /\ p \in Nat
           /\ heap[p].index \in Nat /\ heap[p].tag \in Nat
           /\ heap[p].expire \in Nat /\ heap[p].interval \in Nat
<1>1. heap[p] \in Node
  BY DEF TypeInv
<1>2. p \in Nat
  BY DEF Positions, TypeInv
<1> QED
  BY <1>1, <1>2 DEF Node

LEMMA RootFirst ==
    ASSUME TypeInv, HeapOrdered
    PROVE  \A p \in Positions : heap[0].expire <= heap[p].expire
<1>1. PICK S : S = {p \in Nat : p \in Positions => heap[0].expire <= heap[p].expire}
  OBVIOUS
<1>2. ASSUME NEW p \in Nat, \A m \in 0..p - 1 : m \in S, p \in Positions
      PROVE  heap[0].expire <= heap[p].expire
  <2>1. CASE p = 0
    BY <1>2, <2>1 DEF TypeInv, Node, Positions
  <2>2. CASE p > 0
    <3>1. PICK q : q = GetParentPos(p)
      OBVIOUS
    <3>2. q \in 0..p - 1 /\ q \in Nat
      BY <2>2, <3>1, Parents
    <3>3. q \in Positions /\ 0 \in Positions
      BY <1>2, <2>2, <3>2 DEF Positions, TypeInv
    <3>4. heap[0].expire <= heap[q].expire
      BY <1>1, <1>2, <3>2, <3>3
    <3>5. heap[q].expire <= heap[p].expire
      BY <1>2, <3>1 DEF HeapOrdered
    <3>6. heap[0].expire \in Int /\ heap[q].expire \in Int /\ heap[p].expire \in Int
      BY <1>2, <3>3, HeapNodes
    <3> QED
      BY <3>4, <3>5, <3>6
  <2> QED
    BY <2>1, <2>2
<1>3. \A p \in Nat : p \in S
  BY <1>1, <1>2, AllNumbers
<1>4. \A p \in Positions : p \in Nat
  BY DEF Positions, TypeInv
<1> QED
  BY <1>1, <1>3, <1>4

\* Two nodes do not share an index.
LEMMA IndicesApart ==
    ASSUME IndexInv, NEW p \in Positions, NEW q \in Positions, heap[p].index = heap[q].index
    PROVE  p = q
  BY DEF IndexInv

\* The heap without its last node, and the array in which the node at pos has
\* given its index back: the layout that RemoveNode works on.
Rest(pos) == [heap  |-> [i \in 0..cur_size - 1 - 1 |-> heap[i]],
              index |-> [timer_node_index_array EXCEPT
                            ![heap[pos].index] = -free_timer_node_index]]
IsRest(rest, n, pos) ==
    /\ AreArrays(rest)
    /\ DOMAIN rest.heap = 0..n - 1
    /\ \A x \in 0..n - 1 : rest.heap[x] = heap[x]
    /\ DOMAIN rest.index = 0..heap_size - 1
    /\ rest.index[heap[pos].index] = -free_timer_node_index
    /\ \A i \in 0..heap_size - 1 : i # heap[pos].index =>
           rest.index[i] = timer_node_index_array[i]
Placed(l, rest, p, node) ==
    /\ DOMAIN l.heap = DOMAIN rest.heap \cup {p}
    /\ l.heap[p] = node
    /\ \A x \in DOMAIN rest.heap : x # p => l.heap[x] = rest.heap[x]
    /\ DOMAIN l.index = DOMAIN rest.index
    /\ \A i \in DOMAIN rest.index : i # node.index => l.index[i] = rest.index[i]

LEMMA RestIs ==
    ASSUME TypeInv, IndexInv, NEW pos \in Positions
    PROVE  IsRest(Rest(pos), cur_size - 1, pos)
<1>1. heap[pos].index \in 0..heap_size - 1
  BY DEF IndexInv, Indices, TypeInv
<1>2. timer_node_index_array \in [0..heap_size - 1 -> Int]
  BY DEF TypeInv
<1> QED
  BY <1>1, <1>2 DEF IsRest, Rest, AreArrays

LEMMA PlacedIs ==
    ASSUME NEW rest, NEW p, NEW node
    PROVE  Placed(Place(rest, p, node), rest, p, node)
  BY PlaceIs DEF Placed

\* What it hands to Refill.
LEMMA LastFills ==
    ASSUME TypeInv, IndexInv, HeapOrdered, NEW pos \in Positions,
           NEW n, n = cur_size - 1, pos < n,
           NEW rest, IsRest(rest, n, pos),
           NEW l, Placed(l, rest, pos, heap[n])
    PROVE  /\ RefillBefore(l, n, heap[n], pos)
           /\ DOMAIN l.heap = 0..n - 1 /\ DOMAIN l.index = 0..heap_size - 1
           /\ \A x \in 0..n - 1 : x # pos => l.heap[x] = heap[x]
           /\ \A i \in 0..heap_size - 1 : i # heap[pos].index /\ i # heap[n].index =>
                  l.index[i] = timer_node_index_array[i]
           /\ l.index[heap[pos].index] = -free_timer_node_index
<1>1. /\ n \in Nat /\ n \in Positions /\ pos \in 0..n - 1
      /\ cur_size \in Nat /\ heap_size \in Nat
      /\ Positions = 0..n /\ 0..n - 1 \subseteq Positions
  BY DEF Positions, TypeInv
<1>3. /\ heap[pos].index \in Indices /\ heap[n].index \in Indices
      /\ heap[pos].index # heap[n].index
      /\ Indices \subseteq 0..heap_size - 1
  BY <1>1, IndicesApart DEF IndexInv, Indices
<1>5. l.heap[pos] = heap[n]
  BY DEF Placed
<1>6. DOMAIN l.heap = 0..n - 1 /\ DOMAIN l.index = 0..heap_size - 1
  BY <1>1 DEF Placed, IsRest
<1>7. \A x \in 0..n - 1 : x # pos => l.heap[x] = heap[x]
  BY DEF Placed, IsRest
<1>8. \A i \in 0..heap_size - 1 : i # heap[pos].index /\ i # heap[n].index =>
          l.index[i] = timer_node_index_array[i]
  BY DEF Placed, IsRest
<1>9. l.index[heap[pos].index] = -free_timer_node_index
  BY <1>3 DEF Placed, IsRest
<1>10. Hole(l, (0..n - 1) \ {pos}, pos, heap[n])
  <2>1. ASSUME NEW x \in (0..n - 1) \ {pos}
        PROVE  /\ l.heap[x].index \in DOMAIN l.index
               /\ l.index[l.heap[x].index] = x
               /\ l.heap[x].index # heap[n].index
    <3>1. x \in Positions /\ x # n /\ x # pos
      BY <1>1
    <3>2. heap[x].index \in Indices /\ timer_node_index_array[heap[x].index] = x
      BY <3>1 DEF IndexInv
    <3>3. heap[x].index # heap[n].index /\ heap[x].index # heap[pos].index
      BY <1>1, <3>1, IndicesApart
    <3>4. l.heap[x] = heap[x]
      BY <1>7, <3>1
    <3>5. heap[x].index \in 0..heap_size - 1
      BY <1>3, <3>2
    <3>6. l.index[heap[x].index] = timer_node_index_array[heap[x].index]
      BY <1>8, <3>3, <3>5
    <3> QED
      BY <1>6, <3>2, <3>3, <3>4, <3>5, <3>6, Zenon
  <2> QED
    BY <1>3, <1>6, <2>1 DEF Hole
<1>11. \A x \in 0..n - 1 : l.heap[x].expire \in Int
  <2>1. \A x \in Positions : heap[x].expire \in Int
    BY HeapNodes
  <2> QED
    BY <1>1, <1>5, <1>7, <2>1
<1>12. ASSUME NEW x \in 0..n - 1, x # pos, GetParentPos(x) # pos
       PROVE  l.heap[GetParentPos(x)].expire <= l.heap[x].expire
  <2>1. GetParentPos(x) \in 0..n - 1
    BY <1>1, ParentIn
  <2>2. l.heap[GetParentPos(x)] = heap[GetParentPos(x)] /\ l.heap[x] = heap[x]
    BY <1>7, <1>12, <2>1
  <2> QED
    BY <1>1, <2>2 DEF HeapOrdered
<1>13. ASSUME NEW x \in 0..n - 1, x # pos, GetParentPos(x) = pos, pos > 0
       PROVE  l.heap[GetParentPos(pos)].expire <= l.heap[x].expire
  <2>1. GetParentPos(pos) \in 0..n - 1 /\ GetParentPos(pos) # pos
    BY <1>1, <1>13, ParentIn
  <2>2. l.heap[GetParentPos(pos)] = heap[GetParentPos(pos)] /\ l.heap[x] = heap[x]
    BY <1>7, <1>13, <2>1
  <2>3. heap[GetParentPos(pos)].expire <= heap[pos].expire
    BY DEF HeapOrdered
  <2>4. heap[pos].expire <= heap[x].expire
    BY <1>1, <1>13 DEF HeapOrdered
  <2>5. x \in Positions /\ GetParentPos(pos) \in Positions
    BY <1>1, <2>1
  <2>6. /\ heap[GetParentPos(pos)].expire \in Nat
        /\ heap[pos].expire \in Nat
        /\ heap[x].expire \in Nat
    BY <2>5, HeapNodes, Zenon
  <2> QED
    BY <2>2, <2>3, <2>4, <2>6
<1>14. pos > 0 => l.heap[0].expire <= heap[n].expire
  BY <1>1, <1>7, RootFirst
<1>15. RefillBefore(l, n, heap[n], pos)
  BY <1>5, <1>6, <1>10, <1>11, <1>12, <1>13, <1>14 DEF RefillBefore
<1> QED
  BY <1>6, <1>7, <1>8, <1>9, <1>15

LEMMA RefillRemoves ==
    ASSUME TypeInv, IndexInv, HeapOrdered, NEW pos \in Positions,
           NEW n, n = cur_size - 1, pos < n,
           NEW rest, IsRest(rest, n, pos),
           NEW l, Placed(l, rest, pos, heap[n]),
           NEW r, RefillAfter(l, r, n, heap[n], pos)
    PROVE  Removal(r.heap, r.index, n, pos)
<1>1. /\ n \in Nat /\ n \in Positions /\ pos \in 0..n - 1
      /\ cur_size \in Nat /\ heap_size \in Nat
      /\ Positions = 0..n /\ 0..n - 1 \subseteq Positions
      /\ ((0..n - 1) \ {pos}) \cup {pos} = 0..n - 1
      /\ Positions \ {pos} = ((0..n - 1) \ {pos}) \cup {n}
  <2>1. /\ n \in Nat /\ n \in Positions /\ pos \in 0..n - 1
        /\ cur_size \in Nat /\ heap_size \in Nat /\ Positions = 0..n
    BY DEF Positions, TypeInv
  <2>2. 0..n = (0..n - 1) \cup {n} /\ n \notin 0..n - 1
    BY <2>1
  <2> QED
    BY <2>1, <2>2
<1>2. /\ RefillBefore(l, n, heap[n], pos)
      /\ DOMAIN l.heap = 0..n - 1 /\ DOMAIN l.index = 0..heap_size - 1
      /\ \A x \in 0..n - 1 : x # pos => l.heap[x] = heap[x]
      /\ \A i \in 0..heap_size - 1 : i # heap[pos].index /\ i # heap[n].index =>
             l.index[i] = timer_node_index_array[i]
      /\ l.index[heap[pos].index] = -free_timer_node_index
  BY LastFills
<1>3. /\ Moved(l, r, (0..n - 1) \ {pos}, pos, heap[n])
      /\ \A x \in 0..n - 1 : r.heap[GetParentPos(x)].expire <= r.heap[x].expire
      /\ pos > 0 => r.heap[0] = l.heap[0]
  BY DEF RefillAfter
<1>4. /\ AreArrays(r)
      /\ DOMAIN r.heap = 0..n - 1 /\ DOMAIN r.index = 0..heap_size - 1
  <2>1. AreArrays(r) /\ DOMAIN r.heap = DOMAIN l.heap \cup {pos} /\ DOMAIN r.index = DOMAIN l.index
    BY <1>3 DEF Moved
  <2>2. (0..n - 1) \cup {pos} = 0..n - 1
    BY <1>1
  <2> QED
    BY <1>2, <2>1, <2>2, Zenon
<1>5. \A x \in 0..n - 1 : \E q \in Positions \ {pos} : r.heap[x] = heap[q]
  <2>1. \A x \in 0..n - 1 : r.heap[x] = heap[n] \/
                              \E y \in (0..n - 1) \ {pos} : r.heap[x] = l.heap[y]
    BY <1>1, <1>3 DEF Moved
  <2>2. \A y \in (0..n - 1) \ {pos} : l.heap[y] = heap[y] /\ y \in Positions \ {pos}
    BY <1>1, <1>2
  <2>3. n \in Positions \ {pos}
    BY <1>1
  <2> QED
    BY <2>1, <2>2, <2>3, Zenon
<1>6. \A q \in Positions \ {pos} : \E x \in 0..n - 1 : r.heap[x] = heap[q]
  <2>1. /\ \E x \in 0..n - 1 : r.heap[x] = heap[n]
        /\ \A y \in (0..n - 1) \ {pos} : \E x \in 0..n - 1 : r.heap[x] = l.heap[y]
    BY <1>1, <1>3 DEF Moved
  <2>2. \A q \in Positions \ {pos} : q = n \/ (q \in (0..n - 1) \ {pos} /\ l.heap[q] = heap[q])
    BY <1>1, <1>2
  <2> QED
    BY <2>1, <2>2
<1>7. \A x \in 0..n - 1 : r.index[r.heap[x].index] = x
  BY <1>1, <1>3 DEF Moved
<1>8. ASSUME NEW i \in 0..heap_size - 1, \A q \in Positions \ {pos} : heap[q].index # i
      PROVE  r.index[i] = l.index[i]
  <2>1. i # heap[n].index /\ \A x \in (0..n - 1) \ {pos} : l.heap[x].index # i
    BY <1>1, <1>2, <1>8
  <2> QED
    BY <1>2, <1>3, <2>1 DEF Moved
<1>9. \A q \in Positions : heap[q].index \in Indices /\ heap[q].index \in 0..heap_size - 1
  BY <1>1 DEF IndexInv, Indices
<1>10. r.index[heap[pos].index] = -free_timer_node_index
  <2>1. \A q \in Positions \ {pos} : heap[q].index # heap[pos].index
    BY IndicesApart
  <2> QED
    BY <1>2, <1>8, <1>9, <2>1
<1>11. ASSUME NEW i \in Indices, timer_node_index_array[i] < 0
       PROVE  r.index[i] = timer_node_index_array[i]
  <2>1. i \in 0..heap_size - 1
    BY <1>1 DEF Indices
  <2>2. \A q \in Positions : heap[q].index # i
    BY <1>1, <1>11 DEF IndexInv
  <2>3. l.index[i] = timer_node_index_array[i]
    BY <1>1, <1>2, <2>1, <2>2
  <2> QED
    BY <1>8, <2>1, <2>2, <2>3
<1>12. ASSUME NEW i \in 0..heap_size - 1 PROVE r.index[i] \in Int
  <2>1. CASE \E q \in Positions \ {pos} : heap[q].index = i
    <3>1. PICK x \in 0..n - 1 : r.heap[x].index = i
      BY <1>6, <2>1
    <3> QED
      BY <1>7, <3>1
  <2>2. CASE \A q \in Positions \ {pos} : heap[q].index # i
    <3>1. r.index[i] = l.index[i]
      BY <1>8, <2>2
    <3>2. i # heap[n].index
      BY <1>1, <2>2
    <3>3. timer_node_index_array[i] \in Int /\ free_timer_node_index \in Int
      BY <1>1 DEF TypeInv, Indices
    <3> QED
      BY <1>2, <3>1, <3>2, <3>3
  <2> QED
    BY <2>1, <2>2
<1>13. r.heap \in [0..n - 1 -> Node]
  <2>1. \A x \in 0..n - 1 : r.heap[x] \in Node
    BY <1>5, HeapNodes
  <2> QED
    BY <1>4, <2>1 DEF AreArrays
<1>14. r.index \in [0..heap_size - 1 -> Int]
  BY <1>4, <1>12 DEF AreArrays
<1>15. pos > 0 => r.heap[0] = heap[0]
  BY <1>1, <1>2, <1>3
<1> QED
  BY <1>3, <1>5, <1>6, <1>7, <1>10, <1>11, <1>13, <1>14, <1>15 DEF Removal

LEMMA LastRemoved ==
    ASSUME TypeInv, IndexInv, HeapOrdered, NEW pos \in Positions,
           NEW n, n = cur_size - 1, pos = n,
           NEW rest, IsRest(rest, n, pos)
    PROVE  Removal(rest.heap, rest.index, n, pos)
<1>1. /\ n \in Nat /\ cur_size \in Nat /\ heap_size \in Nat
      /\ 0..n - 1 = Positions \ {pos}
  BY DEF Positions, TypeInv
<1>2. /\ AreArrays(rest)
      /\ DOMAIN rest.heap = 0..n - 1
      /\ \A x \in 0..n - 1 : rest.heap[x] = heap[x]
      /\ DOMAIN rest.index = 0..heap_size - 1
      /\ rest.index[heap[pos].index] = -free_timer_node_index
      /\ \A i \in 0..heap_size - 1 : i # heap[pos].index =>
             rest.index[i] = timer_node_index_array[i]
  BY DEF IsRest
<1>3. \A x \in 0..n - 1 : rest.heap[x] \in Node
  BY <1>1, <1>2, HeapNodes
<1>4. rest.heap \in [0..n - 1 -> Node]
  BY <1>2, <1>3 DEF AreArrays
<1>5. \A i \in 0..heap_size - 1 : rest.index[i] \in Int
  <2>1. \A i \in 0..heap_size - 1 : timer_node_index_array[i] \in Int
    BY DEF TypeInv
  <2>2. free_timer_node_index \in Int
    BY <1>1 DEF TypeInv, Indices
  <2> QED
    BY <1>2, <2>1, <2>2
<1>6. rest.index \in [0..heap_size - 1 -> Int]
  BY <1>2, <1>5 DEF AreArrays
<1>7. ASSUME NEW p \in 0..n - 1
      PROVE  rest.heap[GetParentPos(p)].expire <= rest.heap[p].expire
  <2>1. GetParentPos(p) \in 0..n - 1
    BY <1>1, ParentIn
  <2> QED
    BY <1>1, <1>2, <2>1 DEF HeapOrdered
<1>8. ASSUME NEW p \in 0..n - 1 PROVE rest.index[rest.heap[p].index] = p
  <2>1. p \in Positions /\ p # pos
    BY <1>1
  <2>2. /\ heap[p].index \in 0..heap_size - 1 /\ heap[p].index # heap[pos].index
        /\ timer_node_index_array[heap[p].index] = p
    BY <1>1, <2>1, IndicesApart DEF IndexInv, Indices
  <2> QED
    BY <1>2, <2>2
<1>9. ASSUME NEW i \in Indices, timer_node_index_array[i] < 0
      PROVE  rest.index[i] = timer_node_index_array[i]
  <2>1. i \in 0..heap_size - 1 /\ pos \in Nat
    BY <1>1 DEF Indices
  <2>2. i # heap[pos].index
    BY <1>9, <2>1 DEF IndexInv
  <2> QED
    BY <1>2, <2>1, <2>2
<1>10. pos > 0 => rest.heap[0] = heap[0]
  BY <1>1, <1>2
<1> QED
  BY <1>1, <1>2, <1>4, <1>6, <1>7, <1>8, <1>9, <1>10 DEF Removal

LEMMA RemoveNodeIs ==
    ASSUME TypeInv, IndexInv, HeapOrdered, NEW pos \in Positions, RemoveNode(pos)
    PROVE  Removed(pos)
<1>1. PICK n : n = cur_size - 1
  OBVIOUS
<1>2. PICK rest : rest = Rest(pos)
  OBVIOUS
<1>3. PICK l : l = Place(rest, pos, heap[n])
  OBVIOUS
<1>4. PICK r : r = IF pos < n THEN Refill(l, n, heap[n], pos) ELSE rest
  OBVIOUS
<1>5. /\ free_timer_node_index' = heap[pos].index
      /\ rand_array' = [rand_array EXCEPT ![heap[pos].index] = 0]
      /\ cur_size' = n
      /\ heap' = r.heap
      /\ timer_node_index_array' = r.index
      /\ heap_size' = heap_size
  BY <1>1, <1>2, <1>3, <1>4 DEF RemoveNode, Rest
<1>6. IsRest(rest, n, pos)
  BY <1>1, <1>2, RestIs
<1>7. n \in Nat /\ (pos < n => pos \in 0..n - 1) /\ pos <= n
  BY <1>1 DEF Positions, TypeInv
<1>8. CASE pos < n
  <2>1. Placed(l, rest, pos, heap[n])
    BY <1>3, PlacedIs
  <2>2. RefillBefore(l, n, heap[n], pos)
    BY <1>1, <1>6, <1>8, <2>1, LastFills
  <2>3. r = Refill(l, n, heap[n], pos)
    BY <1>4, <1>8
  <2>4. RefillAfter(l, r, n, heap[n], pos)
    BY <1>7, <1>8, <2>2, <2>3, RefillCorrect
  <2>5. Removal(r.heap, r.index, n, pos)
    BY <1>1, <1>6, <1>8, <2>1, <2>4, RefillRemoves
  <2> QED
    BY <1>1, <1>5, <2>5 DEF Removed
<1>9. CASE ~(pos < n)
  <2>1. pos = n /\ r = rest
    BY <1>4, <1>7, <1>9 DEF Positions, TypeInv
  <2>2. Removal(rest.heap, rest.index, n, pos)
    BY <1>1, <1>6, <2>1, LastRemoved
  <2> QED
    BY <1>1, <1>5, <2>1, <2>2 DEF Removed
<1> QED
  BY <1>8, <1>9

\* What RegisterTimer does with the node it makes.
NewNode(interval, delay) == [index |-> free_timer_node_index, tag |-> Len(made) + 1,
                             expire |-> clock + delay, interval |-> interval]
Registration(h, index, node) ==
    /\ h \in [0..cur_size -> Node]
    /\ index \in [0..GrownSize - 1 -> Int]
    /\ \A p \in 0..cur_size : h[GetParentPos(p)].expire <= h[p].expire
    /\ \A p \in 0..cur_size : h[p] = node \/ \E q \in Positions : h[p] = heap[q]
    /\ \E p \in 0..cur_size : h[p] = node
    /\ \A q \in Positions : \E p \in 0..cur_size : h[p] = heap[q]
    /\ \A p \in 0..cur_size : index[h[p].index] = p
    /\ \A i \in Indices : timer_node_index_array[i] < 0 /\ i # free_timer_node_index =>
           index[i] = timer_node_index_array[i]
    /\ \A i \in heap_size..GrownSize - 1 : index[i] = -(i + 1)
    /\ cur_size > 0 /\ heap[0].expire <= node.expire => h[0] = heap[0]

\* The layout that it works on.
IsGrown(l) ==
    /\ DOMAIN l.heap = Positions
    /\ \A p \in Positions : l.heap[p] = heap[p]
    /\ DOMAIN l.index = 0..GrownSize - 1
    /\ \A i \in 0..heap_size - 1 : l.index[i] = timer_node_index_array[i]
    /\ \A i \in heap_size..GrownSize - 1 : l.index[i] = -(i + 1)

LEMMA Growth ==
    ASSUME TypeInv
    PROVE  /\ GrownSize \in Nat /\ heap_size <= GrownSize /\ cur_size + 3 <= GrownSize
           /\ Positions = 0..cur_size - 1 /\ Indices = 1..heap_size - 1
  BY DEF TypeInv, GrownSize, Positions, Indices

LEMMA GrownIs ==
    ASSUME TypeInv, NEW l,
           l = [heap |-> heap, index |-> Grown(timer_node_index_array, FreeLinks)]
    PROVE  IsGrown(l)
<1>1. GrownSize \in Nat /\ heap_size \in Nat /\ heap_size <= GrownSize
  BY Growth DEF TypeInv
<1>2. DOMAIN heap = Positions
  BY DEF TypeInv
<1>3. l.heap = heap
  OBVIOUS
<1>4. l.index = [i \in 0..GrownSize - 1 |->
                    IF i < heap_size THEN timer_node_index_array[i] ELSE FreeLinks[i]]
  BY DEF Grown
<1>5. \A i \in 0..GrownSize - 1 : FreeLinks[i] = -(i + 1)
  BY DEF FreeLinks
<1>6. \A i \in 0..heap_size - 1 : l.index[i] = timer_node_index_array[i]
  BY <1>1, <1>4
<1>7. \A i \in heap_size..GrownSize - 1 : l.index[i] = -(i + 1)
  BY <1>1, <1>4, <1>5
<1> QED
  BY <1>2, <1>3, <1>4, <1>6, <1>7 DEF IsGrown

LEMMA Registers ==
    ASSUME TypeInv, IndexInv, HeapOrdered,
           timer_node_index_array[free_timer_node_index] < 0,
           NEW l, IsGrown(l),
           NEW node \in Node, node.index = free_timer_node_index,
           NEW r, r = RotateUp(l, node, cur_size)
    PROVE  Registration(r.heap, r.index, node)
<1>1. /\ cur_size \in Nat /\ heap_size \in Nat /\ GrownSize \in Nat
      /\ heap_size <= GrownSize
      /\ Positions = 0..cur_size - 1 /\ Positions \cup {cur_size} = 0..cur_size
      /\ cur_size \notin Positions
  BY Growth DEF TypeInv
<1>2. /\ free_timer_node_index \in Indices
      /\ \A i \in Indices : i \in 0..heap_size - 1 /\ i \in 0..GrownSize - 1
  BY <1>1 DEF TypeInv, Indices
<1>3. \A q \in Positions : /\ heap[q].index \in Indices
                           /\ timer_node_index_array[heap[q].index] = q
                           /\ heap[q].index # node.index
  BY <1>1 DEF IndexInv
<1>4. /\ DOMAIN l.heap = Positions
      /\ \A p \in Positions : l.heap[p] = heap[p]
      /\ DOMAIN l.index = 0..GrownSize - 1
      /\ \A i \in 0..heap_size - 1 : l.index[i] = timer_node_index_array[i]
      /\ \A i \in heap_size..GrownSize - 1 : l.index[i] = -(i + 1)
  BY DEF IsGrown
<1>5. Hole(l, Positions, cur_size, node)
  <2>1. ASSUME NEW x \in Positions
        PROVE  /\ l.heap[x].index \in DOMAIN l.index
               /\ l.index[l.heap[x].index] = x
               /\ l.heap[x].index # node.index
    BY <1>2, <1>3, <1>4
  <2> QED
    BY <1>1, <1>2, <1>4, <2>1 DEF Hole
<1>6. UpBefore(l, node, cur_size)
  <2>1. node.expire \in Int
    BY DEF Node
  <2>2. ASSUME NEW x \in Positions
        PROVE  /\ l.heap[x].expire \in Int
               /\ l.heap[GetParentPos(x)].expire <= l.heap[x].expire
    <3>1. GetParentPos(x) \in Positions
      BY <1>1, ParentIn
    <3>2. heap[x].expire \in Int
      BY HeapNodes
    <3> QED
      BY <1>4, <3>1, <3>2 DEF HeapOrdered
  <2> QED
    BY <1>1, <1>5, <2>1, <2>2 DEF UpBefore
<1>7. UpAfter(l, r, node, cur_size)
  BY <1>1, <1>6, RotateUpCorrect
<1>8. Moved(l, r, Positions, cur_size, node)
  BY <1>1, <1>7 DEF UpAfter
<1>9. /\ AreArrays(r)
      /\ DOMAIN r.heap = 0..cur_size /\ DOMAIN r.index = 0..GrownSize - 1
  BY <1>1, <1>4, <1>8 DEF Moved
<1>10. \A p \in 0..cur_size : r.heap[p] = node \/ \E q \in Positions : r.heap[p] = heap[q]
  BY <1>1, <1>4, <1>8 DEF Moved
<1>11. /\ \E p \in 0..cur_size : r.heap[p] = node
       /\ \A q \in Positions : \E p \in 0..cur_size : r.heap[p] = heap[q]
  BY <1>1, <1>4, <1>8 DEF Moved
<1>12. \A p \in 0..cur_size : r.index[r.heap[p].index] = p
  BY <1>1, <1>8 DEF Moved
<1>13. ASSUME NEW i \in 0..GrownSize - 1, i # free_timer_node_index,
              \A q \in Positions : heap[q].index # i
       PROVE  r.index[i] = l.index[i]
  BY <1>4, <1>8, <1>13 DEF Moved
<1>14. ASSUME NEW i \in Indices, timer_node_index_array[i] < 0, i # free_timer_node_index
       PROVE  r.index[i] = timer_node_index_array[i]
  <2>1. \A q \in Positions : heap[q].index # i
    BY <1>1, <1>3, <1>14
  <2> QED
    BY <1>2, <1>4, <1>13, <1>14, <2>1
<1>15. ASSUME NEW i \in heap_size..GrownSize - 1 PROVE r.index[i] = -(i + 1)
  <2>1. i \in 0..GrownSize - 1 /\ i \notin Indices
    BY <1>1, <1>2
  <2>2. i # free_timer_node_index /\ \A q \in Positions : heap[q].index # i
    BY <1>2, <1>3, <2>1
  <2> QED
    BY <1>4, <1>13, <2>1, <2>2
<1>16. ASSUME NEW i \in 0..GrownSize - 1 PROVE r.index[i] \in Int
  <2>1. CASE \E p \in 0..cur_size : r.heap[p].index = i
    BY <1>12, <2>1
  <2>2. CASE \A p \in 0..cur_size : r.heap[p].index # i
    <3>1. i # free_timer_node_index /\ \A q \in Positions : heap[q].index # i
      BY <1>11, <2>2
    <3>2. r.index[i] = l.index[i]
      BY <1>13, <3>1
    <3>3. \A j \in 0..heap_size - 1 : timer_node_index_array[j] \in Int
      BY DEF TypeInv
    <3>4. i \in 0..heap_size - 1 \/ i \in heap_size..GrownSize - 1
      BY <1>1
    <3> QED
      BY <1>4, <3>2, <3>3, <3>4
  <2> QED
    BY <2>1, <2>2
<1>17. r.heap \in [0..cur_size -> Node]
  <2>1. \A p \in 0..cur_size : r.heap[p] \in Node
    BY <1>10, HeapNodes
  <2> QED
    BY <1>9, <2>1 DEF AreArrays
<1>18. r.index \in [0..GrownSize - 1 -> Int]
  BY <1>9, <1>16 DEF AreArrays
<1>19. cur_size > 0 /\ heap[0].expire <= node.expire => r.heap[0] = heap[0]
  BY <1>1, <1>4, <1>7 DEF UpAfter
<1>20. \A p \in 0..cur_size : r.heap[GetParentPos(p)].expire <= r.heap[p].expire
  BY <1>7 DEF UpAfter
<1> QED
  BY <1>10, <1>11, <1>12, <1>14, <1>15, <1>17, <1>18, <1>19, <1>20 DEF Registration

\* What becomes of the heap when the node on top goes down again.
Keeping(h, index, node) ==
    /\ h \in [Positions -> Node]
    /\ index \in [0..heap_size - 1 -> Int]
    /\ \A p \in Positions : h[GetParentPos(p)].expire <= h[p].expire
    /\ \A p \in Positions : h[p] = node \/ \E q \in Positions \ {0} : h[p] = heap[q]
    /\ \E p \in Positions : h[p] = node
    /\ \A q \in Positions \ {0} : \E p \in Positions : h[p] = heap[q]
    /\ \A p \in Positions : index[h[p].index] = p
    /\ \A i \in Indices : timer_node_index_array[i] < 0 =>
           index[i] = timer_node_index_array[i]

LEMMA Keeps ==
    ASSUME TypeInv, IndexInv, HeapOrdered, cur_size > 0,
           NEW l, l.heap = heap, l.index = timer_node_index_array,
           NEW node \in Node, node.index = heap[0].index,
           NEW r, r = RotateDown(l, cur_size, node, 0)
    PROVE  Keeping(r.heap, r.index, node)
<1>1. /\ cur_size \in Nat /\ heap_size \in Nat /\ 0 \in 0..cur_size - 1
      /\ Positions = 0..cur_size - 1 /\ Positions \ {0} = 0 + 1..cur_size - 1
      /\ (0 + 1..cur_size - 1) \cup {0} = Positions
  BY DEF TypeInv, Positions
<1>2. DOMAIN heap = Positions /\ DOMAIN timer_node_index_array = 0..heap_size - 1
  BY DEF TypeInv
<1>3. \A i \in Indices : i \in 0..heap_size - 1
  BY <1>1 DEF Indices
<1>4. \A q \in Positions : /\ heap[q].index \in Indices
                           /\ timer_node_index_array[heap[q].index] = q
  BY DEF IndexInv
<1>5. Hole(l, 0 + 1..cur_size - 1, 0, node)
  <2>1. \A q \in 0 + 1..cur_size - 1 : q \in Positions /\ q # 0
    BY <1>1
  <2>2. \A q \in 0 + 1..cur_size - 1 : heap[q].index # node.index
    BY <1>1, <1>4, <2>1
  <2> QED
    BY <1>1, <1>2, <1>3, <1>4, <2>1, <2>2 DEF Hole
<1>6. DownBefore(l, cur_size, node, 0)
  <2>1. node.expire \in Int
    BY DEF Node
  <2>2. \A x \in 0 + 1..cur_size - 1 : l.heap[x].expire \in Int
    BY <1>1, HeapNodes
  <2>3. \A x \in 0 + 1..cur_size - 1 : l.heap[GetParentPos(x)].expire <= l.heap[x].expire
    BY <1>1 DEF HeapOrdered
  <2> QED
    BY <1>5, <2>1, <2>2, <2>3 DEF DownBefore
<1>7. DownAfter(l, r, cur_size, node, 0)
  BY <1>1, <1>6, RotateDownCorrect
<1>8. Moved(l, r, 0 + 1..cur_size - 1, 0, node)
  BY <1>7 DEF DownAfter
<1>9. /\ AreArrays(r)
      /\ DOMAIN r.heap = Positions /\ DOMAIN r.index = 0..heap_size - 1
  BY <1>1, <1>2, <1>8 DEF Moved
<1>10. \A p \in Positions : r.heap[p] = node \/ \E q \in Positions \ {0} : r.heap[p] = heap[q]
  BY <1>1, <1>8 DEF Moved
<1>11. /\ \E p \in Positions : r.heap[p] = node
       /\ \A q \in Positions \ {0} : \E p \in Positions : r.heap[p] = heap[q]
  BY <1>1, <1>8 DEF Moved
<1>12. \A p \in Positions : r.index[r.heap[p].index] = p
  BY <1>1, <1>8 DEF Moved
<1>13. ASSUME NEW i \in 0..heap_size - 1, \A q \in Positions : heap[q].index # i
       PROVE  r.index[i] = timer_node_index_array[i]
  <2>1. i # node.index /\ \A q \in 0 + 1..cur_size - 1 : l.heap[q].index # i
    BY <1>1, <1>13
  <2> QED
    BY <1>2, <1>8, <2>1 DEF Moved
<1>14. ASSUME NEW i \in Indices, timer_node_index_array[i] < 0
       PROVE  r.index[i] = timer_node_index_array[i]
  BY <1>1, <1>3, <1>4, <1>13, <1>14
<1>15. ASSUME NEW i \in 0..heap_size - 1 PROVE r.index[i] \in Int
  <2>1. CASE \E p \in Positions : r.heap[p].index = i
    BY <1>1, <1>12, <2>1
  <2>2. CASE \A p \in Positions : r.heap[p].index # i
    <3>1. \A q \in Positions : heap[q].index # i
      BY <1>11, <2>2
    <3>2. timer_node_index_array[i] \in Int
      BY DEF TypeInv
    <3> QED
      BY <1>13, <3>1, <3>2
  <2> QED
    BY <2>1, <2>2
<1>16. r.heap \in [Positions -> Node]
  <2>1. \A p \in Positions : r.heap[p] \in Node
    BY <1>10, HeapNodes
  <2> QED
    BY <1>9, <2>1 DEF AreArrays
<1>17. r.index \in [0..heap_size - 1 -> Int]
  BY <1>9, <1>15 DEF AreArrays
<1>18. ASSUME NEW p \in Positions PROVE r.heap[GetParentPos(p)].expire <= r.heap[p].expire
  <2>1. CASE p = 0
    <3>1. GetParentPos(0) = 0
      BY Parents
    <3>2. r.heap[0] \in Node
      BY <1>1, <1>16
    <3>3. r.heap[0].expire \in Int
      BY <3>2 DEF Node
    <3> QED
      BY <2>1, <3>1, <3>3
  <2>2. CASE p # 0
    <3>1. p \in 0 + 1..cur_size - 1 /\ GetParentPos(p) >= 0
      BY <1>1, <2>2, ParentIn
    <3> QED
      BY <1>7, <3>1 DEF DownAfter
  <2> QED
    BY <2>1, <2>2
<1> QED
  BY <1>10, <1>11, <1>12, <1>14, <1>16, <1>17, <1>18 DEF Keeping

-----------------------------------------------------------------------------
(* The invariants: how they begin, and what each kind of step does to them *)

LEMMA HeapBegins == Init => HeapInv
<1> SUFFICES ASSUME Init PROVE HeapInv
  OBVIOUS
<1>1. /\ heap_size \in Nat /\ heap_size >= 2 /\ cur_size = 0
      /\ Positions = {} /\ heap = [i \in {} |-> NoNode] /\ Indices = 1..heap_size - 1
      /\ timer_node_index_array = [i \in 0..heap_size - 1 |-> -(i + 1)]
  <2>1. PICK size \in InitSizes : heap_size = size + 1
    BY DEF Init
  <2>2. size \in Nat \ {0}
    BY HeapTimerAssumption
  <2>3. heap_size \in Nat /\ heap_size >= 2
    BY <2>1, <2>2
  <2>4. 0..-1 = {} /\ cur_size = 0 /\ 0..cur_size - 1 = {}
    BY DEF Init
  <2> QED
    BY <2>3, <2>4 DEF Init, Positions, Indices
<1>2. NoNode \in Node
  BY DEF NoNode, Node
<1>3. TypeInv
  BY <1>1, <1>2 DEF Init, TypeInv, NotPolling
<1>4. IndexInv
  BY <1>1 DEF IndexInv
<1>5. TagInv
  BY <1>1 DEF Init, TagInv
<1>6. HeapOrdered
  BY <1>1 DEF HeapOrdered
<1>7. FreeInv
  <2>1. PICK f : f = [j \in 0..heap_size - 1 |-> j + 1]
    OBVIOUS
  <2>2. PICK k : k = heap_size - 1
    OBVIOUS
  <2>3. k \in Nat /\ k >= 1 /\ heap_size - 1 - cur_size = k
    BY <1>1, <2>2
  <2>4. \A j \in 0..k : f[j] = j + 1
    BY <2>1, <2>2
  <2>5. f \in [0..k -> Nat] /\ f[0] = free_timer_node_index /\ f[k] = heap_size
    BY <1>1, <2>1, <2>2, <2>3, <2>4 DEF Init
  <2>6. ASSUME NEW j \in 0..k - 1
        PROVE  f[j] \in Indices /\ timer_node_index_array[f[j]] = -f[j + 1]
    BY <1>1, <2>2, <2>3, <2>4
  <2>7. \A i, j \in 0..k : f[i] = f[j] => i = j
    BY <2>4
  <2>8. ASSUME NEW i \in Indices PROVE \E j \in 0..k - 1 : f[j] = i
    <3>1. i - 1 \in 0..k - 1 /\ f[i - 1] = i
      BY <1>1, <2>2, <2>4
    <3> QED
      BY <3>1
  <2>9. Chain(f, k)
    BY <2>5, <2>6, <2>7, <2>8 DEF Chain
  <2> QED
    BY <2>3, <2>9 DEF FreeInv
<1>8. PollInv
  BY DEF Init, PollInv, NotPolling
<1> QED
  BY <1>3, <1>4, <1>5, <1>6, <1>7, <1>8 DEF HeapInv

\* Two nodes do not share a tag.
LEMMA TagsApart ==
    ASSUME IndexInv, TagInv, NEW p \in Positions, NEW q \in Positions,
           heap[p].tag = heap[q].tag
    PROVE  p = q
  BY IndicesApart DEF TagInv

\* The links of the free list are negative, and it has at least two of them.
LEMMA Links ==
    ASSUME TypeInv, NEW f, NEW k, k = heap_size - 1 - cur_size, Chain(f, k)
    PROVE  /\ k \in Nat /\ k >= 1
           /\ \A j \in 0..k : f[j] \in 1..heap_size
           /\ \A j \in 0..k - 1 : /\ f[j] \in Indices /\ f[j + 1] \in 1..heap_size
                                  /\ timer_node_index_array[f[j]] = -f[j + 1]
                                  /\ timer_node_index_array[f[j]] < 0
<1>1. k \in Nat /\ k >= 1 /\ heap_size \in Nat /\ heap_size >= 2 /\ Indices = 1..heap_size - 1
  BY DEF TypeInv, Indices
<1>2. \A j \in 0..k - 1 : f[j] \in Indices /\ timer_node_index_array[f[j]] = -f[j + 1]
  BY DEF Chain
<1>3. f[k] = heap_size
  BY DEF Chain
<1>4. ASSUME NEW j \in 0..k PROVE f[j] \in 1..heap_size
  <2>1. CASE j = k
    BY <1>1, <1>3, <2>1
  <2>2. CASE j # k
    <3>1. j \in 0..k - 1
      BY <1>1, <2>2
    <3> QED
      BY <1>1, <1>2, <3>1
  <2> QED
    BY <2>1, <2>2
<1>5. \A j \in 0..k - 1 : j + 1 \in 0..k
  BY <1>1
<1>6. \A j \in 0..k - 1 : f[j + 1] \in 1..heap_size
  BY <1>4, <1>5
<1>7. \A j \in 0..k - 1 : timer_node_index_array[f[j]] < 0
  BY <1>2, <1>6
<1> QED
  BY <1>1, <1>2, <1>4, <1>6, <1>7

LEMMA FreeHead ==
    ASSUME TypeInv, FreeInv
    PROVE  timer_node_index_array[free_timer_node_index] < 0
<1>1. PICK k : k = heap_size - 1 - cur_size
  OBVIOUS
<1>2. PICK f : Chain(f, k)
  BY <1>1 DEF FreeInv
<1>3. k \in Nat /\ k >= 1 /\ \A j \in 0..k - 1 : timer_node_index_array[f[j]] < 0
  BY <1>1, <1>2, Links
<1>4. f[0] = free_timer_node_index /\ 0 \in 0..k - 1
  BY <1>2, <1>3 DEF Chain
<1> QED
  BY <1>3, <1>4

LEMMA RemovalTypes ==
    ASSUME HeapInv, NEW pos \in Positions, Removed(pos), UNCHANGED <<made, clock, now>>,
           expire_node' \in Node
    PROVE  TypeInv' /\ IndexInv' /\ TagInv' /\ HeapOrdered'
<1>1. /\ cur_size \in Nat /\ cur_size >= 1 /\ heap_size \in Nat /\ cur_size + 2 <= heap_size
      /\ cur_size' = cur_size - 1 /\ heap_size' = heap_size
      /\ Positions' = 0..cur_size - 1 - 1 /\ Indices' = Indices /\ Indices = 1..heap_size - 1
      /\ \A q \in Positions : q \in Nat
  BY DEF HeapInv, TypeInv, Removed, Positions, Indices
<1>2. /\ heap' \in [Positions' -> Node]
      /\ timer_node_index_array' \in [0..heap_size - 1 -> Int]
      /\ \A p \in Positions' : heap'[GetParentPos(p)].expire <= heap'[p].expire
      /\ \A p \in Positions' : \E q \in Positions \ {pos} : heap'[p] = heap[q]
      /\ \A q \in Positions \ {pos} : \E p \in Positions' : heap'[p] = heap[q]
      /\ \A p \in Positions' : timer_node_index_array'[heap'[p].index] = p
      /\ timer_node_index_array'[heap[pos].index] = -free_timer_node_index
      /\ \A i \in Indices : timer_node_index_array[i] < 0 =>
             timer_node_index_array'[i] = timer_node_index_array[i]
  BY <1>1 DEF Removed, Removal
<1>3. \A q \in Positions : heap[q].index \in Indices /\ timer_node_index_array[heap[q].index] = q
  BY DEF HeapInv, IndexInv
<1>4. rand_array' = [rand_array EXCEPT ![heap[pos].index] = 0]
      /\ free_timer_node_index' = heap[pos].index
  BY DEF Removed
<1>5. free_timer_node_index \in Indices
  BY DEF HeapInv, TypeInv
<1>6. TypeInv'
  <2>1. rand_array' \in [0..heap_size' - 1 -> Nat]
    BY <1>1, <1>4 DEF HeapInv, TypeInv
  <2>2. free_timer_node_index' \in Indices'
    BY <1>1, <1>3, <1>4
  <2>3. heap_size' \in Nat /\ cur_size' \in Nat /\ cur_size' + 2 <= heap_size'
    BY <1>1
  <2>4. made' \in Seq(Nat) /\ clock' \in Nat /\ now' \in Nat \cup {NotPolling}
    BY DEF HeapInv, TypeInv
  <2>5. timer_node_index_array' \in [0..heap_size' - 1 -> Int]
    BY <1>1, <1>2
  <2> QED
    BY <1>2, <2>1, <2>2, <2>3, <2>4, <2>5 DEF TypeInv
<1>7. IndexInv'
  <2>1. ASSUME NEW p \in Positions'
        PROVE  heap'[p].index \in Indices' /\ timer_node_index_array'[heap'[p].index] = p
    BY <1>1, <1>2, <1>3
  <2>2. ASSUME NEW i \in Indices', timer_node_index_array'[i] >= 0
        PROVE  /\ timer_node_index_array'[i] \in Positions'
               /\ heap'[timer_node_index_array'[i]].index = i
    <3>1. i \in Indices /\ i # heap[pos].index
      BY <1>1, <1>2, <1>5, <2>2
    <3>2. timer_node_index_array[i] \in Int
      BY <1>1, <3>1 DEF HeapInv, TypeInv
    <3>3. timer_node_index_array[i] >= 0
      BY <1>2, <2>2, <3>1, <3>2
    <3>4. PICK q \in Positions : heap[q].index = i
      BY <3>1, <3>3 DEF HeapInv, IndexInv
    <3>5. PICK p \in Positions' : heap'[p] = heap[q]
      BY <1>2, <3>1, <3>4
    <3> QED
      BY <1>2, <3>4, <3>5
  <2> QED
    BY <2>1, <2>2 DEF IndexInv
<1>8. TagInv'
  <2>1. ASSUME NEW p \in Positions'
        PROVE  /\ heap'[p].tag \in DOMAIN made'
               /\ made'[heap'[p].tag] = heap'[p].index
               /\ rand_array'[heap'[p].index] = heap'[p].tag
    <3>1. PICK q \in Positions \ {pos} : heap'[p] = heap[q]
      BY <1>2
    <3>2. /\ heap[q].tag \in DOMAIN made /\ made[heap[q].tag] = heap[q].index
          /\ rand_array[heap[q].index] = heap[q].tag
      BY DEF HeapInv, TagInv
    <3>3. heap[q].index # heap[pos].index
      BY IndicesApart DEF HeapInv
    <3>4. rand_array \in [0..heap_size - 1 -> Nat] /\ heap[q].index \in 0..heap_size - 1
      BY <1>1, <1>3 DEF HeapInv, TypeInv
    <3>5. rand_array'[heap[q].index] = rand_array[heap[q].index]
      BY <1>4, <3>3, <3>4
    <3> QED
      BY <3>1, <3>2, <3>5
  <2>2. \A tag \in DOMAIN made' : made'[tag] \in Indices'
    BY <1>1 DEF HeapInv, TagInv
  <2> QED
    BY <2>1, <2>2 DEF TagInv
<1>9. HeapOrdered'
  BY <1>2 DEF HeapOrdered
<1> QED
  BY <1>6, <1>7, <1>8, <1>9

LEMMA RemovalFrees ==
    ASSUME HeapInv, NEW pos \in Positions, Removed(pos)
    PROVE  FreeInv'
<1>1. PICK k : k = heap_size - 1 - cur_size
  OBVIOUS
<1>2. PICK f : Chain(f, k)
  BY <1>1 DEF HeapInv, FreeInv
<1>3. /\ k \in Nat /\ k >= 1
      /\ \A j \in 0..k : f[j] \in 1..heap_size
      /\ \A j \in 0..k - 1 : /\ f[j] \in Indices /\ f[j + 1] \in 1..heap_size
                             /\ timer_node_index_array[f[j]] = -f[j + 1]
                             /\ timer_node_index_array[f[j]] < 0
  BY <1>1, <1>2, Links DEF HeapInv
<1>4. /\ f[0] = free_timer_node_index /\ f[k] = heap_size
      /\ \A i, j \in 0..k : f[i] = f[j] => i = j
      /\ \A i \in Indices : timer_node_index_array[i] < 0 => \E j \in 0..k - 1 : f[j] = i
  BY <1>2 DEF Chain
<1>5. /\ cur_size \in Nat /\ heap_size \in Nat /\ cur_size' = cur_size - 1
      /\ heap_size' = heap_size /\ Indices' = Indices /\ Indices = 1..heap_size - 1
      /\ Positions' = 0..cur_size - 1 - 1 /\ \A q \in Positions : q \in Nat
  BY DEF HeapInv, TypeInv, Removed, Positions, Indices
<1>6. /\ \A q \in Positions \ {pos} : \E p \in Positions' : heap'[p] = heap[q]
      /\ \A p \in Positions' : timer_node_index_array'[heap'[p].index] = p
      /\ timer_node_index_array'[heap[pos].index] = -free_timer_node_index
      /\ \A i \in Indices : timer_node_index_array[i] < 0 =>
             timer_node_index_array'[i] = timer_node_index_array[i]
      /\ free_timer_node_index' = heap[pos].index
  BY <1>5 DEF Removed, Removal
<1>7. PICK first : first = heap[pos].index
  OBVIOUS
<1>8. first \in Indices /\ timer_node_index_array[first] = pos /\ pos \in Nat
  BY <1>5, <1>7 DEF HeapInv, IndexInv
<1>9. PICK g : g = [j \in 0..k + 1 |-> IF j = 0 THEN first ELSE f[j - 1]]
  OBVIOUS
<1>10. g[0] = first /\ \A j \in 1..k + 1 : g[j] = f[j - 1] /\ j - 1 \in 0..k
  BY <1>3, <1>9
<1>11. k + 1 = heap_size' - 1 - cur_size'
  BY <1>1, <1>5
<1>12. g \in [0..k + 1 -> Nat]
  <2>1. ASSUME NEW j \in 0..k + 1 PROVE g[j] \in Nat
    <3>1. CASE j = 0
      BY <1>5, <1>8, <1>10, <3>1
    <3>2. CASE j # 0
      <4>1. j \in 1..k + 1 /\ j - 1 \in 0..k
        BY <1>3, <3>2
      <4>2. f[j - 1] \in 1..heap_size
        BY <1>3, <4>1
      <4> QED
        BY <1>5, <1>10, <4>1, <4>2
    <3> QED
      BY <3>1, <3>2
  <2> QED
    BY <1>9, <2>1
<1>13. \A j \in 0..k : f[j] # first
  <2>1. \A j \in 0..k - 1 : f[j] # first
    BY <1>3, <1>8
  <2>2. f[k] # first
    BY <1>4, <1>5, <1>8
  <2> QED
    BY <1>3, <2>1, <2>2
<1>14. ASSUME NEW i \in 0..k + 1, NEW j \in 0..k + 1, g[i] = g[j] PROVE i = j
  <2>1. CASE i = 0
    BY <1>10, <1>13, <1>14, <2>1
  <2>2. CASE j = 0
    BY <1>10, <1>13, <1>14, <2>2
  <2>3. CASE i # 0 /\ j # 0
    <3>1. i \in 1..k + 1 /\ j \in 1..k + 1
      BY <1>3, <2>3
    <3>2. i - 1 = j - 1
      BY <1>4, <1>10, <1>14, <3>1
    <3> QED
      BY <3>1, <3>2
  <2> QED
    BY <2>1, <2>2, <2>3
<1>15. ASSUME NEW j \in 0..k
       PROVE  g[j] \in Indices' /\ timer_node_index_array'[g[j]] = -g[j + 1]
  <2>1. CASE j = 0
    <3>1. g[j + 1] = f[0]
      BY <1>3, <1>10, <2>1
    <3> QED
      BY <1>4, <1>5, <1>6, <1>7, <1>8, <1>10, <2>1, <3>1
  <2>2. CASE j # 0
    <3>1. j - 1 \in 0..k - 1 /\ j \in 1..k + 1 /\ j + 1 \in 1..k + 1
      BY <1>3, <2>2
    <3>2. g[j] = f[j - 1] /\ g[j + 1] = f[j - 1 + 1]
      BY <1>10, <3>1
    <3> QED
      BY <1>3, <1>5, <1>6, <3>1, <3>2
  <2> QED
    BY <2>1, <2>2
<1>16. ASSUME NEW i \in Indices', timer_node_index_array'[i] < 0
       PROVE  \E j \in 0..k : g[j] = i
  <2>1. CASE timer_node_index_array[i] < 0
    <3>1. PICK j \in 0..k - 1 : f[j] = i
      BY <1>4, <1>5, <2>1
    <3>2. j + 1 \in 1..k + 1 /\ j + 1 \in 0..k /\ j + 1 - 1 = j
      BY <1>3
    <3> QED
      BY <1>10, <3>1, <3>2
  <2>2. CASE ~(timer_node_index_array[i] < 0)
    <3>1. timer_node_index_array[i] \in Int
      BY <1>5 DEF HeapInv, TypeInv
    <3>2. PICK q \in Positions : heap[q].index = i
      BY <1>5, <2>2, <3>1 DEF HeapInv, IndexInv
    <3>3. q = pos
      <4>1. ASSUME q # pos PROVE FALSE
        <5>1. PICK p \in Positions' : heap'[p] = heap[q]
          BY <1>6, <4>1
        <5>2. timer_node_index_array'[i] = p /\ p \in Nat
          BY <1>5, <1>6, <3>2, <5>1
        <5> QED
          BY <1>16, <5>2
      <4> QED
        BY <4>1
    <3> QED
      BY <1>3, <1>7, <1>10, <3>2, <3>3
  <2> QED
    BY <2>1, <2>2
<1>18. /\ g[0] = free_timer_node_index' /\ g[k + 1] = heap_size'
  <2>1. k + 1 \in 1..k + 1 /\ k + 1 - 1 = k
    BY <1>3
  <2>2. g[k + 1] = f[k]
    BY <1>3, <1>9, <2>1
  <2> QED
    BY <1>4, <1>5, <1>6, <1>7, <1>10, <2>2
<1>17. PICK m : m = k + 1
  OBVIOUS
<1>19. m - 1 = k
  BY <1>3, <1>17
<1>20. Chain(g, m)'
  <2>1. \A j \in 0..m - 1 : /\ g[j] \in Indices'
                            /\ timer_node_index_array'[g[j]] = -g[j + 1]
    BY <1>15, <1>19, Zenon
  <2>2. \A i \in Indices' : timer_node_index_array'[i] < 0 => \E j \in 0..m - 1 : g[j] = i
    BY <1>16, <1>19, Zenon
  <2>3. \A i, j \in 0..m : g[i] = g[j] => i = j
    BY <1>14, <1>17
  <2>4. g \in [0..m -> Nat] /\ g[0] = free_timer_node_index' /\ g[m] = heap_size'
    BY <1>12, <1>17, <1>18
  <2> QED
    BY <2>1, <2>2, <2>3, <2>4 DEF Chain
<1>21. m = heap_size' - 1 - cur_size'
  BY <1>11, <1>17
<1> QED
  BY <1>20, <1>21 DEF FreeInv

LEMMA RemovalPolls ==
    ASSUME HeapInv, NEW pos \in Positions, Removed(pos), UNCHANGED <<made, clock, now>>,
           expire_node' \in {expire_node, NoNode}
    PROVE  PollInv'
<1>1. now' <= clock'
  BY DEF HeapInv, PollInv
<1>2. ASSUME expire_node' # NoNode
      PROVE  /\ now' # NotPolling /\ expire_node'.expire <= now'
             /\ expire_node'.tag \in DOMAIN made'
             /\ StillArmed' => heap'[0] = expire_node'
  <2>1. /\ expire_node' = expire_node
        /\ now # NotPolling /\ expire_node.expire <= now
        /\ expire_node.tag \in DOMAIN made
        /\ StillArmed => heap[0] = expire_node
    BY <1>2 DEF HeapInv, PollInv
  <2>2. ASSUME StillArmed' PROVE heap'[0] = expire_node
    <3>1. /\ Positions' = 0..cur_size - 1 - 1 /\ Positions = 0..cur_size - 1 /\ cur_size \in Nat
          /\ cur_size' = cur_size - 1
      BY DEF Removed, Positions, HeapInv, TypeInv
    <3>2. PICK p \in Positions' : heap'[p].tag = expire_node.tag
      BY <2>1, <2>2 DEF StillArmed, Positions
    <3>3. PICK q \in Positions \ {pos} : heap'[p] = heap[q]
      BY <3>1, <3>2 DEF Removed, Removal
    <3>4. heap[0] = expire_node
      BY <2>1, <3>2, <3>3 DEF StillArmed, Positions
    <3>5. q = 0
      BY <3>1, <3>2, <3>3, <3>4, TagsApart DEF HeapInv
    <3>6. pos > 0
      BY <3>1, <3>3, <3>5
    <3> QED
      BY <3>4, <3>6 DEF Removed, Removal
  <2> QED
    BY <2>1, <2>2
<1> QED
  BY <1>1, <1>2 DEF PollInv

LEMMA RemovalKeeps ==
    ASSUME HeapInv, NEW pos \in Positions, Removed(pos), UNCHANGED <<made, clock, now>>,
           expire_node' \in {expire_node, NoNode}
    PROVE  HeapInv'
<1>1. expire_node' \in Node
  <2>1. NoNode \in Node
    BY DEF NoNode, Node
  <2>2. expire_node \in Node
    BY DEF HeapInv, TypeInv
  <2> QED
    BY <2>1, <2>2
<1>2. TypeInv' /\ IndexInv' /\ TagInv' /\ HeapOrdered'
  BY <1>1, RemovalTypes
<1>3. FreeInv' /\ PollInv'
  BY RemovalFrees, RemovalPolls
<1> QED
  BY <1>2, <1>3 DEF HeapInv

\* What RegisterTimer does to all of the state.
Registered(node) ==
    /\ Registration(heap', timer_node_index_array', node)
    /\ cur_size' = cur_size + 1
    /\ heap_size' = GrownSize
    /\ free_timer_node_index' = -timer_node_index_array[free_timer_node_index]
    /\ rand_array' = [Grown(rand_array, Zeros) EXCEPT ![free_timer_node_index] = node.tag]
    /\ made' = Append(made, free_timer_node_index)
    /\ UNCHANGED <<clock, now, expire_node>>

LEMMA RegisterTimerIs ==
    ASSUME HeapInv, NEW interval \in Intervals, NEW delay \in Delays,
           RegisterTimer(interval, delay)
    PROVE  /\ NewNode(interval, delay) \in Node
           /\ Registered(NewNode(interval, delay))
<1>1. PICK node : node = NewNode(interval, delay)
  OBVIOUS
<1>2. PICK l : l = [heap |-> heap, index |-> Grown(timer_node_index_array, FreeLinks)]
  OBVIOUS
<1>3. PICK r : r = RotateUp(l, node, cur_size)
  OBVIOUS
<1>4. /\ free_timer_node_index' = -timer_node_index_array[free_timer_node_index]
      /\ rand_array' = [Grown(rand_array, Zeros) EXCEPT ![free_timer_node_index] = Len(made) + 1]
      /\ heap_size' = GrownSize
      /\ heap' = r.heap
      /\ timer_node_index_array' = r.index
      /\ cur_size' = cur_size + 1
      /\ made' = Append(made, free_timer_node_index)
      /\ UNCHANGED <<clock, now, expire_node>>
  BY <1>1, <1>2, <1>3 DEF RegisterTimer, NewNode, poll
<1>5. node \in Node /\ node.index = free_timer_node_index /\ node.tag = Len(made) + 1
  <2>1. free_timer_node_index \in Nat
    BY DEF HeapInv, TypeInv, Indices
  <2>2. Len(made) + 1 \in Nat
    BY DEF HeapInv, TypeInv
  <2>3. clock + delay \in Nat /\ interval \in Nat
    BY HeapTimerAssumption DEF HeapInv, TypeInv
  <2> QED
    BY <1>1, <2>1, <2>2, <2>3 DEF NewNode, Node
<1>6. IsGrown(l)
  BY <1>2, GrownIs DEF HeapInv
<1>7. timer_node_index_array[free_timer_node_index] < 0
  BY FreeHead DEF HeapInv
<1>8. Registration(r.heap, r.index, node)
  BY <1>3, <1>5, <1>6, <1>7, Registers DEF HeapInv
<1>9. Registered(node)
  BY <1>4, <1>5, <1>8 DEF Registered
<1> QED
  BY <1>1, <1>5, <1>9

\* The facts of a registration that the invariants need.
LEMMA RegisteredIs ==
    ASSUME HeapInv, NEW node \in Node, Registered(node)
    PROVE  /\ cur_size \in Nat /\ heap_size \in Nat /\ cur_size + 2 <= heap_size
           /\ cur_size' = cur_size + 1 /\ heap_size' = GrownSize
           /\ Positions = 0..cur_size - 1 /\ Positions' = 0..cur_size
           /\ Indices = 1..heap_size - 1 /\ Indices' = 1..GrownSize - 1
           /\ \/ GrownSize = heap_size /\ cur_size + 2 < heap_size
              \/ GrownSize = 2 * heap_size /\ cur_size + 2 = heap_size
           /\ free_timer_node_index \in Indices
           /\ \A p \in Positions' : heap'[p] = node \/ \E q \in Positions : heap'[p] = heap[q]
           /\ \E p \in Positions' : heap'[p] = node
           /\ \A q \in Positions : \E p \in Positions' : heap'[p] = heap[q]
           /\ \A p \in Positions' : timer_node_index_array'[heap'[p].index] = p
           /\ \A i \in Indices : timer_node_index_array[i] < 0 /\ i # free_timer_node_index =>
                  timer_node_index_array'[i] = timer_node_index_array[i]
           /\ \A i \in heap_size..GrownSize - 1 : timer_node_index_array'[i] = -(i + 1)
<1>1. /\ cur_size \in Nat /\ heap_size \in Nat /\ cur_size + 2 <= heap_size
      /\ free_timer_node_index \in Indices
  BY DEF HeapInv, TypeInv
<1>2. cur_size' = cur_size + 1 /\ heap_size' = GrownSize
  BY DEF Registered
<1>3. /\ Positions = 0..cur_size - 1 /\ Positions' = 0..cur_size
      /\ Indices = 1..heap_size - 1 /\ Indices' = 1..GrownSize - 1
  BY <1>1, <1>2 DEF Positions, Indices
<1>4. \/ GrownSize = heap_size /\ cur_size + 2 < heap_size
      \/ GrownSize = 2 * heap_size /\ cur_size + 2 = heap_size
  BY <1>1 DEF GrownSize
<1> QED
  BY <1>1, <1>2, <1>3, <1>4 DEF Registered, Registration

LEMMA RegistrationTypes ==
    ASSUME HeapInv, NEW node \in Node, Registered(node),
           node.index = free_timer_node_index, node.tag = Len(made) + 1
    PROVE  TypeInv' /\ IndexInv' /\ TagInv' /\ HeapOrdered'
<1>1. /\ cur_size \in Nat /\ heap_size \in Nat /\ cur_size + 2 <= heap_size
      /\ cur_size' = cur_size + 1 /\ heap_size' = GrownSize
      /\ Positions = 0..cur_size - 1 /\ Positions' = 0..cur_size
      /\ Indices = 1..heap_size - 1 /\ Indices' = 1..GrownSize - 1
      /\ \/ GrownSize = heap_size /\ cur_size + 2 < heap_size
         \/ GrownSize = 2 * heap_size /\ cur_size + 2 = heap_size
      /\ free_timer_node_index \in Indices
      /\ \A p \in Positions' : heap'[p] = node \/ \E q \in Positions : heap'[p] = heap[q]
      /\ \E p \in Positions' : heap'[p] = node
      /\ \A q \in Positions : \E p \in Positions' : heap'[p] = heap[q]
      /\ \A p \in Positions' : timer_node_index_array'[heap'[p].index] = p
      /\ \A i \in Indices : timer_node_index_array[i] < 0 /\ i # free_timer_node_index =>
             timer_node_index_array'[i] = timer_node_index_array[i]
      /\ \A i \in heap_size..GrownSize - 1 : timer_node_index_array'[i] = -(i + 1)
  BY RegisteredIs
<1>2. /\ GrownSize \in Nat /\ heap_size <= GrownSize
      /\ \A i \in Indices : i \in Indices' /\ i \in 0..heap_size - 1 /\ i \in 0..GrownSize - 1
  BY <1>1
<1>3. \A q \in Positions : heap[q].index \in Indices /\ timer_node_index_array[heap[q].index] = q
  BY DEF HeapInv, IndexInv
<1>4. /\ Len(made) \in Nat /\ Len(made') = Len(made) + 1
      /\ made \in Seq(Nat) /\ made' \in Seq(Nat)
      /\ made'[Len(made) + 1] = free_timer_node_index
      /\ \A tag \in DOMAIN made : tag \in DOMAIN made' /\ made'[tag] = made[tag]
      /\ Len(made) + 1 \in DOMAIN made'
      /\ \A tag \in DOMAIN made' : tag \in DOMAIN made \/ tag = Len(made) + 1
  <2>1. made' = Append(made, free_timer_node_index) /\ made \in Seq(Nat)
    BY DEF Registered, HeapInv, TypeInv
  <2>2. free_timer_node_index \in Nat
    BY <1>1
  <2> QED
    BY <2>1, <2>2
<1>5. /\ rand_array' \in [0..GrownSize - 1 -> Nat]
      /\ rand_array'[free_timer_node_index] = node.tag
      /\ \A i \in Indices : i # free_timer_node_index => rand_array'[i] = rand_array[i]
  <2>1. PICK grown : grown = Grown(rand_array, Zeros)
    OBVIOUS
  <2>2. rand_array \in [0..heap_size - 1 -> Nat]
    BY DEF HeapInv, TypeInv
  <2>3. \A i \in 0..GrownSize - 1 : Zeros[i] = 0
    BY DEF Zeros
  <2>4. grown = [i \in 0..GrownSize - 1 |-> IF i < heap_size THEN rand_array[i] ELSE Zeros[i]]
    BY <2>1 DEF Grown
  <2>5. \A i \in 0..GrownSize - 1 : grown[i] \in Nat /\ (i < heap_size => grown[i] = rand_array[i])
    BY <1>1, <1>2, <2>2, <2>3, <2>4
  <2>6. rand_array' = [grown EXCEPT ![free_timer_node_index] = node.tag]
    BY <2>1 DEF Registered
  <2>7. node.tag \in Nat
    BY DEF Node
  <2>8. grown \in [0..GrownSize - 1 -> Nat]
    BY <2>4, <2>5
  <2> QED
    BY <1>1, <1>2, <2>5, <2>6, <2>7, <2>8
<1>6. TypeInv'
  <2>1. heap' \in [Positions' -> Node] /\ timer_node_index_array' \in [0..heap_size' - 1 -> Int]
    BY <1>1 DEF Registered, Registration
  <2>2. free_timer_node_index' \in Indices'
    <3>1. PICK k : k = heap_size - 1 - cur_size
      OBVIOUS
    <3>2. PICK f : Chain(f, k)
      BY <3>1 DEF HeapInv, FreeInv
    <3>3. /\ k \in Nat /\ k >= 1
          /\ \A j \in 0..k - 1 : /\ f[j] \in Indices /\ f[j + 1] \in 1..heap_size
                                 /\ timer_node_index_array[f[j]] = -f[j + 1]
      BY <3>1, <3>2, Links DEF HeapInv
    <3>4. f[0] = free_timer_node_index /\ f[k] = heap_size
      BY <3>2 DEF Chain
    <3>5. 0 \in 0..k - 1 /\ (k = 1 \/ 1 \in 0..k - 1)
      BY <3>3
    <3>6. timer_node_index_array[free_timer_node_index] = -f[1] /\ f[1] \in 1..heap_size
      BY <3>3, <3>4, <3>5
    <3>7. free_timer_node_index' = f[1]
      BY <3>6 DEF Registered
    <3>8. CASE k = 1
      BY <1>1, <3>1, <3>4, <3>7, <3>8
    <3>9. CASE 1 \in 0..k - 1
      BY <1>2, <3>3, <3>7, <3>9
    <3> QED
      BY <3>5, <3>8, <3>9
  <2>3. heap_size' \in Nat /\ cur_size' \in Nat /\ cur_size' + 2 <= heap_size'
    BY <1>1
  <2>4. clock' \in Nat /\ now' \in Nat \cup {NotPolling} /\ expire_node' \in Node
    BY DEF HeapInv, TypeInv, Registered
  <2>5. rand_array' \in [0..heap_size' - 1 -> Nat]
    BY <1>1, <1>5
  <2> QED
    BY <1>4, <2>1, <2>2, <2>3, <2>4, <2>5 DEF TypeInv
<1>7. IndexInv'
  <2>1. ASSUME NEW p \in Positions'
        PROVE  heap'[p].index \in Indices' /\ timer_node_index_array'[heap'[p].index] = p
    BY <1>1, <1>2, <1>3
  <2>2. ASSUME NEW i \in Indices', timer_node_index_array'[i] >= 0
        PROVE  /\ timer_node_index_array'[i] \in Positions'
               /\ heap'[timer_node_index_array'[i]].index = i
    <3>1. i \in Indices
      <4>1. i \in Indices \/ i \in heap_size..GrownSize - 1
        BY <1>1, <1>2
      <4>2. ASSUME i \in heap_size..GrownSize - 1 PROVE FALSE
        <5>1. timer_node_index_array'[i] = -(i + 1) /\ i \in Nat
          BY <1>1, <1>2, <4>2
        <5> QED
          BY <2>2, <5>1
      <4> QED
        BY <4>1, <4>2
    <3>2. CASE i = free_timer_node_index
      BY <1>1, <3>2
    <3>3. CASE i # free_timer_node_index
      <4>1. timer_node_index_array[i] \in Int
        BY <1>2, <3>1 DEF HeapInv, TypeInv
      <4>2. timer_node_index_array[i] >= 0
        BY <1>1, <2>2, <3>1, <3>3, <4>1
      <4>3. PICK q \in Positions : heap[q].index = i
        BY <3>1, <4>2 DEF HeapInv, IndexInv
      <4>4. PICK p \in Positions' : heap'[p] = heap[q]
        BY <1>1
      <4> QED
        BY <1>1, <4>3, <4>4
    <3> QED
      BY <3>2, <3>3
  <2> QED
    BY <2>1, <2>2 DEF IndexInv
<1>8. TagInv'
  <2>1. ASSUME NEW p \in Positions'
        PROVE  /\ heap'[p].tag \in DOMAIN made'
               /\ made'[heap'[p].tag] = heap'[p].index
               /\ rand_array'[heap'[p].index] = heap'[p].tag
    <3>1. CASE heap'[p] = node
      BY <1>4, <1>5, <3>1
    <3>2. CASE heap'[p] # node
      <4>1. PICK q \in Positions : heap'[p] = heap[q]
        BY <1>1, <3>2
      <4>2. /\ heap[q].tag \in DOMAIN made /\ made[heap[q].tag] = heap[q].index
            /\ rand_array[heap[q].index] = heap[q].tag
        BY DEF HeapInv, TagInv
      <4>3. timer_node_index_array[free_timer_node_index] < 0
        BY FreeHead DEF HeapInv
      <4>4. q \in Nat
        BY <1>1
      <4>5. heap[q].index # free_timer_node_index /\ heap[q].index \in Indices
        BY <1>3, <4>3, <4>4
      <4> QED
        BY <1>4, <1>5, <4>1, <4>2, <4>5
    <3> QED
      BY <3>1, <3>2
  <2>2. ASSUME NEW tag \in DOMAIN made' PROVE made'[tag] \in Indices'
    <3>1. CASE tag \in DOMAIN made
      BY <1>2, <1>4, <3>1 DEF HeapInv, TagInv
    <3>2. CASE tag = Len(made) + 1
      BY <1>1, <1>2, <1>4, <3>2
    <3> QED
      BY <1>4, <3>1, <3>2
  <2> QED
    BY <2>1, <2>2 DEF TagInv
<1>9. HeapOrdered'
  BY <1>1 DEF Registered, Registration, HeapOrdered
<1> QED
  BY <1>6, <1>7, <1>8, <1>9

LEMMA RegistrationFrees ==
    ASSUME HeapInv, NEW node \in Node, Registered(node),
           node.index = free_timer_node_index
    PROVE  FreeInv'
<1>1. PICK k : k = heap_size - 1 - cur_size
  OBVIOUS
<1>2. PICK f : Chain(f, k)
  BY <1>1 DEF HeapInv, FreeInv
<1>3. /\ k \in Nat /\ k >= 1
      /\ \A j \in 0..k : f[j] \in 1..heap_size
      /\ \A j \in 0..k - 1 : /\ f[j] \in Indices /\ f[j + 1] \in 1..heap_size
                             /\ timer_node_index_array[f[j]] = -f[j + 1]
                             /\ timer_node_index_array[f[j]] < 0
  BY <1>1, <1>2, Links DEF HeapInv
<1>4. /\ f[0] = free_timer_node_index /\ f[k] = heap_size
      /\ \A i, j \in 0..k : f[i] = f[j] => i = j
      /\ \A i \in Indices : timer_node_index_array[i] < 0 => \E j \in 0..k - 1 : f[j] = i
  BY <1>2 DEF Chain
<1>5. /\ cur_size \in Nat /\ heap_size \in Nat /\ cur_size + 2 <= heap_size
      /\ cur_size' = cur_size + 1 /\ heap_size' = GrownSize
      /\ Positions = 0..cur_size - 1 /\ Positions' = 0..cur_size
      /\ Indices = 1..heap_size - 1 /\ Indices' = 1..GrownSize - 1
      /\ \/ GrownSize = heap_size /\ cur_size + 2 < heap_size
         \/ GrownSize = 2 * heap_size /\ cur_size + 2 = heap_size
      /\ free_timer_node_index \in Indices
      /\ \A p \in Positions' : heap'[p] = node \/ \E q \in Positions : heap'[p] = heap[q]
      /\ \E p \in Positions' : heap'[p] = node
      /\ \A q \in Positions : \E p \in Positions' : heap'[p] = heap[q]
      /\ \A p \in Positions' : timer_node_index_array'[heap'[p].index] = p
      /\ \A i \in Indices : timer_node_index_array[i] < 0 /\ i # free_timer_node_index =>
             timer_node_index_array'[i] = timer_node_index_array[i]
      /\ \A i \in heap_size..GrownSize - 1 : timer_node_index_array'[i] = -(i + 1)
  BY RegisteredIs
<1>6. PICK m : m = heap_size' - 1 - cur_size'
  OBVIOUS
<1>7. m \in Nat /\ m >= k - 1 /\ GrownSize = heap_size + m - (k - 1)
  <2>1. GrownSize \in Nat /\ GrownSize >= heap_size
    BY <1>5
  <2>2. m = GrownSize - 1 - (cur_size + 1)
    BY <1>5, <1>6
  <2> QED
    BY <1>1, <1>5, <2>1, <2>2
<1>8. PICK g : g = [j \in 0..m |-> IF j < k THEN f[j + 1] ELSE heap_size + j - (k - 1)]
  OBVIOUS
<1>9. /\ \A j \in 0..k - 1 : j \in 0..m /\ j + 1 \in 0..k /\ g[j] = f[j + 1]
      /\ \A j \in k..m : g[j] = heap_size + j - (k - 1)
  BY <1>3, <1>7, <1>8
<1>10. g[k - 1] = heap_size
  <2>1. k - 1 \in 0..k - 1 /\ k - 1 + 1 = k
    BY <1>3
  <2> QED
    BY <1>4, <1>9, <2>1
<1>11. g \in [0..m -> Nat]
  <2>1. ASSUME NEW j \in 0..m PROVE g[j] \in Nat
    <3>1. CASE j < k
      <4>1. j \in 0..k - 1
        BY <1>3, <3>1
      <4>2. g[j] = f[j + 1] /\ f[j + 1] \in 1..heap_size
        BY <1>3, <1>9, <4>1
      <4> QED
        BY <1>5, <4>2
    <3>2. CASE ~(j < k)
      BY <1>3, <1>5, <1>9, <3>2
    <3> QED
      BY <3>1, <3>2
  <2> QED
    BY <1>8, <2>1
<1>12. g[0] = free_timer_node_index'
  <2>1. 0 \in 0..k - 1 /\ 0 + 1 = 1
    BY <1>3
  <2>2. g[0] = f[1] /\ f[1] \in 1..heap_size
    BY <1>3, <1>9, <2>1
  <2>3. timer_node_index_array[free_timer_node_index] = -f[1]
    BY <1>3, <1>4, <2>1
  <2> QED
    BY <2>2, <2>3 DEF Registered
<1>13. g[m] = heap_size'
  <2>1. CASE m = k - 1
    <3>1. GrownSize = heap_size
      BY <1>3, <1>5, <1>7, <2>1
    <3> QED
      BY <1>5, <1>10, <2>1, <3>1
  <2>2. CASE m # k - 1
    <3>1. m \in k..m
      BY <1>3, <1>7, <2>2
    <3> QED
      BY <1>3, <1>5, <1>7, <1>9, <3>1
  <2> QED
    BY <2>1, <2>2
<1>14. ASSUME NEW i \in 0..m, NEW j \in 0..m, g[i] = g[j] PROVE i = j
  <2>1. \A x \in 0..k - 1 : x \in 0..m => g[x] \in 1..heap_size /\ g[x] = f[x + 1]
    BY <1>3, <1>9
  <2>2. \A x \in k..m : g[x] > heap_size /\ g[x] = heap_size + x - (k - 1)
    BY <1>3, <1>5, <1>9
  <2>3. \A x \in 0..m : x \in 0..k - 1 \/ x \in k..m
    BY <1>3, <1>7
  <2>4. CASE i \in 0..k - 1 /\ j \in 0..k - 1
    <3>1. i + 1 \in 0..k /\ j + 1 \in 0..k /\ f[i + 1] = f[j + 1]
      BY <1>9, <1>14, <2>4
    <3>2. i + 1 = j + 1
      BY <1>4, <3>1
    <3> QED
      BY <3>2
  <2>5. CASE i \in k..m /\ j \in k..m
    <3>1. heap_size + i - (k - 1) = heap_size + j - (k - 1)
      BY <1>14, <2>2, <2>5
    <3> QED
      BY <1>3, <1>5, <1>7, <3>1
  <2>6. CASE i \in 0..k - 1 /\ j \in k..m
    <3>1. g[i] \in 1..heap_size /\ g[j] > heap_size
      BY <2>1, <2>2, <2>6
    <3> QED
      BY <1>5, <1>14, <3>1
  <2>7. CASE i \in k..m /\ j \in 0..k - 1
    <3>1. g[j] \in 1..heap_size /\ g[i] > heap_size
      BY <2>1, <2>2, <2>7
    <3> QED
      BY <1>5, <1>14, <3>1
  <2> QED
    BY <2>3, <2>4, <2>5, <2>6, <2>7
<1>15. ASSUME NEW j \in 0..m - 1
       PROVE  g[j] \in Indices' /\ timer_node_index_array'[g[j]] = -g[j + 1]
  <2>1. CASE j < k - 1
    <3>1. j \in 0..k - 1 /\ j + 1 \in 0..k - 1 /\ j + 1 \in 0..k /\ 0 \in 0..k /\ j + 1 # 0
      BY <1>3, <2>1
    <3>2. g[j] = f[j + 1]
      BY <1>9, <3>1
    <3>3. g[j + 1] = f[j + 1 + 1]
      BY <1>9, <3>1
    <3>4. f[j + 1] \in Indices /\ f[j + 1] # free_timer_node_index
      BY <1>3, <1>4, <3>1
    <3>5. /\ timer_node_index_array[f[j + 1]] = -f[j + 1 + 1]
          /\ timer_node_index_array[f[j + 1]] < 0
      BY <1>3, <3>1
    <3>6. f[j + 1] \in Indices'
      BY <1>5, <3>4
    <3>7. timer_node_index_array'[f[j + 1]] = timer_node_index_array[f[j + 1]]
      BY <1>5, <3>4, <3>5
    <3> QED
      BY <3>2, <3>3, <3>5, <3>6, <3>7, Zenon
  <2>2. CASE j >= k - 1
    <3>1. j + 1 \in k..m /\ j \in 0..m
      BY <1>3, <1>7, <2>2
    <3>2. g[j] = heap_size + j - (k - 1)
      <4>1. CASE j = k - 1
        BY <1>3, <1>5, <1>10, <4>1
      <4>2. CASE j # k - 1
        <5>1. j \in k..m
          BY <1>3, <1>7, <2>2, <4>2
        <5> QED
          BY <1>9, <5>1
      <4> QED
        BY <4>1, <4>2
    <3>3. g[j + 1] = heap_size + (j + 1) - (k - 1)
      BY <1>9, <3>1
    <3>4. g[j] \in heap_size..GrownSize - 1 /\ g[j + 1] = g[j] + 1
      BY <1>3, <1>5, <1>7, <2>2, <3>1, <3>2, <3>3
    <3>5. g[j] \in Indices'
      BY <1>5, <3>4
    <3> QED
      BY <1>5, <3>4, <3>5
  <2> QED
    BY <1>3, <2>1, <2>2
<1>16. ASSUME NEW i \in Indices', timer_node_index_array'[i] < 0
       PROVE  \E j \in 0..m - 1 : g[j] = i
  <2>1. CASE i >= heap_size
    <3>1. PICK j : j = i - heap_size + (k - 1)
      OBVIOUS
    <3>2. j \in 0..m - 1 /\ j >= k - 1 /\ i = heap_size + j - (k - 1)
      BY <1>3, <1>5, <1>7, <2>1, <3>1
    <3>3. CASE j = k - 1
      <4>1. i = heap_size
        BY <1>3, <1>5, <3>2, <3>3
      <4> QED
        BY <1>10, <3>2, <3>3, <4>1
    <3>4. CASE j # k - 1
      <4>1. j \in k..m
        BY <1>3, <1>7, <3>2, <3>4
      <4> QED
        BY <1>9, <3>2, <4>1
    <3> QED
      BY <3>3, <3>4
  <2>2. CASE i < heap_size
    <3>1. i \in Indices
      BY <1>5, <2>2
    <3>2. timer_node_index_array[i] \in Int
      BY <1>5, <3>1 DEF HeapInv, TypeInv
    <3>3. i # free_timer_node_index
      <4>1. PICK p \in Positions' : heap'[p] = node
        BY <1>5
      <4>2. timer_node_index_array'[free_timer_node_index] = p /\ p \in Nat
        BY <1>5, <4>1
      <4> QED
        BY <1>16, <4>2
    <3>4. timer_node_index_array[i] < 0
      <4>1. ASSUME timer_node_index_array[i] >= 0 PROVE FALSE
        <5>1. PICK q \in Positions : heap[q].index = i
          BY <3>1, <4>1 DEF HeapInv, IndexInv
        <5>2. PICK p \in Positions' : heap'[p] = heap[q]
          BY <1>5
        <5>3. timer_node_index_array'[i] = p /\ p \in Nat
          BY <1>5, <5>1, <5>2
        <5> QED
          BY <1>16, <5>3
      <4> QED
        BY <3>2, <4>1
    <3>5. PICK j \in 0..k - 1 : f[j] = i
      BY <1>4, <3>1, <3>4
    <3>6. j # 0
      BY <1>4, <3>3, <3>5
    <3>7. j - 1 \in 0..k - 1 /\ j - 1 \in 0..m - 1 /\ j - 1 + 1 = j
      BY <1>3, <1>7, <3>6
    <3>8. g[j - 1] = i
      BY <1>9, <3>5, <3>7
    <3> QED
      BY <3>7, <3>8
  <2> QED
    BY <1>5, <2>1, <2>2
<1>17. Chain(g, m)'
  BY <1>11, <1>12, <1>13, <1>14, <1>15, <1>16 DEF Chain
<1> QED
  BY <1>6, <1>17 DEF FreeInv

LEMMA RegistrationPolls ==
    ASSUME HeapInv, NEW node \in Node, Registered(node),
           node.tag = Len(made) + 1, node.expire >= clock
    PROVE  PollInv'
<1>1. now' <= clock' /\ UNCHANGED <<clock, now, expire_node>>
  BY DEF HeapInv, PollInv, Registered
<1>2. ASSUME expire_node # NoNode
      PROVE  /\ now # NotPolling /\ expire_node.expire <= now
             /\ expire_node.tag \in DOMAIN made'
             /\ StillArmed' => heap'[0] = expire_node
  <2>1. /\ now # NotPolling /\ expire_node.expire <= now /\ now <= clock
        /\ expire_node.tag \in DOMAIN made
        /\ StillArmed => heap[0] = expire_node
    BY <1>2 DEF HeapInv, PollInv
  <2>2. made \in Seq(Nat) /\ made' = Append(made, free_timer_node_index)
    BY DEF HeapInv, TypeInv, Registered
  <2>3. expire_node.tag \in DOMAIN made' /\ expire_node.tag # Len(made) + 1
    BY <2>1, <2>2
  <2>4. ASSUME StillArmed' PROVE heap'[0] = expire_node
    <3>1. /\ Positions = 0..cur_size - 1 /\ Positions' = 0..cur_size /\ cur_size \in Nat
          /\ cur_size' = cur_size + 1
      BY RegisteredIs
    <3>2. PICK p \in Positions' : heap'[p].tag = expire_node.tag
      BY <1>1, <2>4 DEF StillArmed, Positions
    <3>3. PICK q \in Positions : heap'[p] = heap[q]
      BY <2>3, <3>1, <3>2 DEF Registered, Registration
    <3>4. heap[0] = expire_node
      BY <2>1, <3>2, <3>3 DEF StillArmed, Positions
    <3>5. expire_node.expire \in Int /\ now \in Int /\ clock \in Int /\ node.expire \in Int
      <4>1. expire_node \in Node /\ clock \in Nat /\ now \in Nat \cup {-1}
        BY DEF HeapInv, TypeInv, NotPolling
      <4> QED
        BY <4>1 DEF Node
    <3>6. heap[0].expire <= node.expire /\ cur_size > 0
      BY <2>1, <3>1, <3>3, <3>4, <3>5
    <3> QED
      BY <3>4, <3>6 DEF Registered, Registration
  <2> QED
    BY <2>1, <2>3, <2>4
<1> QED
  BY <1>1, <1>2 DEF PollInv

LEMMA RegistrationKeeps ==
    ASSUME HeapInv, NEW interval \in Intervals, NEW delay \in Delays,
           RegisterTimer(interval, delay)
    PROVE  HeapInv'
<1>1. PICK node : node = NewNode(interval, delay)
  OBVIOUS
<1>2. node \in Node /\ Registered(node)
  BY <1>1, RegisterTimerIs
<1>3. /\ node.index = free_timer_node_index /\ node.tag = Len(made) + 1
      /\ node.expire = clock + delay
  BY <1>1 DEF NewNode
<1>4. node.expire >= clock
  BY <1>3, HeapTimerAssumption DEF HeapInv, TypeInv
<1>5. TypeInv' /\ IndexInv' /\ TagInv' /\ HeapOrdered'
  BY <1>2, <1>3, RegistrationTypes
<1>6. FreeInv' /\ PollInv'
  BY <1>2, <1>3, <1>4, RegistrationFrees, RegistrationPolls
<1> QED
  BY <1>5, <1>6 DEF HeapInv

\* ReturnKeep.
Kept(node) ==
    /\ Keeping(heap', timer_node_index_array', node)
    /\ expire_node' = NoNode
    /\ UNCHANGED <<heap_size, cur_size, rand_array, free_timer_node_index,
                   made, clock, now>>
Again == [index |-> expire_node.index, tag |-> expire_node.tag,
          expire |-> now + expire_node.interval, interval |-> expire_node.interval]

LEMMA ReturnKeepIs ==
    ASSUME HeapInv, ReturnKeep
    PROVE  /\ cur_size > 0 /\ heap[0] = expire_node
           /\ Again \in Node /\ Again.index = heap[0].index /\ Again.tag = heap[0].tag
           /\ Kept(Again)
<1>1. PICK node : node = [expire_node EXCEPT !.expire = now + expire_node.interval]
  OBVIOUS
<1>2. PICK r : r = RotateDown(Layout, cur_size, node, 0)
  OBVIOUS
<1>3. /\ heap' = r.heap /\ timer_node_index_array' = r.index
      /\ expire_node # NoNode /\ StillArmed
      /\ expire_node' = NoNode
      /\ UNCHANGED <<heap_size, cur_size, rand_array, free_timer_node_index,
                     made, clock, now>>
  BY <1>1, <1>2 DEF ReturnKeep
<1>4. /\ heap[0] = expire_node /\ now \in Nat /\ cur_size \in Nat /\ cur_size > 0
  <2>1. now # NotPolling /\ heap[0] = expire_node
    BY <1>3 DEF HeapInv, PollInv
  <2>2. now \in Nat \cup {NotPolling} /\ cur_size \in Nat
    BY DEF HeapInv, TypeInv
  <2>3. PICK p \in 0..cur_size - 1 : heap[p].tag = expire_node.tag
    BY <1>3 DEF StillArmed
  <2> QED
    BY <2>1, <2>2, <2>3
<1>5. expire_node \in Node
  BY DEF HeapInv, TypeInv
<1>6. node = Again
  BY <1>1, <1>5 DEF Again, Node
<1>7. Again \in Node /\ Again.index = heap[0].index /\ Again.tag = heap[0].tag
  BY <1>4, <1>5 DEF Again, Node
<1>8. Layout.heap = heap /\ Layout.index = timer_node_index_array
  BY DEF Layout
<1>9. Keeping(r.heap, r.index, node)
  <2>1. PICK l : l = Layout
    OBVIOUS
  <2>2. l.heap = heap /\ l.index = timer_node_index_array /\ r = RotateDown(l, cur_size, node, 0)
    BY <1>2, <1>8, <2>1
  <2>3. node \in Node /\ node.index = heap[0].index
    BY <1>6, <1>7
  <2> QED
    BY <1>4, <2>2, <2>3, Keeps DEF HeapInv
<1> QED
  BY <1>3, <1>4, <1>6, <1>7, <1>9 DEF Kept

LEMMA KeepingKeeps ==
    ASSUME HeapInv, NEW node \in Node, cur_size > 0, node.index = heap[0].index,
           node.tag = heap[0].tag, Kept(node)
    PROVE  HeapInv'
<1>1. /\ Positions' = Positions /\ Indices' = Indices /\ heap_size \in Nat
      /\ heap_size' = heap_size /\ cur_size' = cur_size /\ rand_array' = rand_array
      /\ free_timer_node_index' = free_timer_node_index /\ made' = made
      /\ expire_node' = NoNode /\ now' = now /\ clock' = clock
      /\ 0 \in Positions /\ Positions = 0..cur_size - 1 /\ cur_size \in Nat
      /\ Indices = 1..heap_size - 1
  BY DEF Kept, Positions, Indices, HeapInv, TypeInv
<1>2. /\ heap' \in [Positions -> Node]
      /\ timer_node_index_array' \in [0..heap_size - 1 -> Int]
      /\ \A p \in Positions : heap'[GetParentPos(p)].expire <= heap'[p].expire
      /\ \A p \in Positions : heap'[p] = node \/ \E q \in Positions \ {0} : heap'[p] = heap[q]
      /\ \E p \in Positions : heap'[p] = node
      /\ \A q \in Positions \ {0} : \E p \in Positions : heap'[p] = heap[q]
      /\ \A p \in Positions : timer_node_index_array'[heap'[p].index] = p
      /\ \A i \in Indices : timer_node_index_array[i] < 0 =>
             timer_node_index_array'[i] = timer_node_index_array[i]
  BY DEF Kept, Keeping
<1>3. \A p \in Positions : \E q \in Positions :
          heap'[p].index = heap[q].index /\ heap'[p].tag = heap[q].tag
  BY <1>1, <1>2
<1>4. \A q \in Positions : \E p \in Positions : heap'[p].index = heap[q].index
  BY <1>1, <1>2
<1>5. TypeInv'
  <2>1. NoNode \in Node
    BY DEF NoNode, Node
  <2> QED
    BY <1>1, <1>2, <2>1 DEF HeapInv, TypeInv
<1>6. IndexInv'
  <2>1. ASSUME NEW p \in Positions
        PROVE  heap'[p].index \in Indices /\ timer_node_index_array'[heap'[p].index] = p
    BY <1>2, <1>3 DEF HeapInv, IndexInv
  <2>2. ASSUME NEW i \in Indices, timer_node_index_array'[i] >= 0
        PROVE  /\ timer_node_index_array'[i] \in Positions
               /\ heap'[timer_node_index_array'[i]].index = i
    <3>1. timer_node_index_array[i] \in Int
      BY <1>1 DEF HeapInv, TypeInv
    <3>2. timer_node_index_array[i] >= 0
      BY <1>2, <2>2, <3>1
    <3>3. PICK q \in Positions : heap[q].index = i
      BY <3>2 DEF HeapInv, IndexInv
    <3>4. PICK p \in Positions : heap'[p].index = i
      BY <1>4, <3>3
    <3> QED
      BY <1>2, <3>4
  <2> QED
    BY <1>1, <2>1, <2>2 DEF IndexInv
<1>7. TagInv'
  <2>1. ASSUME NEW p \in Positions
        PROVE  /\ heap'[p].tag \in DOMAIN made
               /\ made[heap'[p].tag] = heap'[p].index
               /\ rand_array[heap'[p].index] = heap'[p].tag
    BY <1>3 DEF HeapInv, TagInv
  <2>2. \A tag \in DOMAIN made : made[tag] \in Indices
    BY DEF HeapInv, TagInv
  <2> QED
    BY <1>1, <2>1, <2>2 DEF TagInv
<1>8. HeapOrdered'
  BY <1>1, <1>2 DEF HeapOrdered
<1>9. FreeInv'
  <2>1. PICK k : k = heap_size - 1 - cur_size
    OBVIOUS
  <2>2. PICK f : Chain(f, k)
    BY <2>1 DEF HeapInv, FreeInv
  <2>3. \A j \in 0..k - 1 : /\ f[j] \in Indices
                            /\ timer_node_index_array[f[j]] = -f[j + 1]
                            /\ timer_node_index_array[f[j]] < 0
    BY <2>1, <2>2, Links DEF HeapInv
  <2>4. \A j \in 0..k - 1 : f[j] \in Indices /\ timer_node_index_array'[f[j]] = -f[j + 1]
    BY <1>2, <2>3
  <2>5. ASSUME NEW i \in Indices, timer_node_index_array'[i] < 0
        PROVE  \E j \in 0..k - 1 : f[j] = i
    <3>1. timer_node_index_array[i] \in Int
      BY <1>1 DEF HeapInv, TypeInv
    <3>2. ASSUME timer_node_index_array[i] >= 0 PROVE FALSE
      <4>1. PICK q \in Positions : heap[q].index = i
        BY <3>2 DEF HeapInv, IndexInv
      <4>2. PICK p \in Positions : heap'[p].index = i
        BY <1>4, <4>1
      <4>3. timer_node_index_array'[i] = p
        BY <1>2, <4>2
      <4>4. p \in 0..cur_size - 1
        BY <1>1
      <4> QED
        BY <2>5, <4>3, <4>4
    <3>3. timer_node_index_array[i] < 0
      BY <3>1, <3>2
    <3> QED
      BY <2>2, <3>3 DEF Chain
  <2>6. Chain(f, k)'
    BY <1>1, <2>2, <2>4, <2>5 DEF Chain
  <2>7. k = heap_size' - 1 - cur_size'
    BY <1>1, <2>1
  <2> QED
    BY <2>6, <2>7 DEF FreeInv
<1>10. PollInv'
  BY <1>1 DEF HeapInv, PollInv
<1> QED
  BY <1>5, <1>6, <1>7, <1>8, <1>9, <1>10 DEF HeapInv

\* A step that leaves the arrays as they are.
LEMMA SameArrays ==
    ASSUME HeapInv, UNCHANGED arrays, UNCHANGED made, clock' \in Nat,
           now' \in Nat \cup {NotPolling}, expire_node' \in Node, PollInv'
    PROVE  HeapInv'
<1>1. /\ heap_size' = heap_size /\ cur_size' = cur_size /\ heap' = heap
      /\ timer_node_index_array' = timer_node_index_array /\ rand_array' = rand_array
      /\ free_timer_node_index' = free_timer_node_index /\ made' = made
  BY DEF arrays
<1>2. Positions' = Positions /\ Indices' = Indices
  BY <1>1 DEF Positions, Indices
<1>3. TypeInv'
  BY <1>1, <1>2 DEF HeapInv, TypeInv
<1>4. IndexInv'
  BY <1>1, <1>2 DEF HeapInv, IndexInv
<1>5. TagInv'
  BY <1>1, <1>2 DEF HeapInv, TagInv
<1>6. HeapOrdered'
  BY <1>1, <1>2 DEF HeapInv, HeapOrdered
<1>7. FreeInv'
  <2>1. PICK k : k = heap_size - 1 - cur_size
    OBVIOUS
  <2>2. PICK f : Chain(f, k)
    BY <2>1 DEF HeapInv, FreeInv
  <2>3. Chain(f, k)'
    BY <1>1, <1>2, <2>2 DEF Chain
  <2>4. k = heap_size' - 1 - cur_size'
    BY <1>1, <2>1
  <2> QED
    BY <2>3, <2>4 DEF FreeInv
<1> QED
  BY <1>3, <1>4, <1>5, <1>6, <1>7 DEF HeapInv

\* UnregisterTimer finds a position of the heap.
LEMMA FoundInHeap ==
    ASSUME HeapInv, NEW tag \in DOMAIN made, Lookup(tag) >= 0
    PROVE  Lookup(tag) \in Positions
<1>1. made[tag] \in Indices
  BY DEF HeapInv, TagInv
<1>2. /\ Lookup(tag) = timer_node_index_array[made[tag]]
      /\ timer_node_index_array[made[tag]] >= 0
  BY DEF Lookup
<1> QED
  BY <1>1, <1>2 DEF HeapInv, IndexInv

LEMMA HeapStep == HeapInv /\ [Next]_vars => HeapInv'
<1> SUFFICES ASSUME HeapInv, [Next]_vars PROVE HeapInv'
  OBVIOUS
<1>1. ASSUME NEW interval \in Intervals, NEW delay \in Delays, RegisterTimer(interval, delay)
      PROVE  HeapInv'
  BY <1>1, RegistrationKeeps
<1>2. ASSUME NEW tag \in DOMAIN made, UnregisterTimer(tag) PROVE HeapInv'
  <2>1. PICK pos : pos = Lookup(tag)
    OBVIOUS
  <2>2. /\ pos >= 0 /\ RemoveNode(pos) /\ UNCHANGED <<made, clock, now>>
        /\ expire_node' \in {expire_node, NoNode}
    BY <1>2, <2>1 DEF UnregisterTimer
  <2>3. pos \in Positions
    BY <2>1, <2>2, FoundInHeap
  <2>4. Removed(pos)
    BY <2>2, <2>3, RemoveNodeIs DEF HeapInv
  <2> QED
    BY <2>2, <2>3, <2>4, RemovalKeeps
<1>3. CASE TimerPoll
  <2>1. UNCHANGED <<arrays, made, clock, expire_node>> /\ now' = clock /\ now = NotPolling
    BY <1>3 DEF TimerPoll
  <2>2. PollInv' /\ clock' \in Nat /\ now' \in Nat \cup {NotPolling} /\ expire_node' \in Node
    <3>1. expire_node = NoNode
      BY <2>1 DEF HeapInv, PollInv
    <3>2. clock \in Nat /\ expire_node \in Node
      BY DEF HeapInv, TypeInv
    <3> QED
      BY <2>1, <3>1, <3>2 DEF PollInv
  <2> QED
    BY <2>1, <2>2, SameArrays
<1>4. CASE Execute
  <2>1. /\ UNCHANGED <<arrays, made, clock, now>> /\ expire_node' = heap[0]
        /\ cur_size > 0 /\ now # NotPolling /\ now >= heap[0].expire
    BY <1>4 DEF Execute
  <2>2. 0 \in Positions
    BY <2>1 DEF HeapInv, TypeInv, Positions
  <2>3. heap[0] \in Node /\ heap[0].tag \in DOMAIN made
    BY <2>2, HeapNodes DEF HeapInv, TagInv
  <2>4. clock' \in Nat /\ now' \in Nat \cup {NotPolling}
    BY <2>1 DEF HeapInv, TypeInv
  <2>5. PollInv'
    <3>1. now \in Int /\ heap[0].expire \in Int
      BY <2>2, HeapNodes DEF HeapInv, TypeInv, NotPolling
    <3>2. heap' = heap
      BY <2>1 DEF arrays
    <3> QED
      BY <2>1, <2>3, <3>1, <3>2 DEF HeapInv, PollInv
  <2> QED
    BY <2>1, <2>3, <2>4, <2>5, SameArrays
<1>5. CASE ReturnKeep
  BY <1>5, ReturnKeepIs, KeepingKeeps
<1>6. CASE ReturnStop
  <2>1. /\ UNCHANGED <<made, clock, now>> /\ expire_node' = NoNode
        /\ cur_size = 0 => UNCHANGED arrays
        /\ cur_size # 0 => RemoveNode(0)
    BY <1>6 DEF ReturnStop
  <2>2. CASE cur_size = 0
    <3>1. /\ PollInv' /\ expire_node' \in Node /\ clock' \in Nat
          /\ now' \in Nat \cup {NotPolling}
      BY <2>1 DEF HeapInv, TypeInv, PollInv, NoNode, Node
    <3> QED
      BY <2>1, <2>2, <3>1, SameArrays
  <2>3. CASE cur_size # 0
    <3>1. 0 \in Positions
      BY <2>3 DEF HeapInv, TypeInv, Positions
    <3>2. Removed(0)
      BY <2>1, <2>3, <3>1, RemoveNodeIs DEF HeapInv
    <3> QED
      BY <2>1, <3>1, <3>2, RemovalKeeps
  <2> QED
    BY <2>2, <2>3
<1>7. CASE EndPoll
  <2>1. UNCHANGED <<arrays, made, clock, expire_node>> /\ now' = NotPolling /\ expire_node = NoNode
    BY <1>7 DEF EndPoll
  <2>2. PollInv' /\ clock' \in Nat /\ now' \in Nat \cup {NotPolling} /\ expire_node' \in Node
    <3>1. clock \in Nat /\ expire_node \in Node
      BY DEF HeapInv, TypeInv
    <3> QED
      BY <2>1, <3>1 DEF PollInv, NotPolling
  <2> QED
    BY <2>1, <2>2, SameArrays
<1>8. CASE Tick
  <2>1. UNCHANGED <<arrays, made, poll>> /\ clock' = clock + 1
    BY <1>8 DEF Tick
  <2>2. clock' \in Nat /\ now' \in Nat \cup {NotPolling} /\ expire_node' \in Node
    BY <2>1 DEF HeapInv, TypeInv, poll
  <2>3. PollInv'
    <3>1. clock \in Nat /\ now \in Int /\ now <= clock
      BY DEF HeapInv, TypeInv, PollInv, NotPolling
    <3>2. /\ heap' = heap /\ (StillArmed' <=> StillArmed)
          /\ now' = now /\ expire_node' = expire_node /\ made' = made
      BY <2>1 DEF arrays, poll, StillArmed
    <3>3. now' <= clock'
      BY <2>1, <3>1, <3>2
    <3> QED
      BY <3>2, <3>3 DEF HeapInv, PollInv
  <2> QED
    BY <2>1, <2>2, <2>3, SameArrays
<1>9. CASE UNCHANGED vars
  <2>1. UNCHANGED <<arrays, made, clock, now, expire_node>>
    BY <1>9 DEF vars, arrays
  <2>2. StillArmed' <=> StillArmed
    BY <2>1 DEF arrays, StillArmed
  <2>3. PollInv' /\ clock' \in Nat /\ now' \in Nat \cup {NotPolling} /\ expire_node' \in Node
    BY <2>1, <2>2 DEF HeapInv, TypeInv, PollInv, arrays
  <2> QED
    BY <2>1, <2>3, SameArrays
<1> QED
  BY <1>1, <1>2, <1>3, <1>4, <1>5, <1>6, <1>7, <1>8, <1>9 DEF Next

LEMMA HeapAlways == Spec => []HeapInv
<1>1. Init => HeapInv
  BY HeapBegins
<1>2. HeapInv /\ [Next]_vars => HeapInv'
  BY HeapStep
<1> QED
  BY <1>1, <1>2, PTL DEF Spec

-----------------------------------------------------------------------------
(* The theorems *)

\* No parent in the heap expires after its children (HeapOrdered), whatever
\* RotateUp, RotateDown, GrowHeap and RemoveNode have done to it, so that
\* TimerPoll and FirstTimeout find the earliest timer in heap_[0].
THEOREM HeapStaysOrdered == Spec => []HeapOrdered
<1>1. HeapInv => HeapOrdered
  BY DEF HeapInv
<1> QED
  BY <1>1, HeapAlways, PTL

\* The index array and the tags lead from the id of a timer to its node, and
\* from the id of a timer that is gone to none (LookupExact).
THEOREM LookupsExact == Spec => []LookupExact
<1>1. HeapInv => LookupExact
  <2> SUFFICES ASSUME HeapInv, NEW tag \in DOMAIN made
               PROVE  IF \E p \in Positions : heap[p].tag = tag
                      THEN Lookup(tag) \in Positions /\ heap[Lookup(tag)].tag = tag
                      ELSE Lookup(tag) = -1
    BY DEF LookupExact
  <2>1. CASE \E p \in Positions : heap[p].tag = tag
    <3>1. PICK p \in Positions : heap[p].tag = tag
      BY <2>1
    <3>2. made[tag] = heap[p].index /\ rand_array[made[tag]] = tag
      BY <3>1 DEF HeapInv, TagInv
    <3>3. timer_node_index_array[made[tag]] = p
      BY <3>2 DEF HeapInv, IndexInv
    <3>4. p \in Nat
      BY HeapNodes DEF HeapInv
    <3>5. Lookup(tag) = p
      BY <3>2, <3>3, <3>4 DEF Lookup
    <3> QED
      BY <2>1, <3>1, <3>5
  <2>2. CASE ~ \E p \in Positions : heap[p].tag = tag
    <3>1. made[tag] \in Indices
      BY DEF HeapInv, TagInv
    <3>2. ASSUME timer_node_index_array[made[tag]] >= 0, rand_array[made[tag]] = tag
          PROVE  FALSE
      <4>1. PICK p : p = timer_node_index_array[made[tag]]
        OBVIOUS
      <4>2. p \in Positions /\ heap[p].index = made[tag]
        BY <3>1, <3>2, <4>1 DEF HeapInv, IndexInv
      <4>3. heap[p].tag = tag
        BY <3>2, <4>2 DEF HeapInv, TagInv
      <4> QED
        BY <2>2, <4>2, <4>3
    <3>3. Lookup(tag) = -1
      BY <3>2 DEF Lookup
    <3> QED
      BY <2>2, <3>3
  <2> QED
    BY <2>1, <2>2
<1> QED
  BY <1>1, HeapAlways, PTL

\* The function that follows the links of the free list from its head.
Follow(link, k) ==
    IF k = 0 THEN free_timer_node_index
    ELSE IF link[k - 1] \in Indices THEN -timer_node_index_array[link[k - 1]]
    ELSE link[k - 1]
FollowsTo(link, n) == link = [k \in 0..n |-> Follow(link, k)]

LEMMA LinksFollowed == \A n \in Nat : \E link : FollowsTo(link, n)
<1>1. PICK S : S = {n \in Nat : \E link : FollowsTo(link, n)}
  OBVIOUS
<1>2. 0 \in S
  <2>1. PICK link : link = [k \in 0..0 |-> free_timer_node_index]
    OBVIOUS
  <2>2. FollowsTo(link, 0)
    BY <2>1 DEF FollowsTo, Follow
  <2> QED
    BY <1>1, <2>2
<1>3. ASSUME NEW n \in Nat \ {0}, n - 1 \in S PROVE n \in S
  <2>1. PICK link : FollowsTo(link, n - 1)
    BY <1>1, <1>3
  <2>2. PICK last : last = Follow(link, n)
    OBVIOUS
  <2>3. PICK more : more = [k \in 0..n |-> IF k = n THEN last ELSE link[k]]
    OBVIOUS
  <2>4. \A k \in 0..n - 1 : more[k] = link[k]
    BY <2>3
  <2>5. \A k \in 0..n - 1 : link[k] = Follow(link, k)
    BY <2>1 DEF FollowsTo
  <2>6. \A k \in 0..n : k # 0 => more[k - 1] = link[k - 1]
    BY <2>4
  <2>7. \A k \in 0..n : Follow(more, k) = Follow(link, k)
    BY <2>6 DEF Follow
  <2>8. \A k \in 0..n : more[k] = Follow(more, k)
    BY <2>2, <2>3, <2>4, <2>5, <2>7
  <2>9. FollowsTo(more, n)
    BY <2>3, <2>8 DEF FollowsTo
  <2> QED
    BY <1>1, <2>9
<1>4. \A n \in Nat : (\A m \in 0..n - 1 : m \in S) => n \in S
  BY <1>2, <1>3
<1> QED
  BY <1>1, <1>4, AllNumbers

\* It goes through the free list and stays at its end.
LEMMA FollowsChain ==
    ASSUME TypeInv, NEW f, NEW K, K = heap_size - 1 - cur_size, Chain(f, K),
           NEW link, FollowsTo(link, heap_size)
    PROVE  \A k \in 0..heap_size : link[k] = IF k < K THEN f[k] ELSE heap_size
<1>1. /\ K \in Nat /\ K >= 1 /\ heap_size \in Nat /\ K <= heap_size
      /\ Indices = 1..heap_size - 1 /\ heap_size \notin Indices
  BY DEF TypeInv, Indices
<1>2. /\ \A k \in 0..K : f[k] \in Nat
      /\ \A k \in 0..K - 1 : f[k] \in Indices /\ timer_node_index_array[f[k]] = -f[k + 1]
      /\ f[0] = free_timer_node_index /\ f[K] = heap_size
  BY DEF Chain
<1>3. \A k \in 0..heap_size : link[k] = Follow(link, k)
  BY DEF FollowsTo
<1>4. PICK S : S = {k \in Nat : k \in 0..heap_size =>
                         link[k] = IF k < K THEN f[k] ELSE heap_size}
  OBVIOUS
<1>5. ASSUME NEW k \in Nat, \A m \in 0..k - 1 : m \in S, k \in 0..heap_size
      PROVE  link[k] = IF k < K THEN f[k] ELSE heap_size
  <2>1. CASE k = 0
    BY <1>1, <1>2, <1>3, <1>5, <2>1 DEF Follow
  <2>2. CASE k # 0
    <3>1. PICK m : m = k - 1
      OBVIOUS
    <3>2. m \in Nat /\ m \in 0..k - 1 /\ m \in 0..heap_size /\ k = m + 1
      BY <1>1, <1>5, <2>2, <3>1
    <3>3. link[m] = IF m < K THEN f[m] ELSE heap_size
      BY <1>4, <1>5, <3>2
    <3>4. link[k] = IF link[m] \in Indices THEN -timer_node_index_array[link[m]] ELSE link[m]
      BY <1>3, <1>5, <2>2, <3>1 DEF Follow
    <3>5. CASE m < K
      <4>1. m \in 0..K - 1 /\ k \in 0..K
        BY <1>1, <3>2, <3>5
      <4>2. f[m] \in Indices /\ timer_node_index_array[f[m]] = -f[k] /\ f[k] \in Nat
        BY <1>2, <3>2, <4>1
      <4>3. link[k] = f[k]
        BY <3>3, <3>4, <3>5, <4>2
      <4>4. k < K \/ k = K
        BY <1>1, <4>1
      <4> QED
        BY <1>1, <1>2, <4>3, <4>4
    <3>6. CASE ~(m < K)
      <4>1. ~(k < K)
        BY <1>1, <3>2, <3>6
      <4> QED
        BY <1>1, <3>3, <3>4, <3>6, <4>1
    <3> QED
      BY <3>5, <3>6
  <2> QED
    BY <2>1, <2>2
<1>6. \A k \in Nat : k \in S
  BY <1>4, <1>5, AllNumbers
<1>7. \A k \in 0..heap_size : k \in Nat
  BY <1>1
<1> QED
  BY <1>4, <1>6, <1>7

\* The free indices are linked, each once and with nothing else, up to the
\* first one behind the array, and PopFreeTimerId always finds one
\* (FreeIndicesExact), however PushFreeTimerId and GrowHeap took turns.
THEOREM FreeListComplete == Spec => []FreeIndicesExact
<1>1. HeapInv => FreeIndicesExact
  <2> SUFFICES ASSUME HeapInv PROVE FreeIndicesExact
    OBVIOUS
  <2>1. /\ heap_size \in Nat /\ cur_size \in Nat /\ cur_size + 2 <= heap_size
        /\ free_timer_node_index \in Indices /\ Indices = 1..heap_size - 1
        /\ timer_node_index_array \in [0..heap_size - 1 -> Int]
    BY DEF HeapInv, TypeInv, Indices
  <2>2. PICK K : K = heap_size - 1 - cur_size
    OBVIOUS
  <2>3. PICK f : Chain(f, K)
    BY <2>2 DEF HeapInv, FreeInv
  <2>4. PICK link : link = CHOOSE g : FollowsTo(g, heap_size)
    OBVIOUS
  <2>5. FollowsTo(link, heap_size)
    BY <2>1, <2>4, LinksFollowed
  <2>6. \A k \in 0..heap_size : link[k] = IF k < K THEN f[k] ELSE heap_size
    BY <2>2, <2>3, <2>5, FollowsChain DEF HeapInv
  <2>7. /\ K \in Nat /\ K < heap_size
        /\ \A j \in 0..K - 1 : f[j] \in Indices /\ timer_node_index_array[f[j]] < 0
    BY <2>1, <2>2, <2>3, Links DEF HeapInv
  <2>8. ASSUME NEW k \in 0..heap_size
        PROVE  link[k] \in {heap_size} \cup (Indices \ {heap[p].index : p \in Positions})
    <3>1. CASE k < K
      <4>1. k \in 0..K - 1 /\ link[k] = f[k]
        BY <2>1, <2>6, <2>7, <3>1
      <4>2. ASSUME NEW p \in Positions, heap[p].index = f[k] PROVE FALSE
        <5>1. timer_node_index_array[f[k]] = p /\ p \in Nat
          BY <4>2, HeapNodes DEF HeapInv, IndexInv
        <5> QED
          BY <2>7, <4>1, <5>1
      <4> QED
        BY <2>7, <4>1, <4>2
    <3>2. CASE ~(k < K)
      BY <2>6, <3>2
    <3> QED
      BY <3>1, <3>2
  <2>9. \E k \in 0..heap_size : link[k] = heap_size
    <3>1. K \in 0..heap_size /\ ~(K < K)
      BY <2>1, <2>7
    <3> QED
      BY <2>6, <3>1
  <2>10. ASSUME NEW i \in Indices, \A p \in Positions : heap[p].index # i
         PROVE  \E k \in 0..heap_size : link[k] = i
    <3>1. timer_node_index_array[i] \in Int
      BY <2>1
    <3>2. ~(timer_node_index_array[i] >= 0)
      BY <2>10 DEF HeapInv, IndexInv
    <3>3. timer_node_index_array[i] < 0
      BY <3>1, <3>2
    <3>4. PICK j \in 0..K - 1 : f[j] = i
      BY <2>3, <3>3 DEF Chain
    <3>5. j \in 0..heap_size /\ j < K
      BY <2>1, <2>7
    <3> QED
      BY <2>6, <3>4, <3>5
  <2>11. {link[k] : k \in 0..heap_size} =
             {heap_size} \cup (Indices \ {heap[p].index : p \in Positions})
    BY <2>8, <2>9, <2>10
  <2> QED
    BY <2>1, <2>4, <2>11 DEF FreeIndicesExact, FollowsTo, Follow
<1> QED
  BY <1>1, HeapAlways, PTL

-----------------------------------------------------------------------------
(* The refinement of TimerSet *)

LEMMA StrippedSame == UNCHANGED arrays => Stripped' = Stripped
  BY DEF arrays, Stripped, Strip, Positions

\* A stripped node is that of one position.
LEMMA StrippedOnce ==
    ASSUME HeapInv, NEW pos \in Positions
    PROVE  /\ Strip(heap[pos]) \in Stripped
           /\ Stripped \ {Strip(heap[pos])} = {Strip(heap[q]) : q \in Positions \ {pos}}
<1>1. ASSUME NEW q \in Positions, Strip(heap[q]) = Strip(heap[pos]) PROVE q = pos
  <2>1. heap[q].tag = heap[pos].tag
    BY <1>1 DEF Strip
  <2> QED
    BY <2>1, TagsApart DEF HeapInv
<1>2. Stripped = {Strip(heap[q]) : q \in Positions}
  BY DEF Stripped
<1> HIDE DEF Strip
<1> QED
  BY <1>1, <1>2

\* RemoveNode takes the node at its position out of the set.
LEMMA RemovalStrips ==
    ASSUME HeapInv, NEW pos \in Positions, Removed(pos)
    PROVE  Stripped' = Stripped \ {Strip(heap[pos])}
<1>1. Positions' = 0..cur_size - 1 - 1
  BY DEF Removed, Positions
<1>2. \A p \in Positions' : \E q \in Positions \ {pos} : heap'[p] = heap[q]
  BY <1>1 DEF Removed, Removal
<1>3. \A q \in Positions \ {pos} : \E p \in Positions' : heap'[p] = heap[q]
  BY <1>1 DEF Removed, Removal
<1>4. Stripped' = {Strip(heap'[p]) : p \in Positions'}
  BY DEF Stripped, Strip
<1>5. Stripped' = {Strip(heap[q]) : q \in Positions \ {pos}}
  BY <1>2, <1>3, <1>4
<1> QED
  BY <1>5, StrippedOnce

\* RegisterTimer puts its node into the set.
LEMMA RegistrationStrips ==
    ASSUME HeapInv, NEW node \in Node, Registered(node)
    PROVE  Stripped' = Stripped \cup {Strip(node)}
<1>1. /\ \A p \in Positions' : heap'[p] = node \/ \E q \in Positions : heap'[p] = heap[q]
      /\ \E p \in Positions' : heap'[p] = node
      /\ \A q \in Positions : \E p \in Positions' : heap'[p] = heap[q]
  BY RegisteredIs
<1>2. /\ Stripped' = {Strip(heap'[p]) : p \in Positions'}
      /\ Stripped = {Strip(heap[p]) : p \in Positions}
  BY DEF Stripped, Strip
<1> QED
  BY <1>1, <1>2

\* ReturnKeep replaces the node on top.
LEMMA KeepingStrips ==
    ASSUME HeapInv, NEW node \in Node, cur_size > 0, Kept(node)
    PROVE  Stripped' = (Stripped \ {Strip(heap[0])}) \cup {Strip(node)}
<1>1. Positions' = Positions /\ 0 \in Positions
  BY DEF Kept, Positions, HeapInv, TypeInv
<1>2. /\ \A p \in Positions : heap'[p] = node \/ \E q \in Positions \ {0} : heap'[p] = heap[q]
      /\ \E p \in Positions : heap'[p] = node
      /\ \A q \in Positions \ {0} : \E p \in Positions : heap'[p] = heap[q]
  BY DEF Kept, Keeping
<1>3. Stripped' = {Strip(heap'[p]) : p \in Positions}
  BY <1>1 DEF Stripped, Strip
<1>4. Stripped \ {Strip(heap[0])} = {Strip(heap[q]) : q \in Positions \ {0}}
  BY <1>1, StrippedOnce
<1> QED
  BY <1>2, <1>3, <1>4

\* The node on top is the earliest of the set.
LEMMA RootStripped ==
    ASSUME HeapInv, cur_size > 0
    PROVE  /\ 0 \in Positions /\ Strip(heap[0]) \in Stripped
           /\ \A u \in Stripped : Strip(heap[0]).expire <= u.expire
<1>1. 0 \in Positions
  BY DEF Positions, HeapInv, TypeInv
<1>2. \A p \in Positions : heap[0].expire <= heap[p].expire
  BY RootFirst DEF HeapInv
<1>3. \A p \in Positions : Strip(heap[p]).expire = heap[p].expire
  BY DEF Strip
<1> QED
  BY <1>1, <1>2, <1>3 DEF Stripped

\* A callback runs if the set says so, and its timer is armed if its node is on top.
LEMMA FiringStripped ==
    ASSUME HeapInv
    PROVE  /\ expire_node = NoNode => Strip(expire_node) = Timers!NoTimer
           /\ expire_node # NoNode => Strip(expire_node) # Timers!NoTimer
           /\ StillArmed /\ expire_node # NoNode => cur_size > 0 /\ heap[0] = expire_node
           /\ Strip(expire_node) \in Stripped => StillArmed
<1>1. expire_node = NoNode => Strip(expire_node) = Timers!NoTimer
  BY DEF NoNode, Strip, Timers!NoTimer
<1>2. ASSUME expire_node # NoNode PROVE Strip(expire_node) # Timers!NoTimer
  <2>1. expire_node.tag \in DOMAIN made /\ made \in Seq(Nat)
    BY <1>2 DEF HeapInv, TypeInv, PollInv
  <2>2. expire_node.tag >= 1
    BY <2>1
  <2> QED
    BY <2>2 DEF Strip, Timers!NoTimer
<1>3. StillArmed /\ expire_node # NoNode => heap[0] = expire_node
  BY DEF HeapInv, PollInv
<1>4. StillArmed => cur_size > 0
  BY DEF StillArmed, HeapInv, TypeInv
<1>5. ASSUME Strip(expire_node) \in Stripped PROVE StillArmed
  <2>1. PICK p \in Positions : Strip(expire_node) = Strip(heap[p])
    BY <1>5 DEF Stripped
  <2>2. expire_node.tag = heap[p].tag
    BY <2>1 DEF Strip
  <2> QED
    BY <2>2 DEF StillArmed, Positions
<1> QED
  BY <1>1, <1>2, <1>3, <1>4, <1>5

LEMMA SetBegins == Init => Timers!Init
<1> SUFFICES ASSUME Init PROVE Timers!Init
  OBVIOUS
<1>1. Positions = {} /\ made = <<>> /\ clock = 0 /\ now = NotPolling /\ expire_node = NoNode
  BY DEF Init, Positions
<1>2. Stripped = {} /\ Len(made) = 0
  BY <1>1 DEF Stripped
<1>3. Strip(expire_node) = Timers!NoTimer
  BY <1>1 DEF Strip, NoNode, Timers!NoTimer
<1> QED
  BY <1>1, <1>2, <1>3 DEF Timers!Init, Timers!NotPolling, NotPolling

\* Each action is a step of the set, or none.
LEMMA SetSteps == HeapInv /\ [Next]_vars => [Timers!Next]_Timers!vars
<1> SUFFICES ASSUME HeapInv, [Next]_vars PROVE [Timers!Next]_Timers!vars
  OBVIOUS
<1>1. ASSUME NEW interval \in Intervals, NEW delay \in Delays, RegisterTimer(interval, delay)
      PROVE  Timers!Register(interval, delay)
  <2>1. PICK node : node = NewNode(interval, delay)
    OBVIOUS
  <2>2. node \in Node /\ Registered(node)
    BY <1>1, <2>1, RegisterTimerIs
  <2>3. Stripped' = Stripped \cup {Strip(node)}
    BY <2>2, RegistrationStrips
  <2>4. Strip(node) = [tag |-> Len(made) + 1, expire |-> clock + delay, interval |-> interval]
    BY <2>1 DEF NewNode, Strip
  <2>5. Len(made') = Len(made) + 1
    <3>1. made' = Append(made, free_timer_node_index) /\ made \in Seq(Nat)
      BY <2>2 DEF Registered, HeapInv, TypeInv
    <3>2. free_timer_node_index \in Nat
      BY DEF HeapInv, TypeInv, Indices
    <3> QED
      BY <3>1, <3>2
  <2>6. interval # 0 /\ UNCHANGED <<clock, now, expire_node>>
    BY <1>1, <2>2 DEF RegisterTimer, Registered
  <2>7. Strip(expire_node)' = Strip(expire_node)
    BY <2>6 DEF Strip
  <2> QED
    BY <2>3, <2>4, <2>5, <2>6, <2>7 DEF Timers!Register
<1>2. ASSUME NEW tag \in DOMAIN made, UnregisterTimer(tag)
      PROVE  \E t \in Stripped : Timers!Unregister(t)
  <2>1. PICK pos : pos = Lookup(tag)
    OBVIOUS
  <2>2. pos >= 0 /\ RemoveNode(pos) /\ UNCHANGED <<made, clock, now, expire_node>>
    BY <1>2, <2>1 DEF UnregisterTimer
  <2>3. pos \in Positions
    BY <2>1, <2>2, FoundInHeap
  <2>4. Removed(pos)
    BY <2>2, <2>3, RemoveNodeIs DEF HeapInv
  <2>5. Stripped' = Stripped \ {Strip(heap[pos])} /\ Strip(heap[pos]) \in Stripped
    BY <2>3, <2>4, RemovalStrips, StrippedOnce
  <2>6. Strip(expire_node)' = Strip(expire_node) /\ Len(made)' = Len(made)
    BY <2>2 DEF Strip
  <2>7. Timers!Unregister(Strip(heap[pos]))
    BY <2>2, <2>5, <2>6 DEF Timers!Unregister
  <2> QED
    BY <2>5, <2>7
<1>3. ASSUME TimerPoll PROVE Timers!Begin
  <2>1. now = NotPolling /\ cur_size > 0 /\ now' = clock
        /\ UNCHANGED <<arrays, made, clock, expire_node>>
    BY <1>3 DEF TimerPoll
  <2>2. Stripped # {}
    BY <2>1, RootStripped
  <2>3. Stripped' = Stripped /\ Len(made)' = Len(made) /\ Strip(expire_node)' = Strip(expire_node)
    BY <2>1, StrippedSame DEF Strip
  <2> QED
    BY <2>1, <2>2, <2>3 DEF Timers!Begin, Timers!NotPolling, NotPolling
<1>4. ASSUME Execute PROVE \E t \in Stripped : Timers!Fire(t)
  <2>1. /\ now # NotPolling /\ expire_node = NoNode /\ cur_size > 0 /\ now >= heap[0].expire
        /\ expire_node' = heap[0] /\ UNCHANGED <<arrays, made, clock, now>>
    BY <1>4 DEF Execute
  <2>2. PICK t : t = Strip(heap[0])
    OBVIOUS
  <2>3. 0 \in Positions /\ t \in Stripped /\ \A u \in Stripped : t.expire <= u.expire
    BY <2>1, <2>2, RootStripped
  <2>4. t.expire <= now
    <3>1. now \in Int /\ heap[0].expire \in Int
      BY <2>3, HeapNodes DEF HeapInv, TypeInv, NotPolling
    <3>2. t.expire = heap[0].expire
      BY <2>2 DEF Strip
    <3> QED
      BY <2>1, <3>1, <3>2
  <2>5. Strip(expire_node)' = t /\ Strip(expire_node) = Timers!NoTimer
    BY <2>1, <2>2, FiringStripped DEF Strip
  <2>6. Stripped' = Stripped /\ Len(made)' = Len(made)
    BY <2>1, StrippedSame
  <2>7. Timers!Fire(t)
    BY <2>1, <2>3, <2>4, <2>5, <2>6 DEF Timers!Fire, Timers!NotPolling, NotPolling
  <2> QED
    BY <2>3, <2>7
<1>5. ASSUME ReturnKeep PROVE Timers!Keep
  <2>1. /\ cur_size > 0 /\ heap[0] = expire_node /\ Again \in Node /\ Kept(Again)
    BY <1>5, ReturnKeepIs
  <2>2. Stripped' = (Stripped \ {Strip(expire_node)}) \cup {Strip(Again)}
    BY <2>1, KeepingStrips
  <2>3. Strip(expire_node) \in Stripped
    BY <2>1, RootStripped
  <2>4. Strip(Again) = [Strip(expire_node) EXCEPT !.expire = now + Strip(expire_node).interval]
    BY DEF Strip, Again
  <2>5. Strip(expire_node)' = Timers!NoTimer
    BY <2>1 DEF Kept, Strip, NoNode, Timers!NoTimer
  <2>6. UNCHANGED <<clock, now>> /\ Len(made)' = Len(made)
    BY <2>1 DEF Kept
  <2> QED
    BY <2>2, <2>3, <2>4, <2>5, <2>6 DEF Timers!Keep
<1>6. ASSUME ReturnStop PROVE Timers!Stop
  <2>1. /\ expire_node # NoNode /\ UNCHANGED <<made, clock, now>> /\ expire_node' = NoNode
        /\ cur_size = 0 => UNCHANGED arrays
        /\ cur_size # 0 => RemoveNode(0)
    BY <1>6 DEF ReturnStop
  <2>2. /\ Strip(expire_node) # Timers!NoTimer /\ Strip(expire_node)' = Timers!NoTimer
        /\ UNCHANGED <<clock, now>> /\ Len(made)' = Len(made)
    BY <2>1, FiringStripped DEF Strip, NoNode, Timers!NoTimer
  <2>3. IF Strip(expire_node) \in Stripped
        THEN Stripped' = Stripped \ {Strip(expire_node)}
        ELSE \/ Stripped = {} /\ Stripped' = {}
             \/ \E t \in Timers!Earliest : Stripped' = Stripped \ {t}
    <3>1. CASE cur_size = 0
      <4>1. Positions = {} /\ Stripped' = Stripped
        BY <2>1, <3>1, StrippedSame DEF Positions
      <4>2. Stripped = {}
        BY <4>1 DEF Stripped
      <4> QED
        BY <4>1, <4>2
    <3>2. CASE cur_size # 0
      <4>1. cur_size > 0
        BY <3>2 DEF HeapInv, TypeInv
      <4>2. /\ 0 \in Positions /\ Strip(heap[0]) \in Stripped
            /\ \A u \in Stripped : Strip(heap[0]).expire <= u.expire
        BY <4>1, RootStripped
      <4>3. Removed(0)
        BY <2>1, <3>2, <4>2, RemoveNodeIs DEF HeapInv
      <4>4. Stripped' = Stripped \ {Strip(heap[0])}
        BY <4>2, <4>3, RemovalStrips
      <4>5. Strip(heap[0]) \in Timers!Earliest
        BY <4>2 DEF Timers!Earliest
      <4>6. Strip(expire_node) \in Stripped => heap[0] = expire_node
        BY <2>1, FiringStripped
      <4> QED
        BY <4>4, <4>5, <4>6
    <3> QED
      BY <3>1, <3>2
  <2> QED
    BY <2>2, <2>3 DEF Timers!Stop
<1>7. ASSUME EndPoll PROVE Timers!End
  <2>1. /\ now # NotPolling /\ expire_node = NoNode /\ now' = NotPolling
        /\ cur_size > 0 => now < heap[0].expire
        /\ UNCHANGED <<arrays, made, clock, expire_node>>
    BY <1>7 DEF EndPoll
  <2>2. ASSUME NEW p \in Positions PROVE Strip(heap[p]).expire > now
    <3>1. cur_size > 0 /\ 0 \in Positions
      BY DEF HeapInv, TypeInv, Positions
    <3>2. heap[0].expire <= heap[p].expire /\ now < heap[0].expire
      BY <2>1, <3>1, RootFirst DEF HeapInv
    <3>3. now \in Int /\ heap[0].expire \in Int /\ heap[p].expire \in Int
      BY <3>1, HeapNodes DEF HeapInv, TypeInv, NotPolling
    <3>4. Strip(heap[p]).expire = heap[p].expire
      BY DEF Strip
    <3> QED
      BY <3>2, <3>3, <3>4
  <2>3. \A t \in Stripped : t.expire > now
    BY <2>2 DEF Stripped
  <2>4. /\ Stripped' = Stripped /\ Len(made)' = Len(made)
        /\ Strip(expire_node)' = Strip(expire_node) /\ Strip(expire_node) = Timers!NoTimer
    BY <2>1, StrippedSame, FiringStripped DEF Strip
  <2> QED
    BY <2>1, <2>3, <2>4 DEF Timers!End, Timers!NotPolling, NotPolling
<1>8. ASSUME Tick PROVE Timers!Tick
  <2>1. clock' = clock + 1 /\ UNCHANGED <<arrays, made, now, expire_node>>
    BY <1>8 DEF Tick, poll
  <2>2. /\ Stripped' = Stripped /\ Len(made)' = Len(made)
        /\ Strip(expire_node)' = Strip(expire_node)
    BY <2>1, StrippedSame DEF Strip
  <2> QED
    BY <2>1, <2>2 DEF Timers!Tick
<1>9. ASSUME UNCHANGED vars PROVE UNCHANGED Timers!vars
  <2>1. UNCHANGED <<arrays, made, clock, now, expire_node>>
    BY <1>9 DEF vars, arrays
  <2>2. /\ Stripped' = Stripped /\ Len(made)' = Len(made)
        /\ Strip(expire_node)' = Strip(expire_node)
    BY <2>1, StrippedSame DEF Strip
  <2> QED
    BY <2>1, <2>2 DEF Timers!vars
<1> QED
  BY <1>1, <1>2, <1>3, <1>4, <1>5, <1>6, <1>7, <1>8, <1>9 DEF Next, Timers!Next

\* HeapTimer is a set of timers (ImplementsTimerSet): what the rotations move,
\* which index a timer has and how often the heap has grown cannot be told
\* from the outside.  A poll runs what is due, the earliest first, and leaves
\* nothing behind.
THEOREM TimerSetImplemented == Spec => ImplementsTimerSet
<1>1. Init => Timers!Init
  BY SetBegins
<1>2. HeapInv /\ [Next]_vars => [Timers!Next]_Timers!vars
  BY SetSteps
<1> QED
  BY <1>1, <1>2, HeapAlways, PTL DEF Spec, ImplementsTimerSet, Timers!Spec

=============================================================================
