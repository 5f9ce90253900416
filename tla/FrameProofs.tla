----------------------------- MODULE FrameProofs -----------------------------
(***************************************************************************)
(* Theorems about common/frame: the object pool, for every set of unit     *)
(* counts (the inductive invariant PoolInv, what it says of Find and       *)
(* Release, and that ShmPool implements UnitPool), the life of a server's  *)
(* processes and the pool they attach, and the arithmetic.                 *)
(***************************************************************************)
EXTENDS PoolServer, Random, TimeValue, Utils, FiniteSetTheorems, TLAPS

USE UnitCountsAssumption

-----------------------------------------------------------------------------
(* ShmPool: facts about one state *)

\* The types of the segment's fields, one by one.
LEMMA FieldTypes ==
    TypeOK => /\ total_unit_count \in Nat
              /\ valid_unit_count \in Nat /\ valid_unit_count <= total_unit_count
              /\ free_mem_pos \in Nat
              /\ pos \in [0..total_unit_count -> Int]
              /\ held \subseteq 1..total_unit_count
  BY DEF TypeOK, Units

\* The owned units are finitely many: Cardinality may be reasoned about.
LEMMA HeldFinite == TypeOK => IsFiniteSet(held)
<1> SUFFICES ASSUME TypeOK PROVE IsFiniteSet(held)
  OBVIOUS
<1>1. IsFiniteSet(Units)
  BY FS_Interval, FieldTypes DEF Units
<1> QED
  BY <1>1, FS_Subset DEF TypeOK

\* An invariant state answers Find and TravelPool exactly.
LEMMA InvFind == PoolInv => FindExact
<1> SUFFICES ASSUME PoolInv PROVE FindExact
  OBVIOUS
<1>1. /\ total_unit_count \in Nat /\ valid_unit_count \in Nat
      /\ held \subseteq 1..total_unit_count
  BY FieldTypes DEF PoolInv
<1>2. PICK f \in [0..valid_unit_count -> 1..total_unit_count + 1] : IsFreeChain(f)
  BY DEF PoolInv, FreeListExact
\* The slots of the free list point forward, so they are never positive.
<1>3. ASSUME NEW i \in Units \ held PROVE pos[i] \in Int /\ pos[i] < 0
  <2>1. PICK k \in 0..valid_unit_count - 1 : f[k] = i
    BY <1>2 DEF IsFreeChain
  <2>2. pos[f[k]] = -f[k + 1]
    BY <1>2 DEF IsFreeChain
  <2>3. k + 1 \in 0..valid_unit_count
    BY <1>1
  <2>4. f[k + 1] \in 1..total_unit_count + 1
    BY <1>2, <2>3
  <2> QED
    BY <1>1, <2>1, <2>2, <2>4
<1>4. \A i \in held : pos[i] = i
  BY DEF PoolInv, UsedMarked
<1>5. \A i \in -1..total_unit_count + 1 : Find(i) = IF i \in held THEN i ELSE NULL
  BY <1>1, <1>3, <1>4 DEF Find, Units
<1>6. Travelled = held
  <2>1. \A i \in 1..total_unit_count : pos[i] > 0 <=> i \in held
    BY <1>1, <1>3, <1>4 DEF Units
  <2> QED
    BY <1>1, <2>1 DEF Travelled, Units
<1> QED
  BY <1>5, <1>6 DEF FindExact

\* While a unit is owned, the CHECKs of Release hold for it.
LEMMA InvRelease == PoolInv => ReleaseNeverAborts
<1> SUFFICES ASSUME PoolInv, NEW i \in held PROVE ReleaseChecks(i)
  BY DEF ReleaseNeverAborts
<1>1. IsFiniteSet(held)
  BY HeldFinite DEF PoolInv
<1>2. Cardinality(held) \in Nat /\ Cardinality(held) # 0
  BY <1>1, FS_CardinalityType, FS_EmptySet
<1>3. /\ total_unit_count \in Nat /\ valid_unit_count \in Nat
      /\ i \in 1..total_unit_count
  BY FieldTypes DEF PoolInv
<1> QED
  BY <1>2, <1>3 DEF PoolInv, CountExact, UsedMarked, ReleaseChecks

-----------------------------------------------------------------------------
(* The invariant is inductive. *)

LEMMA InitInv == Init => PoolInv
<1> SUFFICES ASSUME Init PROVE PoolInv
  OBVIOUS
<1> USE DEF Init, NewList, Units, NULL
<1>1. TypeOK
  <2>1. pos \in [0..total_unit_count -> Int]
    OBVIOUS
  <2>2. exists \in BOOLEAN /\ up \in BOOLEAN
    OBVIOUS
  <2>3. /\ total_unit_count \in Nat /\ valid_unit_count \in 0..total_unit_count
        /\ free_mem_pos \in 1..total_unit_count + 1
        /\ held \subseteq Units
        /\ ret \in {-2} \cup 0..total_unit_count
    OBVIOUS
  <2> QED
    BY <2>1, <2>2, <2>3 DEF TypeOK
<1> DEFINE f == [k \in 0..0 |-> 1]
<1>2. IsFreeChain(f)
  BY DEF IsFreeChain
<1>3. f \in [0..valid_unit_count -> 1..total_unit_count + 1]
  OBVIOUS
<1> HIDE DEF f
<1>4. FreeListExact
  BY <1>2, <1>3 DEF FreeListExact
<1>5. UsedMarked /\ CountExact
  BY FS_EmptySet DEF UsedMarked, CountExact
<1> QED
  BY <1>1, <1>4, <1>5 DEF PoolInv

\* Removing the segment leads back to an initial state, with no process.
LEMMA WipeInv == PoolInv /\ Wipe => PoolInv'
<1> SUFFICES ASSUME PoolInv, Wipe PROVE PoolInv'
  OBVIOUS
<1> USE DEF Wipe, NewList, Units, NULL
<1>1. TypeOK'
  <2>1. (pos \in [0..total_unit_count -> Int])'
    OBVIOUS
  <2>2. exists' \in BOOLEAN /\ up' \in BOOLEAN
    BY DEF PoolInv, TypeOK
  <2>3. /\ total_unit_count' \in Nat /\ valid_unit_count' \in 0..total_unit_count'
        /\ free_mem_pos' \in 1..total_unit_count' + 1
        /\ held' \subseteq Units'
        /\ ret' \in {-2} \cup 0..total_unit_count'
    OBVIOUS
  <2> QED
    BY <2>1, <2>2, <2>3 DEF TypeOK
<1> DEFINE f == [k \in 0..0 |-> 1]
<1>2. IsFreeChain(f)'
  BY DEF IsFreeChain
<1>3. f \in [0..valid_unit_count' -> 1..total_unit_count' + 1]
  OBVIOUS
<1> HIDE DEF f
<1>4. FreeListExact'
  BY <1>2, <1>3 DEF FreeListExact
<1>5. UsedMarked' /\ CountExact'
  BY FS_EmptySet DEF UsedMarked, CountExact
<1> QED
  BY <1>1, <1>4, <1>5 DEF PoolInv

\* A new segment: the chain is 1, 2, ..., c and then c + 1.
LEMMA FreshInv == \A c \in UnitCounts : InitFresh(c) => PoolInv'
<1> SUFFICES ASSUME NEW c \in UnitCounts, InitFresh(c) PROVE PoolInv'
  OBVIOUS
<1> USE DEF InitFresh, NewList, Units, NULL
<1>0. c \in Nat
  OBVIOUS
<1>1. TypeOK'
  <2>1. (pos \in [0..total_unit_count -> Int])'
    BY <1>0
  <2>2. exists' \in BOOLEAN /\ up' \in BOOLEAN
    OBVIOUS
  <2>3. /\ total_unit_count' \in Nat /\ valid_unit_count' \in 0..total_unit_count'
        /\ free_mem_pos' \in 1..total_unit_count' + 1
        /\ held' \subseteq Units'
        /\ ret' \in {-2} \cup 0..total_unit_count'
    BY <1>0
  <2> QED
    BY <2>1, <2>2, <2>3 DEF TypeOK
<1> DEFINE f == [k \in 0..c |-> k + 1]
<1>2. IsFreeChain(f)'
  <2>1. \A u \in 1..c : u - 1 \in 0..c - 1 /\ f[u - 1] = u
    BY <1>0
  <2>2. \A k \in 0..c : f[k] = k + 1
    BY <1>0
  <2>3. \A k \in 0..c : pos'[k] = -(k + 1)
    BY <1>0
  <2> HIDE DEF f
  <2>4. /\ f[0] = free_mem_pos' /\ f[c] = c + 1
        /\ \A k, l \in 0..c : f[k] = f[l] => k = l
    BY <1>0, <2>2
  <2>5. ASSUME NEW k \in 0..c - 1
        PROVE  pos'[f[k]] = -f[k + 1] /\ f[k] \in 1..c
    <3>1. k \in 0..c /\ k + 1 \in 0..c
      BY <1>0
    <3>2. f[k] = k + 1 /\ f[k + 1] = (k + 1) + 1
      BY <2>2, <3>1
    <3> QED
      BY <1>0, <2>3, <3>1, <3>2
  <2> QED
    BY <1>0, <2>1, <2>4, <2>5 DEF IsFreeChain
<1>3. f \in [0..valid_unit_count' -> 1..total_unit_count' + 1]
  BY <1>0
<1> HIDE DEF f
<1>4. FreeListExact'
  BY <1>2, <1>3 DEF FreeListExact
<1>5. UsedMarked' /\ CountExact'
  BY <1>0, FS_EmptySet DEF UsedMarked, CountExact
<1> QED
  BY <1>1, <1>4, <1>5 DEF PoolInv

\* Alloc unlinks the head of the chain, a unit that nobody owns.
LEMMA AllocInv == PoolInv /\ Alloc => PoolInv' /\ free_mem_pos \in Units \ held
<1> SUFFICES ASSUME PoolInv, Alloc
             PROVE  PoolInv' /\ free_mem_pos \in Units \ held
  OBVIOUS
<1> DEFINE v == valid_unit_count
           N == total_unit_count
<1>1. /\ N \in Nat /\ v \in Nat /\ v > 0 /\ v <= N
      /\ pos \in [0..N -> Int] /\ held \subseteq 1..N
  BY FieldTypes DEF PoolInv, Alloc
<1>2. PICK f \in [0..v -> 1..N + 1] : IsFreeChain(f)
  BY DEF PoolInv, FreeListExact
<1>3. /\ f[0] = free_mem_pos /\ f[v] = N + 1
      /\ \A k, l \in 0..v : f[k] = f[l] => k = l
      /\ \A k \in 0..v - 1 : pos[f[k]] = -f[k + 1] /\ f[k] \in Units \ held
      /\ \A u \in Units \ held : \E k \in 0..v - 1 : f[k] = u
  BY <1>2 DEF IsFreeChain
<1>4. 0 \in 0..v - 1 /\ 1 \in 0..v
  BY <1>1
<1>5. free_mem_pos \in Units \ held /\ pos[free_mem_pos] = -f[1] /\ f[1] \in 1..N + 1
  BY <1>2, <1>3, <1>4
<1>6. /\ free_mem_pos' = f[1]
      /\ pos' = [pos EXCEPT ![f[0]] = f[0]]
      /\ valid_unit_count' = v - 1 /\ total_unit_count' = N
      /\ ret' = f[0] /\ held' = held \cup {f[0]}
      /\ exists' = exists /\ up' = up
  BY <1>1, <1>3, <1>5 DEF Alloc, PopFreePos
<1> HIDE DEF v, N
<1>7. TypeOK'
  <2>1. exists' \in BOOLEAN /\ up' \in BOOLEAN
    BY <1>6 DEF PoolInv, TypeOK
  <2> QED
    BY <1>1, <1>3, <1>5, <1>6, <2>1 DEF TypeOK, Units, N, v
<1>8. PICK g \in [0..v - 1 -> 1..N + 1] : \A k \in 0..v - 1 : g[k] = f[k + 1]
  <2>1. [k \in 0..v - 1 |-> f[k + 1]] \in [0..v - 1 -> 1..N + 1]
    BY <1>1, <1>2
  <2> QED
    BY <2>1
<1>9. IsFreeChain(g)'
  <2>1. g[0] = free_mem_pos' /\ g[v - 1] = N + 1
    BY <1>1, <1>3, <1>6, <1>8
  <2>2. \A k, l \in 0..v - 1 : g[k] = g[l] => k = l
    BY <1>1, <1>3, <1>8
  <2>3. ASSUME NEW k \in 0..v - 2
        PROVE  pos'[g[k]] = -g[k + 1] /\ g[k] \in Units' \ held'
    <3>1. k + 1 \in 0..v - 1 /\ k \in 0..v - 1 /\ k + 1 # 0 /\ 0 \in 0..v
          /\ k + 1 \in 0..v
      BY <1>1
    <3>2. f[k + 1] # f[0] /\ pos[f[k + 1]] = -f[(k + 1) + 1]
          /\ f[k + 1] \in Units \ held
      BY <1>3, <3>1
    <3>3. g[k] = f[k + 1] /\ g[k + 1] = f[(k + 1) + 1]
      BY <1>8, <3>1
    <3>4. pos'[f[k + 1]] = pos[f[k + 1]]
      BY <1>1, <1>6, <3>2 DEF Units, N
    <3> QED
      BY <1>6, <3>2, <3>3, <3>4 DEF Units, N
  <2>4. ASSUME NEW u \in Units' \ held'
        PROVE  \E k \in 0..v - 2 : g[k] = u
    <3>1. u \in Units \ held /\ u # f[0]
      BY <1>6 DEF Units, N
    <3>2. PICK j \in 0..v - 1 : f[j] = u
      BY <1>3, <3>1
    <3>3. j - 1 \in 0..v - 2 /\ g[j - 1] = u
      BY <1>1, <1>8, <3>1, <3>2
    <3> QED
      BY <3>3
  <2>5. valid_unit_count' = v - 1 /\ v - 1 - 1 = v - 2 /\ total_unit_count' = N
    BY <1>1, <1>6
  <2> QED
    BY <2>1, <2>2, <2>3, <2>4, <2>5 DEF IsFreeChain
<1>10. FreeListExact'
  BY <1>6, <1>8, <1>9 DEF FreeListExact
<1>11. UsedMarked'
  <2>1. ASSUME NEW u \in held' PROVE pos'[u] = u
    <3>1. f[0] \in 0..N /\ u \in 0..N
      <4>1. f[0] \in 1..N
        BY <1>3, <1>5 DEF Units, N
      <4>2. u \in 1..N
        BY <1>1, <1>6, <4>1
      <4> QED
        BY <1>1, <4>1, <4>2
    <3>2. CASE u = f[0]
      BY <1>1, <1>6, <3>1, <3>2
    <3>3. CASE u # f[0]
      <4>1. pos[u] = u
        BY <1>6, <3>3 DEF PoolInv, UsedMarked
      <4> QED
        BY <1>1, <1>6, <3>1, <3>3, <4>1
    <3> QED
      BY <3>2, <3>3
  <2> QED
    BY <2>1 DEF UsedMarked
<1>12. CountExact'
  <2>1. IsFiniteSet(held) /\ Cardinality(held) \in Nat
    BY HeldFinite, FS_CardinalityType DEF PoolInv
  <2>2. f[0] \notin held
    BY <1>3, <1>5
  <2>3. Cardinality(held \cup {f[0]}) = Cardinality(held) + 1
    BY <2>1, <2>2, FS_AddElement
  <2>4. Cardinality(held') = Cardinality(held) + 1
    BY <1>6, <2>3
  <2>5. v + Cardinality(held) = N
    BY DEF PoolInv, CountExact, v, N
  <2>6. valid_unit_count' + Cardinality(held') = total_unit_count'
    BY <1>1, <1>6, <2>1, <2>4, <2>5
  <2> QED
    BY <2>6 DEF CountExact
<1> QED
  BY <1>5, <1>7, <1>10, <1>11, <1>12 DEF PoolInv

\* Release puts the unit in front of the chain.
LEMMA ReleaseInv == \A i \in Units : PoolInv /\ Release(i) => PoolInv'
<1> SUFFICES ASSUME NEW i \in Units, PoolInv, Release(i) PROVE PoolInv'
  OBVIOUS
<1> DEFINE v == valid_unit_count
           N == total_unit_count
<1>1. /\ N \in Nat /\ v \in Nat /\ v + 1 <= N
      /\ pos \in [0..N -> Int] /\ held \subseteq 1..N /\ i \in held
  BY FieldTypes DEF PoolInv, Release, ReleaseChecks
<1>2. PICK f \in [0..v -> 1..N + 1] : IsFreeChain(f)
  BY DEF PoolInv, FreeListExact
<1>3. /\ f[0] = free_mem_pos /\ f[v] = N + 1
      /\ \A k, l \in 0..v : f[k] = f[l] => k = l
      /\ \A k \in 0..v - 1 : pos[f[k]] = -f[k + 1] /\ f[k] \in Units \ held
      /\ \A u \in Units \ held : \E k \in 0..v - 1 : f[k] = u
  BY <1>2 DEF IsFreeChain
<1>4. /\ pos' = [pos EXCEPT ![i] = -f[0]]
      /\ free_mem_pos' = i
      /\ valid_unit_count' = v + 1 /\ total_unit_count' = N
      /\ ret' = 0 /\ held' = held \ {i}
      /\ exists' = exists /\ up' = up
  BY <1>1, <1>3 DEF PoolInv, UsedMarked, Release, PushFreePos, NULL
<1>5. f[0] \in 1..N + 1
  BY <1>1, <1>2
<1> HIDE DEF v, N
<1>6. TypeOK'
  <2>1. exists' \in BOOLEAN /\ up' \in BOOLEAN
    BY <1>4 DEF PoolInv, TypeOK
  <2> QED
    BY <1>1, <1>4, <1>5, <2>1 DEF TypeOK, Units
\* i is not on the old chain: it is owned, and it is not the slot behind all.
<1>7. \A k \in 0..v : f[k] # i
  BY <1>1, <1>3
<1>8. PICK g \in [0..v + 1 -> 1..N + 1] :
        \A k \in 0..v + 1 : g[k] = IF k = 0 THEN i ELSE f[k - 1]
  <2>1. \A k \in 0..v + 1 : k # 0 => k - 1 \in 0..v
    BY <1>1
  <2>2. [k \in 0..v + 1 |-> IF k = 0 THEN i ELSE f[k - 1]]
            \in [0..v + 1 -> 1..N + 1]
    BY <1>1, <1>2, <2>1
  <2> QED
    BY <2>2
<1>9. IsFreeChain(g)'
  <2>1. g[0] = i /\ g[v + 1] = N + 1
    BY <1>1, <1>3, <1>8
  <2>2. \A k, l \in 0..v + 1 : g[k] = g[l] => k = l
    <3> SUFFICES ASSUME NEW k \in 0..v + 1, NEW l \in 0..v + 1, g[k] = g[l]
                 PROVE  k = l
      OBVIOUS
    <3>1. /\ k # 0 => k - 1 \in 0..v /\ g[k] = f[k - 1] /\ g[k] # i
          /\ l # 0 => l - 1 \in 0..v /\ g[l] = f[l - 1] /\ g[l] # i
          /\ k = 0 => g[k] = i
          /\ l = 0 => g[l] = i
      <4>1. \A m \in 0..v + 1 : m # 0 => m - 1 \in 0..v
        BY <1>1
      <4>2. \A m \in 0..v + 1 : m # 0 => g[m] = f[m - 1]
        BY <1>8
      <4>3. \A m \in 0..v + 1 : m = 0 => g[m] = i
        BY <1>8
      <4> QED
        BY <1>7, <4>1, <4>2, <4>3
    <3>2. CASE k = 0 \/ l = 0
      BY <3>1, <3>2
    <3>3. CASE k # 0 /\ l # 0
      <4>1. k - 1 = l - 1
        BY <1>3, <3>1, <3>3
      <4> QED
        BY <1>1, <4>1
    <3> QED
      BY <3>2, <3>3
  <2>3. ASSUME NEW k \in 0..v
        PROVE  pos'[g[k]] = -g[k + 1] /\ g[k] \in Units' \ held'
    <3>1. k \in 0..v + 1 /\ k + 1 \in 0..v + 1 /\ (k + 1) - 1 = k /\ k + 1 # 0
      BY <1>1
    <3>2. CASE k = 0
      <4>1. g[k] = i /\ g[k + 1] = f[0]
        BY <1>8, <3>1, <3>2
      <4> QED
        BY <1>1, <1>4, <4>1 DEF Units, N
    <3>3. CASE k # 0
      <4>1. k - 1 \in 0..v - 1 /\ k - 1 \in 0..v /\ (k - 1) + 1 = k
        BY <1>1, <3>3
      <4>2. g[k] = f[k - 1] /\ g[k + 1] = f[k]
        BY <1>8, <3>1, <3>3
      <4>3. pos[f[k - 1]] = -f[k] /\ f[k - 1] \in Units \ held /\ f[k - 1] # i
        BY <1>3, <1>7, <4>1
      <4>4. pos'[f[k - 1]] = pos[f[k - 1]]
        BY <1>1, <1>4, <4>3 DEF Units, N
      <4> QED
        BY <1>4, <4>2, <4>3, <4>4 DEF Units, N
    <3> QED
      BY <3>2, <3>3
  <2>4. ASSUME NEW u \in Units' \ held'
        PROVE  \E k \in 0..v : g[k] = u
    <3>1. CASE u = i
      BY <1>1, <2>1, <3>1
    <3>2. CASE u # i
      <4>1. u \in Units \ held
        BY <1>4, <3>2 DEF Units, N
      <4>2. PICK j \in 0..v - 1 : f[j] = u
        BY <1>3, <4>1
      <4>3. j + 1 \in 0..v /\ g[j + 1] = u
        BY <1>1, <1>8, <4>2
      <4> QED
        BY <4>3
    <3> QED
      BY <3>1, <3>2
  <2>5. valid_unit_count' = v + 1 /\ (v + 1) - 1 = v /\ total_unit_count' = N
        /\ free_mem_pos' = i
    BY <1>1, <1>4
  <2>6. /\ \A k \in 0..v : pos'[g[k]] = -g[k + 1]
        /\ \A k \in 0..v : g[k] \in Units' \ held'
        /\ \A u \in Units' \ held' : \E k \in 0..v : g[k] = u
    BY <2>3, <2>4
  <2> HIDE DEF Units
  <2> QED
    BY <2>1, <2>2, <2>5, <2>6 DEF IsFreeChain
<1>10. FreeListExact'
  BY <1>4, <1>8, <1>9 DEF FreeListExact
<1>11. UsedMarked'
  BY <1>1, <1>4 DEF PoolInv, UsedMarked
<1>12. CountExact'
  <2>1. IsFiniteSet(held) /\ Cardinality(held) \in Nat
    BY HeldFinite, FS_CardinalityType DEF PoolInv
  <2>2. Cardinality(held') = Cardinality(held) - 1
    BY <2>1, <1>1, <1>4, FS_RemoveElement
  <2>3. v + Cardinality(held) = N
    BY DEF PoolInv, CountExact, v, N
  <2>4. valid_unit_count' + Cardinality(held') = total_unit_count'
    BY <1>1, <1>4, <2>1, <2>2, <2>3
  <2> QED
    BY <2>4 DEF CountExact
<1> QED
  BY <1>6, <1>10, <1>11, <1>12 DEF PoolInv

\* The other steps leave the segment and the owned units alone.
LEMMA QuietInv ==
    PoolInv /\ UNCHANGED <<segment, held>> /\ up' \in BOOLEAN
      /\ ret' \in {-2} \cup 0..total_unit_count => PoolInv'
<1> SUFFICES ASSUME PoolInv, UNCHANGED <<segment, held>>, up' \in BOOLEAN,
                    ret' \in {-2} \cup 0..total_unit_count
             PROVE  PoolInv'
  OBVIOUS
<1> USE DEF segment
<1>1. TypeOK'
  BY DEF PoolInv, TypeOK, Units
<1>2. PICK f \in [0..valid_unit_count -> 1..total_unit_count + 1] : IsFreeChain(f)
  BY DEF PoolInv, FreeListExact
<1>3. IsFreeChain(f)'
  BY <1>2 DEF IsFreeChain, Units
<1>4. FreeListExact'
  BY <1>2, <1>3 DEF FreeListExact
<1>5. UsedMarked' /\ CountExact'
  BY DEF PoolInv, UsedMarked, CountExact
<1> QED
  BY <1>1, <1>4, <1>5 DEF PoolInv

LEMMA StepInv == PoolInv /\ [Next]_vars => PoolInv'
<1> SUFFICES ASSUME PoolInv, [Next]_vars PROVE PoolInv'
  OBVIOUS
<1>1. ASSUME NEW c \in UnitCounts, InitFresh(c) PROVE PoolInv'
  BY <1>1, FreshInv
<1>2. ASSUME NEW c \in UnitCounts, InitAttach(c) PROVE PoolInv'
  BY <1>2, QuietInv DEF InitAttach, PoolInv, TypeOK, NULL
<1>3. ASSUME NEW c \in UnitCounts, InitMismatch(c) PROVE PoolInv'
  BY <1>3, QuietInv DEF InitMismatch, PoolInv, TypeOK
<1>4. CASE Alloc
  BY <1>4, AllocInv
<1>5. CASE AllocFull
  BY <1>5, QuietInv DEF AllocFull, PoolInv, TypeOK, NULL
<1>6. ASSUME NEW i \in Units, Release(i) PROVE PoolInv'
  BY <1>6, ReleaseInv
<1>7. CASE Stop
  <2>1. up' \in BOOLEAN
    BY <1>7 DEF Stop
  <2>2. ret' \in {-2} \cup 0..total_unit_count
    BY <1>7 DEF Stop, NULL, PoolInv, TypeOK
  <2> QED
    BY <1>7, <2>1, <2>2, QuietInv DEF Stop
<1>8. CASE Wipe
  BY <1>8, WipeInv
<1>9. CASE UNCHANGED vars
  BY <1>9, QuietInv DEF vars, segment, PoolInv, TypeOK
<1> QED
  BY <1>1, <1>2, <1>3, <1>4, <1>5, <1>6, <1>7, <1>8, <1>9 DEF Next

-----------------------------------------------------------------------------
(* The theorems. *)

\* Whatever unit counts are configured and however often the process restarts,
\* the fields of the segment keep their types and the free list runs through
\* exactly the units nobody owns.
THEOREM Invariance == Spec => []PoolInv
<1>1. Init => PoolInv
  BY InitInv
<1>2. PoolInv /\ [Next]_vars => PoolInv'
  BY StepInv
<1> QED
  BY <1>1, <1>2, PTL DEF Spec

\* Type correctness of the pool's fields.
THEOREM TypeCorrect == Spec => []TypeOK
<1>1. PoolInv => TypeOK
  BY DEF PoolInv
<1> QED
  BY <1>1, Invariance, PTL

\* The free list runs through exactly the free units, without a cycle.
THEOREM FreeListCorrect == Spec => []FreeListExact
<1>1. PoolInv => FreeListExact
  BY DEF PoolInv
<1> QED
  BY <1>1, Invariance, PTL

\* valid_unit_count is the number of units nobody owns.
THEOREM CountCorrect == Spec => []CountExact
<1>1. PoolInv => CountExact
  BY DEF PoolInv
<1> QED
  BY <1>1, Invariance, PTL

\* Find and TravelPool see exactly the units that are owned.
THEOREM FindCorrect == Spec => []FindExact
  BY InvFind, Invariance, PTL

\* The CHECKs in Release never abort a process that gives back what it owns.
THEOREM ReleaseCorrect == Spec => []ReleaseNeverAborts
  BY InvRelease, Invariance, PTL

\* ShmPool implements UnitPool: no unit is handed out twice, and Alloc says
\* that the pool is full only when every unit is owned.
THEOREM Refinement == Spec => ImplementsPool
<1>1. Init => Pool!Init
  BY DEF Init, Pool!Init, NULL, Pool!NULL
<1>2. PoolInv /\ [Next]_vars => [Pool!Next]_(Pool!vars)
  <2> SUFFICES ASSUME PoolInv, [Next]_vars PROVE [Pool!Next]_(Pool!vars)
    OBVIOUS
  <2> USE DEF Pool!Next, Pool!vars, Pool!NULL, Pool!Units, NULL, Units
  <2>1. ASSUME NEW c \in UnitCounts, InitFresh(c) PROVE Pool!Create(c)
    BY <2>1 DEF InitFresh, Pool!Create
  <2>2. ASSUME NEW c \in UnitCounts, InitAttach(c) PROVE Pool!Attach
    BY <2>2 DEF InitAttach, segment, Pool!Attach
  <2>3. ASSUME NEW c \in UnitCounts, InitMismatch(c) PROVE Pool!Refuse
    BY <2>3 DEF InitMismatch, segment, Pool!Refuse
  <2>4. CASE Alloc
    BY <2>4, AllocInv DEF Alloc, Pool!Take
  <2>5. CASE AllocFull
    <3>1. PICK f \in [0..valid_unit_count -> 1..total_unit_count + 1] : IsFreeChain(f)
      BY DEF PoolInv, FreeListExact
    <3>2. valid_unit_count = 0 /\ held \subseteq Units
      BY <2>5, FieldTypes DEF AllocFull, PoolInv
    <3>3. \A u \in Units \ held : \E k \in 0..-1 : f[k] = u
      BY <3>1, <3>2 DEF IsFreeChain
    <3>4. held = Units
      <4>1. \A k \in 0..-1 : FALSE
        OBVIOUS
      <4>2. Units \ held = {}
        BY <3>3, <4>1
      <4> HIDE DEF Units
      <4> QED
        BY <3>2, <4>2
    <3> QED
      BY <2>5, <3>4 DEF AllocFull, segment, Pool!Full
  <2>6. ASSUME NEW i \in Units, Release(i) PROVE i \in held /\ Pool!GiveBack(i)
    BY <2>6 DEF Release, Pool!GiveBack
  <2>7. CASE Stop
    BY <2>7 DEF Stop, segment, Pool!Detach
  <2>8. CASE Wipe
    BY <2>8 DEF Wipe, Pool!Remove
  <2>9. CASE UNCHANGED vars
    BY <2>9 DEF vars
  <2> QED
    BY <2>1, <2>2, <2>3, <2>4, <2>5, <2>6, <2>7, <2>8, <2>9 DEF Next
<1> QED
  BY <1>1, <1>2, Invariance, PTL DEF Spec, ImplementsPool, Pool!Spec

-----------------------------------------------------------------------------
(* ServerFrame *)

\* What the pool does has no part in it: what one process does to the file and
\* to itself.
ProcessStep(p) == \/ FrameStep(p) \/ Commands(p) \/ AppInit(p) \/ AppInitAborts(p)
                  \/ AppStop(p) \/ Kill(p)

LEMMA ServerSteps ==
    ASSUME [ServerNext]_all
    PROVE  (\E p \in Pids : ProcessStep(p)) \/ UNCHANGED frame
  BY DEF ServerNext, Runs, Use, Attach, Mismatch, Detach, KillAttached, KillOther,
         StopScript, ProcessStep, all

LEMMA StartFrame == FrameInit => FrameInv
  BY PidsAssumption DEF FrameInit, FrameInv, FrameTypeOK, StartsApart, PidFileNamesServer,
                        Starting, Loaded, Serving, Leaving

LEMMA EndsKeeps ==
    ASSUME FrameInv, NEW p \in Pids, Ends(p),
           \/ UNCHANGED pid_file
           \/ at[p] = "RemovePidFile" /\ pid_file' = 0
    PROVE  FrameInv'
<1>1. FrameTypeOK'
  BY DEF FrameInv, FrameTypeOK, Ends, Starting, Loaded, Serving, Leaving
<1>2. StartsApart'
  BY DEF FrameInv, FrameTypeOK, StartsApart, Ends, Starting, Loaded, Serving, Leaving
<1>3. PidFileNamesServer'
  BY DEF FrameInv, FrameTypeOK, PidFileNamesServer, Ends, Starting, Loaded, Serving, Leaving
<1>. QED
  BY <1>1, <1>2, <1>3 DEF FrameInv

LEMMA ProcessKeeps ==
    ASSUME FrameInv, NEW p \in Pids, ProcessStep(p)
    PROVE  FrameInv'
<1>. USE DEF FrameInv, FrameTypeOK, StartsApart, PidFileNamesServer, Step,
             Starting, Loaded, Serving, Leaving
<1>1. CASE Start(p)
  BY <1>1 DEF Start
<1>2. CASE NotRunning(p)
  BY <1>2, PidsAssumption DEF NotRunning, Running, Exists
<1>3. CASE CreatePidFile(p)
  BY <1>3 DEF CreatePidFile
<1>4. CASE WritePid(p)
  BY <1>4 DEF WritePid
<1>5. CASE SetSignal(p)
  BY <1>5 DEF SetSignal
<1>6. CASE GetInstance(p)
  BY <1>6 DEF GetInstance
<1>7. CASE AppInit(p)
  BY <1>7 DEF AppInit
<1>8. CASE LeaveLoop(p)
  BY <1>8 DEF LeaveLoop
<1>9. CASE AppStop(p)
  BY <1>9 DEF AppStop
<1>10. CASE StopSignal(p)
  BY <1>10 DEF StopSignal
<1>11. CASE \/ Refused(p) \/ Exit(p) \/ AppInitAborts(p) \/ SignalKills(p)
            \/ ReloadCrashes(p) \/ Kill(p)
  BY <1>11, EndsKeeps DEF Refused, Exit, AppInitAborts, SignalKills, ReloadCrashes, Kill
<1>. QED
  BY <1>1, <1>2, <1>3, <1>4, <1>5, <1>6, <1>7, <1>8, <1>9, <1>10, <1>11
  DEF ProcessStep, FrameStep, Commands

\* The pid file names the one process that serves, for every set of process ids
\* and every pool.
THEOREM PidFileCorrect == ServerSpec => []PidFileNamesServer
<1>1. ServerInit => FrameInv
  BY StartFrame DEF ServerInit
<1>2. FrameInv /\ [ServerNext]_all => FrameInv'
  <2>1. SUFFICES ASSUME FrameInv, [ServerNext]_all
                 PROVE  FrameInv'
    OBVIOUS
  <2>2. CASE UNCHANGED frame
    BY <2>1, <2>2 DEF FrameInv, FrameTypeOK, StartsApart, PidFileNamesServer, frame
  <2>. QED
    BY <2>1, <2>2, ServerSteps, ProcessKeeps
<1>3. FrameInv => PidFileNamesServer
  BY DEF FrameInv
<1>. QED
  BY <1>1, <1>2, <1>3, PTL DEF ServerSpec

\* To its pool a server is what ShmPool takes any process to be.
LEMMA ServerIsProcess == ServerSpec => Spec
<1>1. ServerInit => Init
  BY DEF ServerInit
<1>2. [ServerNext]_all => [Next]_vars
  <2>1. ASSUME UNCHANGED vars \/ StopScript \/ \E p \in Pids :
               Use(p) \/ Attach(p) \/ Mismatch(p) \/ Detach(p) \/ KillAttached(p)
        PROVE  [Next]_vars
    BY <2>1 DEF StopScript, Use, Attach, Mismatch, Detach, KillAttached, Next
  <2> QED
    BY <2>1 DEF ServerNext, Runs, KillOther, all
<1> QED
  BY <1>1, <1>2, PTL DEF ServerSpec, Spec

\* Whatever becomes of the processes of a server, and whenever, the free list of
\* its pool runs through exactly the units that nobody owns, a restart finds
\* exactly the owned ones, Release never aborts, and no unit has two owners.
THEOREM PoolServed == ServerSpec => /\ []FreeListExact /\ []FindExact
                                    /\ []ReleaseNeverAborts /\ ImplementsPool
  BY ServerIsProcess, FreeListCorrect, FindCorrect, ReleaseCorrect, Refinement, PTL

-----------------------------------------------------------------------------
(* Random *)

LEMMA Factors == /\ Q = 44488 /\ R = 3399 /\ A = 48271 /\ M = 2147483647
                 /\ M \in Int
  BY SMT DEF Q, R, A, M

LEMMA SeedBounds == \A s : s \in Seeds <=> s \in Int /\ 0 < s /\ s < M
<1>1. M \in Int
  BY Factors, SMT
<1>. QED
  BY <1>1, SMT DEF Seeds

LEMMA Parts ==
    ASSUME NEW s \in Int, 0 < s, s < M
    PROVE  /\ s % Q \in Int /\ 0 <= s % Q /\ s % Q < Q
           /\ s \div Q \in Int /\ 0 <= s \div Q /\ s \div Q <= A
           /\ s % Q = s - Q * (s \div Q)
<1>1. s < 2147483647
  BY Factors, SMT
<1>2. /\ s % 44488 \in Int /\ 0 <= s % 44488 /\ s % 44488 < 44488
      /\ s % 44488 = s - 44488 * (s \div 44488)
      /\ s \div 44488 \in Int
  BY SMT
<1>3. 0 <= s \div 44488 /\ s \div 44488 <= 48271
  BY <1>1, <1>2, SMT
<1>. QED
  BY <1>2, <1>3, Factors, SMT

\* Schrage's method stays within 32 bits, for every seed it can have.
THEOREM RandNeverOverflows == \A seed \in Seeds : NeverOverflows(seed)
<1>1. SUFFICES ASSUME NEW s \in Int, 0 < s, s < M
               PROVE  NeverOverflows(s)
  BY SeedBounds, Zenon
<1>. DEFINE e == s % Q
            d == s \div Q
<1>2. /\ e \in Int /\ 0 <= e /\ e < Q
      /\ d \in Int /\ 0 <= d /\ d <= A
  BY <1>1, Parts, Zenon
<1>. HIDE DEF e, d
<1>3. /\ A * e \in Int /\ 0 <= A * e /\ A * e < M
      /\ R * d \in Int /\ 0 <= R * d /\ R * d < M
  BY <1>2, Factors, SMT
<1>4. /\ Up(s) \in Int /\ 0 <= Up(s) /\ Up(s) < M
      /\ Down(s) \in Int /\ 0 <= Down(s) /\ Down(s) < M
  BY <1>3, Zenon DEF Up, Down, e, d
<1>5. M \in Int /\ M > 0
  BY Factors, SMT
<1>6. /\ TempSeed(s) \in Int /\ -M < TempSeed(s) /\ TempSeed(s) < M
      /\ GetRand(s) \in Int /\ -M < GetRand(s) /\ GetRand(s) < M
  BY <1>4, <1>5, SMT DEF TempSeed, GetRand
<1>. QED
  BY <1>4, <1>5, <1>6, SMT DEF NeverOverflows, Int32

\* GetRand computes A * seed mod M, which is a seed again: no tag of a timer is
\* 0, the value that marks an index as free.
THEOREM RandIsProduct ==
    \A seed \in Seeds : GetRand(seed) = (A * seed) % M /\ GetRand(seed) \in Seeds
<1>1. SUFFICES ASSUME NEW s \in Int, 0 < s, s < M
               PROVE  GetRand(s) = (A * s) % M /\ GetRand(s) \in Seeds
  BY SeedBounds, Zenon
<1>. DEFINE e == s % Q
            d == s \div Q
            g == GetRand(s)
<1>2. /\ e \in Int /\ 0 <= e /\ e < Q
      /\ d \in Int /\ 0 <= d /\ d <= A
      /\ e = s - Q * d
  BY <1>1, Parts, Zenon
<1>3. g = IF A * e - R * d >= 0 THEN A * e - R * d ELSE A * e - R * d + M
  BY Zenon DEF GetRand, TempSeed, Up, Down
<1>. HIDE DEF e, d, g
<1>4. \E j \in {d, d - 1} : g = A * s - M * j
  BY <1>2, <1>3, Factors, SMT
<1>5. g \in Int /\ 0 <= g /\ g < M
  BY <1>2, <1>3, Factors, SMT
<1>6. g = (A * s) % M
  BY <1>2, <1>4, <1>5, Factors, SMT
\* 48271 is a prime, and 5567 * 3399 is one more than a multiple of it.
<1>7. g # 0
  <2>1. SUFFICES ASSUME g = 0
                 PROVE  FALSE
    OBVIOUS
  <2>2. CASE 48271 * e - 3399 * d >= 0
    <3>1. 48271 * e = 3399 * d
      BY <1>2, <1>3, <2>1, <2>2, Factors, SMT
    <3>2. d = 48271 * (5567 * e - 392 * d)
      BY <1>2, <3>1, SMT
    <3>3. d = 0 \/ d = 48271
      BY <1>2, <3>2, Factors, SMT
    <3>. QED
      BY <1>1, <1>2, <3>1, <3>3, Factors, SMT
  <2>3. CASE 48271 * e - 3399 * d < 0
    <3>1. 48271 * (e + 44488) = 3399 * (d - 1)
      BY <1>2, <1>3, <2>1, <2>3, Factors, SMT
    <3>2. d - 1 = 48271 * (5567 * (e + 44488) - 392 * (d - 1))
      BY <1>2, <3>1, SMT
    <3>3. d - 1 <= 0
      BY <1>2, <3>2, Factors, SMT
    <3>. QED
      BY <1>2, <3>1, <3>3, Factors, SMT
  <2>. QED
    BY <1>2, <2>2, <2>3, SMT
<1>8. g \in Seeds
  BY <1>5, <1>7, SeedBounds, SMT
<1>. QED
  BY <1>6, <1>8, Zenon DEF g

\* GetRand loses no seed: the tags of a HeapTimer run through one cycle, and
\* none comes twice before the first one comes again.
THEOREM RandIsInjective ==
    \A s, t \in Seeds : GetRand(s) = GetRand(t) => s = t
<1>1. SUFFICES ASSUME NEW s \in Int, 0 < s, s < M, NEW t \in Int, 0 < t, t < M,
                      GetRand(s) = GetRand(t)
               PROVE  s = t
  BY SeedBounds, Zenon
<1>. DEFINE i == (A * s) \div M
            j == (A * t) \div M
<1>2. (A * s) % M = (A * t) % M
  BY <1>1, RandIsProduct, SeedBounds, Zenon
<1>3. /\ i \in Int /\ (A * s) % M = A * s - M * i
      /\ j \in Int /\ (A * t) % M = A * t - M * j
  BY <1>1, Factors, SMT
<1>. HIDE DEF i, j
<1>4. A * (s - t) = M * (i - j)
  BY <1>1, <1>2, <1>3, Factors, SMT
\* 1899818559 is the inverse of A: its product with A is 42704 * M + 1.
<1>5. s - t = M * (1899818559 * (i - j) - 42704 * (s - t))
  BY <1>1, <1>3, <1>4, Factors, SMT
<1>. QED
  BY <1>1, <1>3, <1>5, Factors, SMT

-----------------------------------------------------------------------------
(* TimeValue *)

\* A negative usec aborts, so that a subtraction with a borrow ends the process
\* though its result may be well above 0; any other usec passes.
THEOREM AbortsIfNegative ==
    ASSUME NEW tv \in Times
    PROVE  NormalizeAborts(tv) <=> tv.usec < 0
<1>. DEFINE S == ONE_SECOND_IN_USECS
            u == tv.usec
<1>1. S \in Int /\ S > 0 /\ u \in Int
  BY SecondAssumption, SMT DEF Times
<1>. HIDE DEF S, u
<1>2. CASE u < 0
  <2>1. u * S < 0
    BY <1>1, <1>2, SMT
  <2>. QED
    BY <1>1, <1>2, <2>1, SMT DEF NormalizeAborts, S, u
<1>3. CASE u >= 0
  <2>1. u * S >= 0
    BY <1>1, <1>3, SMT
  <2>. QED
    BY <1>1, <1>3, <2>1, SMT DEF NormalizeAborts, S, u
<1>. QED
  BY <1>1, <1>2, <1>3, SMT

\* Normalize keeps the time and brings usec into its range.
THEOREM NormalizeCorrect ==
    ASSUME NEW tv \in Times
    PROVE  Normalize(tv) \in Normal /\ Usecs(Normalize(tv)) = Usecs(tv)
<1>. DEFINE S == ONE_SECOND_IN_USECS
            c == tv.sec
            u == tv.usec
            k == u \div S
            l == (-u) \div S
<1>1. S \in Nat \ {0} /\ c \in Int /\ u \in Int /\ tv = Time(c, u)
  BY SecondAssumption, SMT DEF Times, Time
<1>2. /\ k \in Int /\ u % S \in 0..S - 1 /\ u % S = u - S * k
      /\ l \in Int /\ (-u) % S \in 0..S - 1 /\ (-u) % S = (-u) - S * l
  <2>. HIDE DEF S, u
  <2>. QED
    BY <1>1, SMT
<1>. HIDE DEF S, c, u, k, l
<1>3. ASSUME NEW m \in Int, NEW n \in Int,
             n \in 0..S - 1, m * S + n = c * S + u
      PROVE  Time(m, n) \in Normal /\ Usecs(Time(m, n)) = Usecs(tv)
  BY <1>1, <1>3, SMT DEF Normal, Usecs, Time, S
<1>4. CASE u >= S
  <2>1. Normalize(tv) = Time(c + k, u % S)
    BY <1>1, <1>2, <1>4, SMT DEF Normalize, Time, S, c, u, k
  <2>2. (c + k) * S + (u % S) = c * S + u
    BY <1>1, <1>2, SMT
  <2>. QED
    BY <1>1, <1>2, <1>3, <2>1, <2>2, SMT
<1>5. CASE u <= -S
  <2>1. CASE (-u) % S = 0
    <3>1. Normalize(tv) = Time(c - l, 0)
      BY <1>1, <1>2, <1>5, <2>1, SMT DEF Normalize, Time, S, c, u, l
    <3>2. (c - l) * S + 0 = c * S + u
      BY <1>1, <1>2, <2>1, SMT
    <3>. QED
      BY <1>1, <1>2, <1>3, <3>1, <3>2, SMT
  <2>2. CASE (-u) % S # 0
    <3>1. Normalize(tv) = Time(c - l - 1, S - ((-u) % S))
      BY <1>1, <1>2, <1>5, <2>2, SMT DEF Normalize, Time, S, c, u, l
    <3>2. (c - l - 1) * S + (S - ((-u) % S)) = c * S + u
      BY <1>1, <1>2, SMT
    <3>. QED
      BY <1>1, <1>2, <1>3, <2>2, <3>1, <3>2, SMT
  <2>. QED
    BY <2>1, <2>2
<1>6. CASE -S < u /\ u < 0
  <2>1. Normalize(tv) = Time(c - 1, u + S)
    BY <1>1, <1>6, SMT DEF Normalize, Time, S, c, u
  <2>. QED
    BY <1>1, <1>3, <1>6, <2>1, SMT
<1>7. CASE 0 <= u /\ u < S
  <2>1. Normalize(tv) = tv
    BY <1>1, <1>7, SMT DEF Normalize, Time, S, c, u
  <2>. QED
    BY <1>1, <1>3, <1>7, <2>1, SMT
<1>. QED
  BY <1>1, <1>4, <1>5, <1>6, <1>7, SMT

\* ExpireTime of two normalised times does not abort, and is their sum.
THEOREM PlusCorrect ==
    ASSUME NEW a \in Normal, NEW b \in Normal
    PROVE  /\ ~NormalizeAborts(Sum(a, b))
           /\ Plus(a, b) \in Normal
           /\ Usecs(Plus(a, b)) = Usecs(a) + Usecs(b)
<1>1. ONE_SECOND_IN_USECS \in Nat \ {0}
  BY SecondAssumption
<1>2. /\ a.sec \in Int /\ a.usec \in Int /\ a.usec >= 0
      /\ b.sec \in Int /\ b.usec \in Int /\ b.usec >= 0
  BY <1>1, SMT DEF Normal
<1>3. Sum(a, b) \in Times /\ Sum(a, b).usec >= 0
  BY <1>2, SMT DEF Sum, Times, Time
<1>4. Usecs(Sum(a, b)) = Usecs(a) + Usecs(b)
  BY <1>1, <1>2, SMT DEF Usecs, Sum, Time
<1>5. ~NormalizeAborts(Sum(a, b))
  <2>1. Sum(a, b).usec \in Int
    BY <1>3 DEF Times
  <2>. QED
    BY <1>3, <2>1, AbortsIfNegative, SMT
<1>. QED
  BY <1>3, <1>4, <1>5, NormalizeCorrect, Zenon DEF Plus

\* TimervalGte orders normalised times as their microseconds, so that plain
\* numbers stand for them in HeapTimer.
THEOREM GteCorrect ==
    ASSUME NEW a \in Normal, NEW b \in Normal
    PROVE  TimervalGte(a, b) <=> Usecs(a) >= Usecs(b)
<1>. DEFINE S == ONE_SECOND_IN_USECS
<1>1. S \in Nat \ {0}
  BY SecondAssumption
<1>2. /\ a.sec \in Int /\ a.usec \in 0..S - 1
      /\ b.sec \in Int /\ b.usec \in 0..S - 1
  BY <1>1, SMT DEF Normal
<1>. HIDE DEF S
<1>3. ASSUME NEW m \in Int, NEW n \in Int, m < n
      PROVE  m * S + S <= n * S
  BY <1>1, <1>3, SMT
<1>4. CASE a.sec = b.sec
  BY <1>1, <1>2, <1>4, SMT DEF TimervalGte, After, Usecs, S
<1>5. CASE a.sec < b.sec
  <2>1. a.sec * S + S <= b.sec * S
    BY <1>2, <1>3, <1>5
  <2>. QED
    BY <1>1, <1>2, <1>5, <2>1, SMT DEF TimervalGte, After, Usecs, S
<1>6. CASE a.sec > b.sec
  <2>1. b.sec * S + S <= a.sec * S
    BY <1>2, <1>3, <1>6, SMT
  <2>. QED
    BY <1>1, <1>2, <1>6, <2>1, SMT DEF TimervalGte, After, Usecs, S
<1>. QED
  BY <1>2, <1>4, <1>5, <1>6, SMT

-----------------------------------------------------------------------------
(* Utils *)

\* Two bits that are both 1 are both cleared, where the comment on BitSwap64
\* has them left alone.
THEOREM EqualBitsCleared ==
    ASSUME NEW num, NEW m \in Bits, NEW n \in Bits, m # n, {m, n} \subseteq num
    PROVE  BitSwap64(num, m, n) = num \ {m, n}
<1>1. MasksDiffer(num, m, n)
  BY DEF MasksDiffer
<1>2. Xor(num, {m} \cup {n}) = num \ {m, n}
  BY Zenon DEF Xor
<1>. QED
  BY <1>1, <1>2, SMT DEF BitSwap64

\* Bits that differ are swapped.
THEOREM BitsSwapped ==
    ASSUME NEW num, NEW m \in Bits, NEW n \in Bits, m \in num, n \notin num
    PROVE  /\ BitSwap64(num, m, n) = (num \ {m}) \cup {n}
           /\ BitSwap64(num, n, m) = (num \ {m}) \cup {n}
<1>1. MasksDiffer(num, m, n) /\ MasksDiffer(num, n, m)
  BY DEF MasksDiffer
<1>2. /\ Xor(num, {m} \cup {n}) = (num \ {m}) \cup {n}
      /\ Xor(num, {n} \cup {m}) = (num \ {m}) \cup {n}
  BY Zenon DEF Xor
<1>. QED
  BY <1>1, <1>2, SMT DEF BitSwap64

\* So two time stamps have one uid if bits 2 and 3 are both 1 in one of them
\* and both 0 in the other.
THEOREM UidsCollide ==
    ASSUME NEW tsc, {2, 3} \subseteq tsc
    PROVE  GenUidNum(tsc) = GenUidNum(tsc \ {2, 3})
<1>1. BitSwap64(tsc, 2, 3) = tsc \ {2, 3}
  <2>1. 2 \in Bits /\ 3 \in Bits /\ 2 # 3
    BY SMT DEF Bits
  <2>. QED
    BY <2>1, EqualBitsCleared, Zenon
<1>2. BitSwap64(tsc \ {2, 3}, 2, 3) = tsc \ {2, 3}
  <2>1. ~MasksDiffer(tsc \ {2, 3}, 2, 3)
    BY DEF MasksDiffer
  <2>. QED
    BY <2>1, SMT DEF BitSwap64
<1>. QED
  BY <1>1, <1>2, Zenon DEF GenUidNum
=============================================================================
