------------------------------- MODULE ShmPool -------------------------------
(***************************************************************************)
(* ShmPool<T> (src/common/frame/shm_pool.h): a pool of unit_count units in *)
(* a System V shared memory segment, with a free list threaded through the *)
(* units' pos fields.  pos[i] = i marks unit i as used, pos[i] = -n links  *)
(* it to the next free unit n; slot 0 exists and is never handed out.  The *)
(* segment outlives the process: a restarted process that finds it keeps   *)
(* its contents, provided the configured unit_count is still the same.     *)
(*                                                                         *)
(* Each call is one action: a pool belongs to one single-threaded process. *)
(* The memory of the units is left out.                                    *)
(***************************************************************************)
EXTENDS Integers, FiniteSets

CONSTANT UnitCounts   \* the values unit_count may have in the configuration

ASSUME UnitCountsAssumption == UnitCounts \subseteq Nat

VARIABLES exists,            \* does the segment exist?
          total_unit_count,  \* the fields of PoolCtrl, in the segment
          free_mem_pos,
          valid_unit_count,
          pos,               \* the pos field of each unit, in the segment
          up,                \* is a process attached (pool_ctrl_ usable)?
          held,              \* the units the users of the pool own
          ret                \* what the last call returned: a unit, NULL, or -2

segment == <<exists, total_unit_count, free_mem_pos, valid_unit_count, pos>>
vars == <<exists, total_unit_count, free_mem_pos, valid_unit_count, pos,
          up, held, ret>>

NULL == 0
Units == 1..total_unit_count

\* The free list of a new segment: every slot points to the next one.
NewList(c) == [i \in 0..c |-> -(i + 1)]

Init == /\ exists = FALSE
        /\ total_unit_count = 0 /\ free_mem_pos = 1 /\ valid_unit_count = 0
        /\ pos = NewList(0)
        /\ up = FALSE /\ held = {} /\ ret = NULL

-----------------------------------------------------------------------------
(* Init(unit_count, shm_key), called when the process starts. *)

\* shmget created the segment (first_time = 1).
InitFresh(c) == /\ ~up /\ ~exists
                /\ exists' = TRUE /\ up' = TRUE
                /\ free_mem_pos' = 1
                /\ valid_unit_count' = c
                /\ total_unit_count' = c
                /\ pos' = NewList(c)
                /\ held' = {} /\ ret' = NULL

\* MUTANT: first_time is not looked at, the list is built anew.
MutAttachRebuilds(c) == /\ ~up /\ exists /\ total_unit_count = c
                        /\ up' = TRUE /\ ret' = NULL
                        /\ free_mem_pos' = 1 /\ valid_unit_count' = c
                        /\ pos' = NewList(c)
                        /\ UNCHANGED <<exists, total_unit_count, held>>

\* The segment was there, and was built with the same unit_count.
InitAttach(c) == /\ ~up /\ exists
                 /\ total_unit_count = c
                 /\ up' = TRUE /\ ret' = NULL
                 /\ UNCHANGED <<segment, held>>

\* The segment was built with another unit_count: -2, and the caller aborts.
InitMismatch(c) == /\ ~up /\ exists
                   /\ total_unit_count # c
                   /\ ret' = -2
                   /\ UNCHANGED <<segment, held, up>>

-----------------------------------------------------------------------------
(* Calls of the running process. *)

\* MUTANT: the unit is not marked as used.
MutPopNoMark == free_mem_pos' = -pos[free_mem_pos] /\ UNCHANGED pos

PopFreePos == /\ free_mem_pos' = -pos[free_mem_pos]
              /\ pos' = [pos EXCEPT ![free_mem_pos] = free_mem_pos]

\* MUTANT: the two assignments in the other order.
MutPushSwapped(free_pos) == /\ free_mem_pos' = free_pos
                            /\ pos' = [pos EXCEPT ![free_pos] = -free_pos]

PushFreePos(free_pos) == /\ pos' = [pos EXCEPT ![free_pos] = -free_mem_pos]
                         /\ free_mem_pos' = free_pos

Alloc == /\ up
         /\ valid_unit_count > 0
         /\ PopFreePos
         /\ valid_unit_count' = valid_unit_count - 1
         /\ ret' = free_mem_pos
         /\ held' = held \cup {free_mem_pos}
         /\ UNCHANGED <<exists, total_unit_count, up>>

AllocFull == /\ up
             /\ valid_unit_count = 0
             /\ ret' = NULL
             /\ UNCHANGED <<segment, held, up>>

\* The two CHECKs at the head of Release: the process aborts if one fails.
ReleaseChecks(i) == total_unit_count > valid_unit_count /\ pos[i] > 0

\* The user of unit i gives it back; the code trusts pos[i] to be i.
Release(i) == /\ up
              /\ i \in held
              /\ ReleaseChecks(i)
              /\ PushFreePos(pos[i])
              /\ valid_unit_count' = valid_unit_count + 1
              /\ held' = held \ {i}
              /\ ret' = NULL
              /\ UNCHANGED <<exists, total_unit_count, up>>

\* MUTANT: the last unit is taken to be out of range.
MutFindRange(i) == IF i > 0 /\ i < total_unit_count /\ pos[i] = i THEN i ELSE NULL

\* Find(index) and the units TravelPool calls the restore function for.
Find(i) == IF i > 0 /\ i <= total_unit_count /\ pos[i] = i THEN i ELSE NULL
Travelled == {i \in Units : pos[i] > 0}

-----------------------------------------------------------------------------
(* The life of the process and of the segment. *)

\* The process ends, cleanly or not, between two calls.
Stop == /\ up
        /\ up' = FALSE /\ ret' = NULL
        /\ UNCHANGED <<segment, held>>

\* ipcrm: stop.sh of gamesvr, ModuleInit of connsvr's ConnMgrModule.
Wipe == /\ ~up /\ exists
        /\ exists' = FALSE
        /\ total_unit_count' = 0 /\ free_mem_pos' = 1 /\ valid_unit_count' = 0
        /\ pos' = NewList(0)
        /\ held' = {} /\ ret' = NULL
        /\ UNCHANGED up

Next == \/ \E c \in UnitCounts : InitFresh(c) \/ InitAttach(c) \/ InitMismatch(c)
        \/ Alloc \/ AllocFull
        \/ \E i \in Units : Release(i)
        \/ Stop \/ Wipe

Spec == Init /\ [][Next]_vars

-----------------------------------------------------------------------------
(* Properties *)

TypeOK == /\ exists \in BOOLEAN /\ up \in BOOLEAN
          /\ total_unit_count \in Nat
          /\ valid_unit_count \in 0..total_unit_count
          /\ free_mem_pos \in 1..total_unit_count + 1
          /\ pos \in [0..total_unit_count -> Int]
          /\ held \subseteq Units
          /\ ret \in {-2} \cup 0..total_unit_count

\* f lists, in the order Alloc will hand them out, the slots of the free list
\* and, last, the slot behind the last unit that every chain ends with.
IsFreeChain(f) ==
    /\ f[0] = free_mem_pos
    /\ f[valid_unit_count] = total_unit_count + 1
    /\ \A k, l \in 0..valid_unit_count : f[k] = f[l] => k = l
    /\ \A k \in 0..valid_unit_count - 1 : pos[f[k]] = -f[k + 1]
    /\ \A k \in 0..valid_unit_count - 1 : f[k] \in Units \ held
    /\ \A u \in Units \ held : \E k \in 0..valid_unit_count - 1 : f[k] = u

\* PopFreePos and PushFreePos keep one list that runs through exactly the
\* units nobody owns, without a cycle and valid_unit_count long; no unit is
\* lost and none is on the list twice.
FreeListExact ==
    \E f \in [0..valid_unit_count -> 1..total_unit_count + 1] : IsFreeChain(f)

UsedMarked == \A i \in held : pos[i] = i

\* valid_unit_count counts the units nobody owns.
CountExact == valid_unit_count + Cardinality(held) = total_unit_count

PoolInv == TypeOK /\ FreeListExact /\ UsedMarked /\ CountExact

\* Find returns a unit exactly when somebody owns it, whatever index it is
\* asked for, and TravelPool, with which a restarted process restores its
\* objects, visits exactly the units that were owned when the last one ended.
FindExact == /\ \A i \in -1..total_unit_count + 1 :
                    Find(i) = IF i \in held THEN i ELSE NULL
             /\ Travelled = held

\* The CHECKs of Release hold for every unit somebody owns: giving a unit
\* back, in any order and after any restart, never aborts the process.
ReleaseNeverAborts == \A i \in held : ReleaseChecks(i)

\* ShmPool implements the pool its users assume: in particular Alloc never
\* hands out a unit that is owned already, and fails only when all are.
Pool == INSTANCE UnitPool WITH total <- total_unit_count, used <- held
ImplementsPool == Pool!Spec
=============================================================================
