------------------------------ MODULE UnitPool ------------------------------
(***************************************************************************)
(* What a shared-memory object pool promises to the modules that use it    *)
(* (ObjMgrModule for players and cities, ConnMgrModule for connections):   *)
(* a set of units, of which some are used.  Alloc hands out a unit that is *)
(* not used, and fails only when all are; Release gives one back; what is  *)
(* used survives the end of the process and is found again by the next     *)
(* one, until the segment is removed.  Nothing is said of free lists.      *)
(***************************************************************************)
EXTENDS Integers

CONSTANT UnitCounts   \* the values unit_count may have in the configuration

VARIABLES total,   \* number of units of the segment
          used,    \* the units in use
          exists,  \* is there a segment?
          up,      \* is a process attached to it?
          ret      \* result of the last call: a unit, or NULL (0), or an error

vars == <<total, used, exists, up, ret>>

NULL == 0
Units == 1..total

Init == total = 0 /\ used = {} /\ exists = FALSE /\ up = FALSE /\ ret = NULL

Create(c) == /\ ~up /\ ~exists
             /\ exists' = TRUE /\ up' = TRUE
             /\ total' = c /\ used' = {} /\ ret' = NULL

Attach == /\ ~up /\ exists
          /\ up' = TRUE /\ ret' = NULL
          /\ UNCHANGED <<total, used, exists>>

Refuse == /\ ~up /\ exists
          /\ ret' = -2
          /\ UNCHANGED <<total, used, exists, up>>

Take == /\ up
        /\ \E u \in Units \ used : used' = used \cup {u} /\ ret' = u
        /\ UNCHANGED <<total, exists, up>>

Full == /\ up
        /\ used = Units
        /\ ret' = NULL
        /\ UNCHANGED <<total, used, exists, up>>

GiveBack(u) == /\ up
               /\ u \in used
               /\ used' = used \ {u}
               /\ ret' = NULL
               /\ UNCHANGED <<total, exists, up>>

Detach == /\ up
          /\ up' = FALSE /\ ret' = NULL
          /\ UNCHANGED <<total, used, exists>>

Remove == /\ ~up /\ exists
          /\ exists' = FALSE /\ total' = 0 /\ used' = {} /\ ret' = NULL
          /\ UNCHANGED up

Next == \/ \E c \in UnitCounts : Create(c)
        \/ Attach \/ Refuse
        \/ Take \/ Full
        \/ \E u \in used : GiveBack(u)
        \/ Detach \/ Remove

Spec == Init /\ [][Next]_vars
=============================================================================
