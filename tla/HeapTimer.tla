------------------------------ MODULE HeapTimer ------------------------------
(***************************************************************************)
(* HeapTimer (src/common/frame/heap_timer.{h,cpp}): timers in a binary     *)
(* min-heap ordered by expire_time, an index array that finds a timer's    *)
(* heap position from its id and also threads the free indices, and a      *)
(* random tag per index, so that a timer id <<index, tag>> that is used    *)
(* after its timer is gone does not name the next timer of that index.     *)
(*                                                                         *)
(* GetRand repeats none of its numbers before it is through with its cycle *)
(* (RandIsInjective in FrameProofs), so the tags of a run are modelled as  *)
(* successive numbers.  A TimerNode is kept by value; its tag tells it     *)
(* from every other node.  heap has the cur_size entries in use only: the  *)
(* code never reads behind them, and the model could not.                  *)
(***************************************************************************)
EXTENDS Integers, Sequences

CONSTANTS InitSizes,       \* the heap_size arguments of the constructor
          Intervals,       \* the interval and delay arguments of RegisterTimer
          Delays,
          MaxTimers,       \* bound: calls of RegisterTimer in a behaviour
          MaxTime          \* bound: the clock, in seconds

ASSUME HeapTimerAssumption ==
    /\ InitSizes \subseteq Nat \ {0}
    /\ Intervals \subseteq Nat /\ Delays \subseteq Nat
    /\ MaxTimers \in Nat /\ MaxTime \in Nat

VARIABLES heap_size, cur_size, heap,
          timer_node_index_array, rand_array, free_timer_node_index,
          made,         \* the index of every id returned so far, by tag
          clock,        \* time(NULL)
          now,          \* the argument of the TimerPoll that runs, or NotPolling
          expire_node   \* the node whose callback runs, or NoNode

arrays == <<heap_size, cur_size, heap, timer_node_index_array, rand_array,
            free_timer_node_index>>
poll == <<now, expire_node>>
vars == <<heap_size, cur_size, heap, timer_node_index_array, rand_array,
          free_timer_node_index, made, clock, now, expire_node>>

NotPolling == -1
NoNode == [index |-> 0, tag |-> 0, expire |-> 0, interval |-> 0]

GetParentPos(p) == IF p = 0 THEN 0 ELSE (p - 1) \div 2
GetLeftChildPos(p) == 2 * p + 1

-----------------------------------------------------------------------------
(* Moving nodes.  A layout is a heap with the index array that goes with it. *)

Layout == [heap |-> heap, index |-> timer_node_index_array]

\* The node goes to position p, and its index says so.
Place(l, p, node) == [heap  |-> [i \in DOMAIN l.heap \cup {p} |->
                                    IF i = p THEN node ELSE l.heap[i]],
                      index |-> [l.index EXCEPT ![node.index] = p]]

\* Parents that expire later than the node move down, from pos towards the
\* root; the node takes the place of the last one.
RotateUp(l, node, pos) ==
    LET up[p \in 0..pos] ==
          LET parent == l.heap[GetParentPos(p)]
          IN  IF p > 0 /\ node.expire < parent.expire
              THEN Place(up[GetParentPos(p)], p, parent)
              ELSE Place(l, p, node)
    IN  up[pos]

\* The smaller child moves up, from pos towards the n leaves, as long as it
\* does not expire later than the node.
RotateDown(l, n, node, pos) ==
    LET Earlier(c) == IF c + 1 < n /\ l.heap[c].expire >= l.heap[c + 1].expire
                      THEN c + 1 ELSE c
        down[p \in 0..n] ==
          LET left  == GetLeftChildPos(p)
              child == Earlier(left)
          IN  IF left < n /\ node.expire >= l.heap[child].expire
              THEN Place(down[child], p, l.heap[child])
              ELSE Place(l, p, node)
    IN  down[pos]

\* The rotation of RemoveNode, on a heap of n nodes whose last one has been
\* taken to fill position pos.
Refill(l, n, node, pos) ==
    IF node.expire >= l.heap[GetParentPos(pos)].expire
    THEN RotateDown(l, n, node, pos)
    ELSE RotateUp(l, node, pos)

\* RemoveNode, with PushFreeTimerId: the index of the node at position pos is
\* free again, and the last node of the heap takes its place.
RemoveNode(pos) ==
    LET node  == heap[pos]
        n     == cur_size - 1
        index == [timer_node_index_array EXCEPT
                     ![node.index] = -free_timer_node_index]
        last  == heap[n]
        rest  == [heap |-> [i \in 0..n - 1 |-> heap[i]], index |-> index]
        after == IF pos < n
                 THEN Refill(Place(rest, pos, last), n, last, pos)
                 ELSE rest
    IN  /\ free_timer_node_index' = node.index
        /\ rand_array' = [rand_array EXCEPT ![node.index] = 0]
        /\ cur_size' = n
        /\ heap' = after.heap
        /\ timer_node_index_array' = after.index
        /\ UNCHANGED heap_size

-----------------------------------------------------------------------------
(* The calls. *)

\* The constructor; heap_size_ is one more than its argument.
Init == /\ \E size \in InitSizes : heap_size = size + 1
        /\ cur_size = 0
        /\ heap = [i \in 0..-1 |-> NoNode]
        /\ timer_node_index_array = [i \in 0..heap_size - 1 |-> -(i + 1)]
        /\ rand_array = [i \in 0..heap_size - 1 |-> 0]
        /\ free_timer_node_index = 1
        /\ made = <<>>
        /\ clock = 0
        /\ now = NotPolling /\ expire_node = NoNode

\* MUTANT: the heap grows when it is full.
MutGrownSizeLate == IF cur_size >= heap_size THEN 2 * heap_size ELSE heap_size

\* The array sizes after GrowHeap, which doubles them if two more nodes would
\* not fit.
GrownSize == IF cur_size + 2 >= heap_size THEN 2 * heap_size ELSE heap_size

\* An array over the grown size: the old entries, and those of fresh behind.
Grown(array, fresh) == [i \in 0..GrownSize - 1 |->
                           IF i < heap_size THEN array[i] ELSE fresh[i]]
FreeLinks == [i \in 0..GrownSize - 1 |-> -(i + 1)]
Zeros == [i \in 0..GrownSize - 1 |-> 0]

\* RegisterTimer: PopFreeTimerId, GrowHeap if needed, RotateUp.
RegisterTimer(interval, delay) ==
    /\ Len(made) < MaxTimers
    /\ interval # 0
    /\ cur_size < heap_size
    /\ LET index == free_timer_node_index
           tag   == Len(made) + 1
           node  == [index |-> index, tag |-> tag,
                     expire |-> clock + delay, interval |-> interval]
           grown == [heap  |-> heap,
                     index |-> Grown(timer_node_index_array, FreeLinks)]
           after == RotateUp(grown, node, cur_size)
       IN  /\ free_timer_node_index' = -timer_node_index_array[index]
           /\ rand_array' = [Grown(rand_array, Zeros) EXCEPT ![index] = tag]
           /\ heap_size' = GrownSize
           /\ heap' = after.heap
           /\ timer_node_index_array' = after.index
           /\ cur_size' = cur_size + 1
           /\ made' = Append(made, index)
    /\ UNCHANGED <<clock, poll>>

\* MUTANT: the tag of the id is not compared.
MutLookupNoTag(tag) ==
    IF timer_node_index_array[made[tag]] >= 0
    THEN timer_node_index_array[made[tag]] ELSE -1

\* Where UnregisterTimer finds the timer of an id, or -1: the index may be
\* free, or belong to a later timer with another tag.
Lookup(tag) ==
    LET index == made[tag]
    IN  IF timer_node_index_array[index] >= 0 /\ rand_array[index] = tag
        THEN timer_node_index_array[index] ELSE -1

\* UnregisterTimer, called with any id that was ever returned, from a
\* callback or from outside of TimerPoll.
UnregisterTimer(tag) ==
    /\ Lookup(tag) >= 0
    /\ RemoveNode(Lookup(tag))
    /\ UNCHANGED <<made, clock, now, expire_node>>

\* TimerPoll is called with the time, and there are timers.
TimerPoll == /\ now = NotPolling
             /\ cur_size > 0
             /\ now' = clock
             /\ UNCHANGED <<arrays, made, clock, expire_node>>

\* MUTANTS: the time is not compared; or with > where >= is meant.
MutExecuteEarly == /\ now # NotPolling /\ expire_node = NoNode /\ cur_size > 0
                   /\ expire_node' = heap[0]
                   /\ UNCHANGED <<arrays, made, clock, now>>
MutExecuteStrict == cur_size > 0 /\ now > heap[0].expire /\ MutExecuteEarly

\* One turn of its loop up to the callback...
Execute == /\ now # NotPolling /\ expire_node = NoNode
           /\ cur_size > 0
           /\ now >= heap[0].expire
           /\ expire_node' = heap[0]
           /\ UNCHANGED <<arrays, made, clock, now>>

\* The callback did not unregister its own timer.
StillArmed == \E p \in 0..cur_size - 1 : heap[p].tag = expire_node.tag

\* MUTANT: the node stays where it is.
MutReturnKeepOnTop ==
    /\ expire_node # NoNode
    /\ StillArmed
    /\ LET node  == [expire_node EXCEPT !.expire = now + expire_node.interval]
           after == Place(Layout, 0, node)
       IN  /\ heap' = after.heap
           /\ timer_node_index_array' = after.index
    /\ expire_node' = NoNode
    /\ UNCHANGED <<heap_size, cur_size, rand_array, free_timer_node_index,
                   made, clock, now>>

\* ... the callback returns 0: the node, which it still has, goes down from
\* the top of the heap ...  (No callback returns 0 when it has unregistered its
\* timer: the code would put the deleted node back.)
ReturnKeep ==
    /\ expire_node # NoNode
    /\ StillArmed
    /\ LET node  == [expire_node EXCEPT !.expire = now + expire_node.interval]
           after == RotateDown(Layout, cur_size, node, 0)
       IN  /\ heap' = after.heap
           /\ timer_node_index_array' = after.index
    /\ expire_node' = NoNode
    /\ UNCHANGED <<heap_size, cur_size, rand_array, free_timer_node_index,
                   made, clock, now>>

\* ... or it returns -1: the node on top of the heap goes, whichever it is.
\* (The delete of expire_node that follows has no effect on the arrays.)
ReturnStop ==
    /\ expire_node # NoNode
    /\ IF cur_size = 0 THEN UNCHANGED arrays ELSE RemoveNode(0)
    /\ expire_node' = NoNode
    /\ UNCHANGED <<made, clock, now>>

\* The loop ends when nothing is due any more.
EndPoll == /\ now # NotPolling /\ expire_node = NoNode
           /\ cur_size > 0 => now < heap[0].expire
           /\ now' = NotPolling
           /\ UNCHANGED <<arrays, made, clock, expire_node>>

Tick == /\ clock < MaxTime
        /\ clock' = clock + 1
        /\ UNCHANGED <<arrays, made, poll>>

Next == \/ \E interval \in Intervals, delay \in Delays : RegisterTimer(interval, delay)
        \/ \E tag \in DOMAIN made : UnregisterTimer(tag)
        \/ TimerPoll \/ Execute \/ ReturnKeep \/ ReturnStop \/ EndPoll
        \/ Tick

Spec == Init /\ [][Next]_vars

\* The program polls for as long as it runs, callbacks return, time passes.
Fairness == /\ WF_vars(TimerPoll) /\ WF_vars(Execute)
            /\ WF_vars(ReturnKeep \/ ReturnStop)
            /\ WF_vars(EndPoll) /\ WF_vars(Tick)

FairSpec == Spec /\ Fairness

-----------------------------------------------------------------------------
(* Properties *)

Positions == 0..cur_size - 1
Indices == 1..heap_size - 1
\* The rotations keep the heap in order: FirstTimeout and TimerPoll may look
\* at heap_[0] only.
HeapOrdered == \A p \in Positions : heap[GetParentPos(p)].expire <= heap[p].expire

\* Through every rotation, growth and removal, the index array leads from an
\* id to its timer: it is found as long as it is in the heap, and an id whose
\* index another timer uses by now finds nothing.
LookupExact ==
    \A tag \in DOMAIN made :
        IF \E p \in Positions : heap[p].tag = tag
        THEN Lookup(tag) \in Positions /\ heap[Lookup(tag)].tag = tag
        ELSE Lookup(tag) = -1

\* The free indices are linked without a cycle, none is in use, and all of
\* those that are not in use are linked; the list is never empty, so that
\* PopFreeTimerId, which runs before GrowHeap, stays inside its array.
FreeIndicesExact ==
    LET link[k \in 0..heap_size] ==
            IF k = 0 THEN free_timer_node_index
            ELSE IF link[k - 1] \in Indices THEN -timer_node_index_array[link[k - 1]]
            ELSE link[k - 1]
    IN  /\ free_timer_node_index \in Indices
        /\ {link[k] : k \in 0..heap_size} =
               {heap_size} \cup (Indices \ {heap[p].index : p \in Positions})

\* HeapTimer implements TimerSet.
Strip(node) == [tag |-> node.tag, expire |-> node.expire, interval |-> node.interval]
Stripped == {Strip(heap[p]) : p \in Positions}
Timers == INSTANCE TimerSet WITH armed <- Stripped, count <- Len(made),
                                 firing <- Strip(expire_node)
ImplementsTimerSet == Timers!Spec

Armed == {heap[p].tag : p \in Positions}

\* A callback has unregistered its own timer, and another one is on top of the
\* heap: if the callback returns -1, ReturnStop takes that one.
InDanger(tag) == /\ expire_node # NoNode /\ ~StillArmed
                 /\ cur_size > 0 /\ heap[0].tag = tag

\* A timer that is armed to expire within the bound of the clock is called in
\* the end, or unregistered, whatever other timers do, unless it gets into the
\* place of one whose callback has unregistered it.
Due(tag) == \E p \in Positions : heap[p].tag = tag /\ heap[p].expire <= MaxTime
EveryTimerServed ==
    \A tag \in 1..MaxTimers :
        []~InDanger(tag) => (Due(tag) ~> expire_node.tag = tag \/ tag \notin Armed)
=============================================================================
