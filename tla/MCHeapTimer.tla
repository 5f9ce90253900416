----------------------------- MODULE MCHeapTimer -----------------------------
EXTENDS HeapTimer, MCArithmetic

\* From one slot the arrays grow twice on the way to five timers.
MCIntervals == {1}
MCDelays == {0, 1}
MCInitSizes == {1}

\* The last node of a heap must go up only if it comes from another branch,
\* which takes six timers: Refill by itself, on all ordered heaps of up to
\* seven nodes with three times, leaves an ordered heap of the other nodes, and
\* an index that leads to them.
MCNode(p, time) == [index |-> p + 1, tag |-> p + 1, expire |-> time, interval |-> 1]
MCOrdered(h) == \A p \in DOMAIN h : h[GetParentPos(p)].expire <= h[p].expire
MCHeaps(n) == {h \in {[p \in 0..n |-> MCNode(p, t[p])] : t \in [0..n -> 0..2]} :
                  MCOrdered(h)}
MCRefilled(h, n, pos) ==
    LET rest == [heap  |-> [p \in 0..n - 1 |-> h[p]],
                 index |-> [i \in 1..n + 1 |-> i - 1]]
    IN  Refill(Place(rest, pos, h[n]), n, h[n], pos)
ASSUME RefillCorrect ==
    \A n \in 1..6 : \A h \in MCHeaps(n), pos \in 0..n - 1 :
        LET after == MCRefilled(h, n, pos)
        IN  /\ DOMAIN after.heap = 0..n - 1
            /\ MCOrdered(after.heap)
            /\ {after.heap[p] : p \in 0..n - 1} = {h[p] : p \in 0..n} \ {h[pos]}
            /\ \A p \in 0..n - 1 : after.index[after.heap[p].index] = p
=============================================================================
