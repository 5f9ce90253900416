----------------------------- MODULE MCArithmetic -----------------------------
(* The arithmetic of common/frame against its definitions, on small ranges.   *)
EXTENDS Random, TimeValue, Utils

\* Seeds around the places where the parts of GetRand change.  TLC's integers
\* have 32 bits too, and say so when they overflow.
RandSeeds == 1..2000 \cup (Q - 2)..(Q + 2) \cup (M - 1000)..(M - 1)
ASSUME RandFits == \A s \in RandSeeds : NeverOverflows(s) /\ GetRand(s) \in Seeds

\* The seeds whose product with A has 32 bits.
ASSUME RandAgrees == \A s \in 1..Q : GetRand(s) = (A * s) % M

\* Two carries and two borrows, for a second of ten microseconds.
SmallTimes == {Time(s, u) : s \in 0..2, u \in -25..25}
ASSUME NormalizeAgrees ==
    \A tv \in SmallTimes :
        /\ Usecs(Normalize(tv)) = Usecs(tv)
        /\ Normalize(tv).usec \in 0..ONE_SECOND_IN_USECS - 1
        /\ NormalizeAborts(tv) <=> tv.usec < 0

\* What BitSwap64 does: it swaps two bits, unless both are 1.
Swapped(num, m, n) ==
    {k \in Bits : IF k = m THEN n \in num ELSE IF k = n THEN m \in num ELSE k \in num}
ASSUME SwapAgrees ==
    \A num \in SUBSET {0, 2, 3, 63}, m, n \in {0, 2, 3, 63} :
        BitSwap64(num, m, n) = IF m # n /\ {m, n} \subseteq num
                               THEN num \ {m, n} ELSE Swapped(num, m, n)
=============================================================================
