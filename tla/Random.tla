-------------------------------- MODULE Random --------------------------------
(***************************************************************************)
(* Random (src/common/frame/random.cpp): X(i+1) = A * X(i) mod M, computed  *)
(* in 32 bits by Schrage's method.  HeapTimer draws the tags of its ids     *)
(* from it.                                                                *)
(***************************************************************************)
EXTENDS Integers

A == 48271
M == 2147483647   \* the largest int32_t as well
Q == M \div A
R == M % A

Seeds == 1..M - 1

\* The two products, and the sum before it is made positive.
Up(seed) == A * (seed % Q)
Down(seed) == R * (seed \div Q)
TempSeed(seed) == Up(seed) - Down(seed)

GetRand(seed) == IF TempSeed(seed) >= 0 THEN TempSeed(seed) ELSE TempSeed(seed) + M

-----------------------------------------------------------------------------
(* Properties *)

Int32(n) == n \in -M - 1..M

\* No intermediate result of GetRand leaves the 32 bits it has.
NeverOverflows(seed) == /\ Int32(Up(seed)) /\ Int32(Down(seed))
                        /\ Int32(TempSeed(seed)) /\ Int32(GetRand(seed))
=============================================================================
