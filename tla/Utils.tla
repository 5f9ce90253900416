-------------------------------- MODULE Utils --------------------------------
(***************************************************************************)
(* Utils (src/common/frame/utils.{h,cpp}): how the uid of a quick           *)
(* registration is made from the time stamp counter.  A 64-bit number is    *)
(* the set of its bits that are 1.                                          *)
(***************************************************************************)
EXTENDS Integers

Bits == 0..63

Xor(a, b) == (a \ b) \cup (b \ a)

\* The masked numbers are compared, not the bits: they are equal only when
\* both bits are 0, so that two bits that are both 1 count as different.
MasksDiffer(num, m, n) == num \cap {m} # num \cap {n}

BitSwap64(num, m, n) == IF m \in Bits /\ n \in Bits /\ MasksDiffer(num, m, n)
                        THEN Xor(num, {m} \cup {n})
                        ELSE num

\* GenUidNum, for what Rdtsc returned.
GenUidNum(tsc) ==
    LET a == BitSwap64(tsc, 2, 3)
        b == BitSwap64(a, 5, 7)
        c == BitSwap64(b, 11, 13)
        d == BitSwap64(c, 17, 19)
        e == BitSwap64(d, 23, 29)
        f == BitSwap64(e, 31, 37)
        g == BitSwap64(f, 41, 43)
        h == BitSwap64(g, 47, 53)
    IN  BitSwap64(h, 59, 61)
=============================================================================
