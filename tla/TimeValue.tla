------------------------------ MODULE TimeValue ------------------------------
(***************************************************************************)
(* TimeValue (src/common/frame/time_value.{h,cpp}): a time in seconds and   *)
(* microseconds.  HeapTimer adds and compares them.                         *)
(***************************************************************************)
EXTENDS Integers

CONSTANT ONE_SECOND_IN_USECS

ASSUME SecondAssumption == ONE_SECOND_IN_USECS \in Nat \ {0}

Time(s, u) == [sec |-> s, usec |-> u]
Times == [sec : Int, usec : Int]
Normal == [sec : Int, usec : 0..ONE_SECOND_IN_USECS - 1]

\* The CHECK of Normalize.  It multiplies the microseconds where it means the
\* seconds: every negative usec aborts, whatever the seconds are.
NormalizeAborts(tv) == tv.usec * ONE_SECOND_IN_USECS + tv.usec < 0

Normalize(tv) ==
    LET carry == tv.usec \div ONE_SECOND_IN_USECS
        lend  == (-tv.usec) \div ONE_SECOND_IN_USECS
        once  == IF tv.usec >= ONE_SECOND_IN_USECS
                 THEN Time(tv.sec + carry, tv.usec % ONE_SECOND_IN_USECS)
                 ELSE IF tv.usec <= -ONE_SECOND_IN_USECS
                 THEN Time(tv.sec - lend, -((-tv.usec) % ONE_SECOND_IN_USECS))
                 ELSE tv
    IN  IF once.usec < 0
        THEN Time(once.sec - 1, once.usec + ONE_SECOND_IN_USECS)
        ELSE once

\* operator +=, operator -= and HeapTimer::ExpireTime, before Normalize.
Sum(a, b) == Time(a.sec + b.sec, a.usec + b.usec)
Difference(a, b) == Time(a.sec - b.sec, a.usec - b.usec)

Plus(a, b) == Normalize(Sum(a, b))

\* operator >, and HeapTimer::TimervalGte.
After(a, b) == IF a.sec = b.sec THEN a.usec > b.usec ELSE a.sec > b.sec
TimervalGte(a, b) == After(a, b) \/ (a.sec = b.sec /\ a.usec = b.usec)

-----------------------------------------------------------------------------
(* Properties *)

Usecs(tv) == tv.sec * ONE_SECOND_IN_USECS + tv.usec
=============================================================================
