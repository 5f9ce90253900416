------------------------------ MODULE TimerSet ------------------------------
(***************************************************************************)
(* What a timer heap promises: a set of armed timers.  A poll runs the     *)
(* callbacks of the timers that are due at its time, the earliest first,   *)
(* none before its time and none left when it ends; a callback's timer is  *)
(* armed again or goes; every other timer stays until it is unregistered,   *)
(* or goes in place of one that its own callback has unregistered.         *)
(***************************************************************************)
EXTENDS Integers

CONSTANTS Intervals, Delays

VARIABLES armed,  \* the timers: records [tag, expire, interval]
          count,  \* the number of timers registered so far
          clock,
          now,    \* the time of the running poll, or NotPolling
          firing  \* the timer whose callback runs, or NoTimer

vars == <<armed, count, clock, now, firing>>

NotPolling == -1
NoTimer == [tag |-> 0, expire |-> 0, interval |-> 0]

Init == armed = {} /\ count = 0 /\ clock = 0 /\ now = NotPolling /\ firing = NoTimer

Register(interval, delay) ==
    /\ interval # 0
    /\ count' = count + 1
    /\ armed' = armed \cup {[tag |-> count + 1, expire |-> clock + delay,
                             interval |-> interval]}
    /\ UNCHANGED <<clock, now, firing>>

Unregister(t) == /\ t \in armed
                 /\ armed' = armed \ {t}
                 /\ UNCHANGED <<count, clock, now, firing>>

Begin == /\ now = NotPolling /\ armed # {}
         /\ now' = clock
         /\ UNCHANGED <<armed, count, clock, firing>>

Fire(t) == /\ now # NotPolling /\ firing = NoTimer
           /\ t \in armed
           /\ t.expire <= now
           /\ \A u \in armed : t.expire <= u.expire
           /\ firing' = t
           /\ UNCHANGED <<armed, count, clock, now>>

Keep == /\ firing \in armed
        /\ armed' = (armed \ {firing})
                        \cup {[firing EXCEPT !.expire = now + firing.interval]}
        /\ firing' = NoTimer
        /\ UNCHANGED <<count, clock, now>>

\* A timer that its own callback has unregistered costs the earliest of the
\* others its place.
Earliest == {t \in armed : \A u \in armed : t.expire <= u.expire}
Stop == /\ firing # NoTimer
        /\ IF firing \in armed THEN armed' = armed \ {firing}
           ELSE \/ armed = {} /\ armed' = {}
                \/ \E t \in Earliest : armed' = armed \ {t}
        /\ firing' = NoTimer
        /\ UNCHANGED <<count, clock, now>>

End == /\ now # NotPolling /\ firing = NoTimer
       /\ \A t \in armed : t.expire > now
       /\ now' = NotPolling
       /\ UNCHANGED <<armed, count, clock, firing>>

Tick == clock' = clock + 1 /\ UNCHANGED <<armed, count, now, firing>>

Next == \/ \E interval \in Intervals, delay \in Delays : Register(interval, delay)
        \/ \E t \in armed : Unregister(t) \/ Fire(t)
        \/ Begin \/ Keep \/ Stop \/ End \/ Tick

Spec == Init /\ [][Next]_vars
=============================================================================
