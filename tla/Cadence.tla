------------------------------ MODULE Cadence -------------------------------
(***************************************************************************)
(* What the break scheduler promises of a schedule, without slot numbers,  *)
(* active time or modes: every break type has an age, the number of slots  *)
(* since it was last satisfied, and no age reaches its interval without a  *)
(* break taking it back to zero.  BreakScheduler implements this.          *)
(***************************************************************************)
EXTENDS Integers

CONSTANTS Rules, Interval

VARIABLE age

Init == age = [r \in Rules |-> 0]

\* Some slots pass and nothing falls due.
PassSlots(n) ==
    /\ \A r \in Rules : age[r] + n < Interval[r]
    /\ age' = [r \in Rules |-> age[r] + n]

\* Some slots pass, and at the last of them, not before, something falls due:
\* one break satisfies every rule due at it.
TakeBreak(n) ==
    /\ \A r \in Rules : age[r] + n <= Interval[r]
    /\ \E r \in Rules : age[r] + n = Interval[r]
    /\ age' = [r \in Rules |-> IF age[r] + n = Interval[r] THEN 0 ELSE age[r] + n]

\* A break taken by hand satisfies its own rule and the more frequent ones.
TakeByHand(m) ==
    age' = [r \in Rules |-> IF Interval[r] <= Interval[m] THEN 0 ELSE age[r]]

StartOver == age' = [r \in Rules |-> 0]

Next ==
    \/ \E r \in Rules : \E n \in 1..Interval[r] : PassSlots(n) \/ TakeBreak(n)
    \/ \E m \in Rules : TakeByHand(m)
    \/ StartOver

Spec == Init /\ [][Next]_age

\* Every rule gets its break in time.
InTime == \A r \in Rules : age[r] \in 0..(Interval[r] - 1)
=============================================================================
