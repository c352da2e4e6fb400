-------------------------- MODULE MCBreakScheduler --------------------------
(* Instances of BreakScheduler for TLC.  The configurations choose one.     *)
EXTENDS BreakScheduler, TLC

CONSTANTS short, long, huge, unknown, MaxPeerSlot

\* A schedule with slots at which nothing is due: 2 and 3 share no divisor, and
\* 5 supersedes both.
ThreeRules == {short, long, huge}
ThreeIntervals == (short :> 2) @@ (long :> 3) @@ (huge :> 5)
ThreeNames == ThreeRules \cup {unknown}

TwoRules == {short, long}
TwoIntervals == (short :> 2) @@ (long :> 3)
TwoNames == TwoRules \cup {unknown}

\* Every position and origin the wire accepts up to MaxPeerSlot.
WirePositions ==
    {p \in [slot : 0..MaxPeerSlot, elapsed : 0..(AfterActive - 1),
            lss : [Rules -> 0..MaxPeerSlot]] :
        WireValid(p)}
WireOrigins == {Manual} \cup {Scheduled(n) : n \in 0..MaxPeerSlot}
=============================================================================
