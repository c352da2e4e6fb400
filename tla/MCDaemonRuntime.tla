-------------------------- MODULE MCDaemonRuntime ---------------------------
(* Instances of DaemonRuntime for TLC.  The configurations choose one.      *)
EXTENDS DaemonRuntime, TLC

CONSTANTS short, long, unknown, MaxPeerSlot, MaxPeerNow

TwoRules == {short, long}
TwoIntervals == (short :> 1) @@ (long :> 2)
TwoNames == TwoRules \cup {unknown}

\* The long break outlasts the short one and locks the session.
TwoDurations == (short :> 1) @@ (long :> 2)
TwoAutolocks == (short :> FALSE) @@ (long :> TRUE)

OneRule == {short}
OneInterval == short :> 1
OneDuration == short :> 2
OneAutolock == short :> FALSE

\* What a peer with the same schedule may send, up to MaxPeerSlot: a position
\* with no rule overdue, a break that the position says is satisfied.
PeerPositions ==
    {p \in [slot : 0..MaxPeerSlot, elapsed : 0..(AfterActive - 1),
            lss : [Rules -> 0..MaxPeerSlot]] :
        WireValid(p) /\ \A r \in Rules : p.slot - p.lss[r] < Interval[r]}
PeerStarts(p, locks) ==
    {b \in [name : Rules, origin : {Manual} \cup {Scheduled(n) : n \in 1..p.slot},
            at : 0..MaxPeerNow, lock : locks] : p.lss[b.name] >= b.origin.slot}

StartEvents ==
    UNION {{[kind |-> "BreakStarted", start |-> b, position |-> p] :
                b \in {b \in PeerStarts(p, {{}}) :
                         p.lss[b.name] = p.slot /\ b.origin.slot \in {0, p.slot}}} :
           p \in {p \in PeerPositions : p.elapsed = 0}}
PositionEvents ==
    {[kind |-> "SchedulerState", position |-> p, active |-> {}] : p \in PeerPositions}
StateEvents ==
    PositionEvents
    \cup UNION {{[kind |-> "SchedulerState", position |-> p, active |-> {b}] :
                    b \in PeerStarts(p, {{TRUE}, {FALSE}})} :
                p \in {p \in PeerPositions : p.elapsed = 0}}
OtherEvents ==
    {[kind |-> "ActiveTimeElapsed", elapsed |-> e] : e \in ActiveTimes}
    \cup {[kind |-> "DisableFor", duration |-> t] : t \in DisableTimes}
    \cup [kind : {"SchedulerReset", "DisableUntilRestart", "Enable", "LockAfterCurrentBreak"}]

DisablingEvents ==
    {e \in OtherEvents : e.kind \in {"DisableFor", "DisableUntilRestart", "Enable"}}

AllPeerEvents == StartEvents \cup StateEvents \cup OtherEvents
=============================================================================
