---------------------------- MODULE MCX11Daemon -----------------------------
(* An instance of X11Daemon for TLC: one break type, due at every slot, and *)
(* peers, one of a lower and one of a higher id.                            *)
EXTENDS X11Daemon, TLC

CONSTANT short

OneRule == {short}
OneInterval == short :> 1
OneDuration == short :> 1
OneAutolock == short :> FALSE

\* A peer starts a break by hand or at slot 1, before or after this daemon has come
\* there; or it tells of one, of now or of a tick ago, when it connects.
At(n) == [slot |-> n, elapsed |-> 0, lss |-> [r \in Rules |-> n]]
Origin(n) == IF n = 0 THEN Manual ELSE Scheduled(n)
PeerStarts ==
    {[kind |-> "BreakStarted", position |-> At(n),
      start |-> BreakStart(short, Origin(n), Present, {})] : n \in 0..1}
PeerStates ==
    {[kind |-> "SchedulerState", position |-> At(1),
      active |-> {BreakStart(short, Origin(1), t, {b})}] :
        t \in (Present - 1)..Present, b \in BOOLEAN}
PeerLocks == {[kind |-> "LockAfterCurrentBreak"]}
AllPeerEvents == PeerStarts \cup PeerStates \cup PeerLocks

\* The start of the break of slot 2, for a counterexample.
LaterStart ==
    {[kind |-> "BreakStarted", position |-> At(2),
      start |-> BreakStart(short, Scheduled(2), Present, {})]}
=============================================================================
