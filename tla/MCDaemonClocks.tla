---------------------------- MODULE MCDaemonClocks --------------------------
(* An instance of DaemonClocks for TLC: one break type, due at every slot.  *)
EXTENDS DaemonClocks, TLC

CONSTANT short

OneRule == {short}
OneInterval == short :> 1
OneDuration == short :> 3
OneAutolock == short :> FALSE

JumpsBothWays == {-2, 2}
NoJumps == {}
=============================================================================
