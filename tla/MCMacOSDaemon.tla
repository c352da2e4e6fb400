--------------------------- MODULE MCMacOSDaemon ----------------------------
(* An instance of MacOSDaemon for TLC: one break type, due at every slot.   *)
EXTENDS MacOSDaemon, TLC

CONSTANT short

OneRule == {short}
OneInterval == short :> 1
OneDuration == short :> 1
OneAutolock == short :> FALSE
=============================================================================
