----------------------------- MODULE MCSyncPeers ----------------------------
EXTENDS SyncPeers, TLC

CONSTANTS short, long

TwoRules == {short, long}
TwoIntervals == short :> 1 @@ long :> 2
\* No rule is due at slot 1.
SparseIntervals == short :> 2 @@ long :> 3
\* Longer than the lag.
TwoDurations == short :> 2 @@ long :> 3
TwoAutolocks == short :> FALSE @@ long :> FALSE
AfterOne == {1}
=============================================================================
