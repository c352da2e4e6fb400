--------------------------- MODULE MCSyncTransport --------------------------
(* Instances of SyncTransport for TLC: two daemons.                        *)
EXTENDS SyncTransport, TLC

TwoNodes == {1, 2}
SameConfig == [n \in TwoNodes |-> "c"]
OtherConfig == [n \in TwoNodes |-> IF n = 1 THEN "c" ELSE "d"]

\* Each discovers the other, or the lower one does so twice, or the higher one once.
EachOther == [d \in {<<1, 2>>, <<2, 1>>} |-> 1]
Again == [d \in {<<1, 2>>} |-> 2]
OneWay == [d \in {<<2, 1>>} |-> 1]

Plan(config, dialling, sent, broken, stopped) ==
    [config |-> config, dialling |-> dialling, broadcasts |-> sent,
     failures |-> broken, stops |-> stopped]

AllPlans ==
    {Plan(SameConfig, EachOther, 1, 0, 0),      \* both dial
     Plan(SameConfig, OneWay, 2, 0, 0),         \* only the higher one does
     Plan(SameConfig, Again, 1, 0, 0),          \* connections replaced
     Plan(SameConfig, Again, 0, 1, 0),          \* and broken
     Plan(SameConfig, EachOther, 0, 0, 1),      \* a daemon shuts down
     Plan(OtherConfig, EachOther, 1, 1, 0)}     \* the settings differ

BothDial == {Plan(SameConfig, EachOther, 0, 0, 0)}
DialledTwice == {Plan(SameConfig, Again, 0, 0, 0)}
=============================================================================
