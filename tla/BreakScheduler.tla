--------------------------- MODULE BreakScheduler ---------------------------
(***************************************************************************)
(* The scheduler of src/scheduler.rs driven by its callers: one action per *)
(* method that changes it.  The caller (src/runtime.rs) calls the methods  *)
(* in an order nothing in the scheduler restricts, so neither does this    *)
(* module.                                                                 *)
(***************************************************************************)
EXTENDS SchedulerOps

CONSTANTS
    Samples,        \* the active-time increments observed
    PeerPositions,  \* the positions peers send; {} for a daemon without sync
    PeerOrigins,    \* the origins of the breaks peers send; likewise
    MaxSlot         \* bound: no slot beyond it is reached

\* What the wire validation of sync_protocol.rs lets through (WireValid), with active
\* time below the threshold: this last the wire does not check; the scheduler of a peer
\* with the same configuration keeps it (ElapsedBelowThreshold).
ASSUME InputsAssumption ==
    /\ Samples \subseteq Nat \ {0}
    /\ PeerPositions \subseteq Positions
    /\ \A p \in PeerPositions : p.elapsed < AfterActive /\ WireValid(p)
    /\ PeerOrigins \subseteq Origins
    /\ MaxSlot \in Nat

VARIABLES
    sched,     \* the BreakScheduler
    started    \* the break the last call returned, an Option

vars == <<sched, started>>

Init ==
    /\ sched = NewScheduler
    /\ started = {}

-----------------------------------------------------------------------------

AdvanceActiveTime(e) ==
    /\ sched' = AdvanceActive(sched, e)
    /\ started' = AdvanceActiveBreak(sched, e)
    /\ sched'.slot <= MaxSlot

ResetActive ==
    /\ sched' = ResetActiveTime(sched)
    /\ started' = {}

ResetCount ==
    /\ sched' = ResetPosition(sched)
    /\ started' = {}

StartByHand(name) ==
    /\ sched' = AfterManualBreak(sched, name)
    /\ started' = StartManualBreak(sched, name)

Finish ==
    /\ sched' = FinishBreak(sched)
    /\ started' = {}

DisableScheduler ==
    /\ sched' = Disable(sched)
    /\ started' = {}

EnableScheduler ==
    /\ sched' = Enable(sched)
    /\ started' = {}

JoinSynced(name, o) ==
    /\ sched' = AfterSyncedBreak(sched, name, o)
    /\ started' = StartSyncedBreak(sched, name, o)

ReplaceSynced(name, o) ==
    /\ sched' = AfterReplacement(sched, name, o)
    /\ started' = ReplacementBreak(sched, name, o)

Merge(p) ==
    /\ sched' = MergePosition(sched, p)
    /\ started' = {}

Local ==
    \/ \E e \in Samples : AdvanceActiveTime(e)
    \/ ResetActive
    \/ ResetCount
    \/ \E name \in Names : StartByHand(name)
    \/ Finish
    \/ DisableScheduler
    \/ EnableScheduler

FromPeers ==
    \/ \E name \in Names, o \in PeerOrigins : JoinSynced(name, o)
    \/ \E name \in Names, o \in PeerOrigins : ReplaceSynced(name, o)
    \/ \E p \in PeerPositions : Merge(p)

Next == Local \/ FromPeers

Spec == Init /\ [][Next]_vars

\* A daemon that receives nothing from peers.
LocalSpec == Init /\ [][Local]_vars

-----------------------------------------------------------------------------

TypeOK ==
    /\ sched \in Schedulers
    /\ started \in SUBSET Breaks

(***************************************************************************)
(* A daemon never builds a frame its peers must refuse: encoding rejects a *)
(* position in which some rule was satisfied after the current slot        *)
(* (validate_last_satisfied_slots, sync_protocol.rs), and a refused frame  *)
(* is a break the peers never see.  Resets, manual breaks, joined breaks   *)
(* and merged positions all move the two sides of the comparison.          *)
(***************************************************************************)
PositionIsWireValid == WireValid(sched)

(***************************************************************************)
(* Less than one slot of active time is ever left over, whatever mixture   *)
(* of samples, resets and merged positions produced it.  advance_active    *)
(* drops the remainder when a break starts; a remainder of a slot or more  *)
(* would make the break after it start early.                              *)
(***************************************************************************)
ElapsedBelowThreshold == sched.elapsed < AfterActive

(***************************************************************************)
(* No rule is overdue: fewer slots than its interval have passed since it  *)
(* was last satisfied.  Every start therefore satisfies all that is due    *)
(* along with it, and every slot at which something is due starts a break. *)
(* This is a promise about a daemon's own operations; the positions of     *)
(* peers keep it too when they satisfy it themselves.                      *)
(***************************************************************************)
NoRuleOverdue == \A r \in Rules : sched.slot - sched.lss[r] < Interval[r]

(***************************************************************************)
(* The break the tray and the pre-break notification announce is the one   *)
(* that starts, and it starts when they say: upcoming_scheduled_break and  *)
(* advance_active compute it in two different ways, by a minimum over the  *)
(* rules and by walking the slots.                                         *)
(***************************************************************************)
AnnouncedBreakIsTheOneStarted ==
    IsActive(sched) =>
        /\ AdvanceActiveBreak(sched, StartsAfter(sched)) = Upcoming(sched)
        /\ Upcoming(sched) # {}
        /\ \A e \in 0..(StartsAfter(sched) - 1) : AdvanceActiveBreak(sched, e) = {}

(***************************************************************************)
(* Peers that have seen the same positions agree: neither the order in     *)
(* which two positions arrive nor a repetition of one matters, over        *)
(* connections that order nothing between them.                            *)
(***************************************************************************)
MergeOrderIrrelevant ==
    \A p, q \in PeerPositions :
        /\ MergePosition(MergePosition(sched, p), q)
               = MergePosition(MergePosition(sched, q), p)
        /\ MergePosition(MergePosition(sched, p), p) = MergePosition(sched, p)

(***************************************************************************)
(* Only a reset rewinds: nothing a peer sends and nothing the user does    *)
(* takes the slot, or the slot at which a rule was satisfied, backwards.   *)
(***************************************************************************)
OnlyResetRewinds ==
    [][ \/ ResetCount
        \/ sched'.slot >= sched.slot
           /\ \A r \in Rules : sched'.lss[r] >= sched.lss[r] ]_vars

(***************************************************************************)
(* A break is put off only by one at least as long.  The slot at which a   *)
(* rule next falls due moves away only when a break of its own interval or *)
(* a longer one starts; and the break announced next does not come later,  *)
(* not even within its slot, because of a shorter one started by hand.  So *)
(* a user cannot evade a long break with short ones                        *)
(* (manual_break_is_available), and a short scheduled break satisfies no   *)
(* longer rule (satisfy_scheduled_breaks).                                 *)
(***************************************************************************)
TimeToDue(s, r) == AfterActive * (NextDueSlot(s, r) - s.slot) - s.elapsed

PutOffOnlyByALongerBreak ==
    [][ /\ \A r \in Rules :
             NextDueSlot(sched', r) > NextDueSlot(sched, r) =>
                 \E b \in started' : Interval[b.name] >= Interval[r]
        /\ \A u \in Upcoming(sched), b \in started' :
             b.origin = Manual /\ TimeToDue(sched', u.name) > TimeToDue(sched, u.name) =>
                 Interval[b.name] >= Interval[u.name] ]_vars

(***************************************************************************)
(* Seen through the ages of the rules, a daemon on its own implements the  *)
(* cadence: slots pass, each break comes exactly when a rule reaches its   *)
(* interval, it satisfies all that is due, and no operation of the user    *)
(* ages a rule or skips its break.                                         *)
(***************************************************************************)
Ages == INSTANCE Cadence WITH age <- [r \in Rules |-> sched.slot - sched.lss[r]]

CadenceKept == Ages!Spec
=============================================================================
