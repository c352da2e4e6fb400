---------------------------- MODULE SchedulerOps ----------------------------
(***************************************************************************)
(* The break scheduler of src/scheduler.rs as operators on a value.        *)
(*                                                                         *)
(* A scheduler is a record                                                 *)
(*   slot     completed multiples of AfterActive since the last reset      *)
(*   elapsed  active time accumulated towards the next slot                *)
(*   lss      for each rule, the slot at which it was last satisfied       *)
(*            (last_satisfied_slots)                                       *)
(*   phase    "Ready" or "Pending": the constructor of SchedulerState      *)
(*   mode     "Active" or "Disabled": the mode of Ready, the resume mode   *)
(*            of Pending                                                   *)
(* Each method of BreakScheduler is an operator from a scheduler to a      *)
(* scheduler.  A method that may return a break has a second operator      *)
(* giving its result.  An Option is the set of the values it holds: {}     *)
(* stands for None and {b} for Some(b).                                    *)
(*                                                                         *)
(* A break is [name, origin].  Its duration, message and autolock flag are *)
(* functions of the rule and are looked up where they are needed.          *)
(***************************************************************************)
EXTENDS Integers, FiniteSets

CONSTANTS
    Rules,        \* the configured break types
    Names,        \* the names a caller may ask for, known or not
    Interval,     \* Interval[r]: the slots between two breaks of type r
    AfterActive   \* active time per slot

\* What Breaks::validate (config.rs) guarantees of a loaded configuration: some
\* break type, positive intervals, no two equal, a positive slot length.
ASSUME RulesAssumption ==
    /\ Rules # {} /\ IsFiniteSet(Rules) /\ Rules \subseteq Names
    /\ Interval \in [Rules -> Nat \ {0}]
    /\ \A q, r \in Rules : Interval[q] = Interval[r] => q = r
ASSUME AfterActiveAssumption == AfterActive \in Nat \ {0}

\* A definition whose name ends in _ is a faulty variant of the definition it
\* precedes: a bug that definition could have had.  Nothing uses the variants;
\* putting one in the place of the original must break some property.

-----------------------------------------------------------------------------
(* Values *)

Modes == {"Active", "Disabled"}

Origins == [kind : {"Manual", "Scheduled"}, slot : Nat]
Manual == [kind |-> "Manual", slot |-> 0]
Scheduled(n) == [kind |-> "Scheduled", slot |-> n]

Breaks == [name : Rules, origin : Origins]
Break(r, o) == [name |-> r, origin |-> o]

Positions == [slot : Nat, elapsed : Nat, lss : [Rules -> Nat]]

Schedulers == [slot : Nat, elapsed : Nat, lss : [Rules -> Nat],
               phase : {"Ready", "Pending"}, mode : Modes]

NewScheduler ==
    [slot |-> 0, elapsed |-> 0, lss |-> [r \in Rules |-> 0],
     phase |-> "Ready", mode |-> "Active"]

Position(s) == [slot |-> s.slot, elapsed |-> s.elapsed, lss |-> s.lss]

\* validate_last_satisfied_slots (sync_protocol.rs), which every position passes
\* when a frame is encoded and again when it is decoded.
WireValid(p) == \A r \in Rules : p.lss[r] <= p.slot

IsActive(s) == s.phase = "Ready" /\ s.mode = "Active"

-----------------------------------------------------------------------------
(* Which rule is due, and when *)

Longest_ShortestFirst(S) == CHOOSE r \in S : \A q \in S : Interval[q] >= Interval[r]
Longest(S) == CHOOSE r \in S : \A q \in S : Interval[q] <= Interval[r]
Least(S) == CHOOSE n \in S : \A m \in S : n <= m

RulesDue(lss, n) == {r \in Rules : n - lss[r] >= Interval[r]}

\* due_break_at: the rules are kept in descending order of interval, so the
\* first one due is the longest one due.
DueBreak(lss, n) ==
    IF RulesDue(lss, n) = {} THEN {}
    ELSE {Break(Longest(RulesDue(lss, n)), Scheduled(n))}

\* next_due_slot_for_rule
NextDueSlot(s, r) ==
    IF s.lss[r] + Interval[r] > s.slot THEN s.lss[r] + Interval[r] ELSE s.slot + 1

\* upcoming_scheduled_break: the break, and the active time left until it.
UpcomingSlot(s) == Least({NextDueSlot(s, r) : r \in Rules})
Upcoming(s) == IF IsActive(s) THEN DueBreak(s.lss, UpcomingSlot(s)) ELSE {}
StartsAfter_WholeSlots(s) == AfterActive * (UpcomingSlot(s) - s.slot)
StartsAfter(s) ==
    (IF s.elapsed < AfterActive THEN AfterActive - s.elapsed ELSE 0)
        + AfterActive * (UpcomingSlot(s) - s.slot - 1)

ManualAvailable_Always(s, name) == name \in Rules

\* manual_break_is_available, and the map of manual_break_availability: a rule
\* more frequent than the one announced next cannot be started by hand.
ManualAvailable(s, name) ==
    name \in Rules /\ \A b \in Upcoming(s) : Interval[name] >= Interval[b.name]
Availability(s) == {r \in Rules : ManualAvailable(s, r)}

-----------------------------------------------------------------------------
(* Which rules a break satisfies *)

SatisfyScheduled_OnlyItself(lss, n, name) == [lss EXCEPT ![name] = n]
SatisfyScheduled(lss, n, name) ==
    [r \in Rules |-> IF Interval[r] <= Interval[name] /\ r \in RulesDue(lss, n)
                     THEN n ELSE lss[r]]
SatisfyManual(s, name) ==
    [r \in Rules |-> IF Interval[r] <= Interval[name] THEN s.slot ELSE s.lss[r]]

Pending(s) == [s EXCEPT !.elapsed = 0, !.phase = "Pending"]

-----------------------------------------------------------------------------
(* advance_active.  The loop consumes whole slots until a break is due or  *)
(* less than a slot is left; SlotsWithBreak are the iterations at which it *)
(* would stop, and it stops at the first.                                  *)

SlotsCrossed(s, e) == (s.elapsed + e) \div AfterActive
SlotsWithBreak(s, e) ==
    {n \in (s.slot + 1)..(s.slot + SlotsCrossed(s, e)) : RulesDue(s.lss, n) # {}}

AdvanceActiveBreak(s, e) ==
    IF IsActive(s) /\ SlotsWithBreak(s, e) # {}
    THEN DueBreak(s.lss, Least(SlotsWithBreak(s, e)))
    ELSE {}
AdvanceActive(s, e) ==
    IF ~IsActive(s) THEN s
    ELSE IF SlotsWithBreak(s, e) = {}
         THEN [s EXCEPT !.slot = @ + SlotsCrossed(s, e),
                        !.elapsed = (@ + e) % AfterActive]
         ELSE LET n == Least(SlotsWithBreak(s, e))
                  r == Longest(RulesDue(s.lss, n))
              IN  Pending([s EXCEPT !.slot = n,
                                    !.lss = SatisfyScheduled(s.lss, n, r)])

-----------------------------------------------------------------------------
(* Resets, manual breaks, the end of a break, disabling *)

ResetActiveTime(s) == [s EXCEPT !.elapsed = 0]

ResetPosition_KeepsSatisfied(s) == [s EXCEPT !.slot = 0, !.elapsed = 0]
ResetPosition(s) ==
    [s EXCEPT !.slot = 0, !.elapsed = 0, !.lss = [r \in Rules |-> 0]]

StartManualBreak(s, name) ==
    IF s.phase = "Ready" /\ ManualAvailable(s, name)
    THEN {Break(name, Manual)} ELSE {}
AfterManualBreak(s, name) ==
    IF StartManualBreak(s, name) = {} THEN s
    ELSE Pending([s EXCEPT !.lss = SatisfyManual(s, name)])

FinishBreak(s) == [s EXCEPT !.elapsed = 0, !.phase = "Ready"]
Disable(s) == [s EXCEPT !.elapsed = 0, !.phase = "Ready", !.mode = "Disabled"]
Enable(s) == [s EXCEPT !.mode = "Active"]

-----------------------------------------------------------------------------
(* Breaks and positions received from peers *)

\* break_for_origin together with the guards of adopt_synced_origin: the name is
\* known, a scheduled break names a slot from 1 on that is not behind this one.
Adoptable_Stale(s, name, o) ==
    name \in Rules /\ (o.kind = "Scheduled" => o.slot > 0)
Adoptable(s, name, o) ==
    name \in Rules /\ (o.kind = "Scheduled" => o.slot > 0 /\ o.slot >= s.slot)

AdoptOrigin(s, name, o) ==
    IF o.kind = "Manual" THEN [s EXCEPT !.lss = SatisfyManual(s, name)]
    ELSE [s EXCEPT !.slot = o.slot, !.elapsed = 0,
                   !.lss = SatisfyScheduled(s.lss, o.slot, name)]

\* start_active_synced_break: only when no break is pending.
StartSyncedBreak(s, name, o) ==
    IF s.phase = "Ready" /\ Adoptable(s, name, o) THEN {Break(name, o)} ELSE {}
AfterSyncedBreak(s, name, o) ==
    IF StartSyncedBreak(s, name, o) = {} THEN s ELSE Pending(AdoptOrigin(s, name, o))

\* replacement_synced_break: adopts the origin and stays in its state.
ReplacementBreak(s, name, o) ==
    IF Adoptable(s, name, o) THEN {Break(name, o)} ELSE {}
AfterReplacement(s, name, o) ==
    IF Adoptable(s, name, o) THEN AdoptOrigin(s, name, o) ELSE s

\* merge_synced_position: the later slot wins with its elapsed time, equal slots
\* keep the longer elapsed time, and each rule its latest satisfied slot, never
\* beyond the slot just agreed.
LaterOf(m, n) == IF m >= n THEN m ELSE n
EarlierOf(m, n) == IF m <= n THEN m ELSE n

MergePosition_OwnSlotOnly(s, p) ==
    [s EXCEPT !.elapsed = IF p.slot = s.slot THEN LaterOf(@, p.elapsed) ELSE @,
              !.lss = [r \in Rules |-> LaterOf(s.lss[r], EarlierOf(p.lss[r], s.slot))]]
MergePosition_EqualSlotReplaces(s, p) ==
    LET slot == LaterOf(s.slot, p.slot)
    IN  [s EXCEPT !.slot = slot,
                  !.elapsed = IF p.slot >= s.slot THEN p.elapsed ELSE @,
                  !.lss = [r \in Rules |->
                               LaterOf(s.lss[r], EarlierOf(p.lss[r], slot))]]
MergePosition(s, p) ==
    LET slot == LaterOf(s.slot, p.slot)
    IN  [s EXCEPT !.slot = slot,
                  !.elapsed = IF p.slot > s.slot THEN p.elapsed
                              ELSE IF p.slot = s.slot THEN LaterOf(@, p.elapsed)
                              ELSE @,
                  !.lss = [r \in Rules |->
                               LaterOf(s.lss[r], EarlierOf(p.lss[r], slot))]]
=============================================================================
