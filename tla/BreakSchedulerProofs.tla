------------------------ MODULE BreakSchedulerProofs ------------------------
(***************************************************************************)
(* Invariants of BreakScheduler for every schedule, every sample and every *)
(* position a peer may send.                                               *)
(***************************************************************************)
EXTENDS BreakScheduler, OperatorProofs

\* Every operation, a peer's included, takes a sound scheduler to a sound one.
LEMMA StepSound ==
    ASSUME SoundScheduler(sched), [Next]_vars
    PROVE  SoundScheduler(sched')
<1> USE InputsAssumption
<1>1. ASSUME NEW e \in Samples, AdvanceActiveTime(e) PROVE SoundScheduler(sched')
  BY <1>1, AdvanceActiveSound DEF AdvanceActiveTime
<1>2. CASE ResetActive
  BY <1>2, ResetsSound DEF ResetActive
<1>3. CASE ResetCount
  BY <1>3, ResetsSound DEF ResetCount
<1>4. ASSUME NEW name \in Names, StartByHand(name) PROVE SoundScheduler(sched')
  BY <1>4, ManualBreakSound DEF StartByHand
<1>5. CASE Finish
  BY <1>5, ResetsSound DEF Finish
<1>6. CASE DisableScheduler
  BY <1>6, ResetsSound DEF DisableScheduler
<1>7. CASE EnableScheduler
  BY <1>7, ResetsSound DEF EnableScheduler
<1>8. ASSUME NEW name \in Names, NEW o \in PeerOrigins, JoinSynced(name, o)
      PROVE  SoundScheduler(sched')
  BY <1>8, SyncedBreakSound DEF JoinSynced
<1>9. ASSUME NEW name \in Names, NEW o \in PeerOrigins, ReplaceSynced(name, o)
      PROVE  SoundScheduler(sched')
  BY <1>9, SyncedBreakSound DEF ReplaceSynced
<1>10. ASSUME NEW p \in PeerPositions, Merge(p) PROVE SoundScheduler(sched')
  <2>1. SoundPosition(p)
    BY DEF SoundPosition
  <2>2. QED
    BY <1>10, <2>1, MergeSound DEF Merge
<1>11. CASE UNCHANGED vars
  BY <1>11 DEF vars
<1>12. QED
  BY <1>1, <1>2, <1>3, <1>4, <1>5, <1>6, <1>7, <1>8, <1>9, <1>10, <1>11
     DEF Next, Local, FromPeers

\* The break a call returns is one of the schedule.
LEMMA StepStarted ==
    ASSUME TypeOK, [Next]_vars
    PROVE  started' \in SUBSET Breaks
<1>1. ASSUME NEW e \in Samples, AdvanceActiveTime(e) PROVE started' \in SUBSET Breaks
  BY <1>1, InputsAssumption, AdvanceActiveBreakType DEF AdvanceActiveTime, TypeOK
<1>2. ASSUME NEW name \in Names, StartByHand(name) PROVE started' \in SUBSET Breaks
  BY <1>2 DEF StartByHand, StartManualBreak, ManualAvailable, Break, Manual, Breaks, Origins
<1>3. ASSUME NEW name \in Names, NEW o \in PeerOrigins,
             JoinSynced(name, o) \/ ReplaceSynced(name, o)
      PROVE  started' \in SUBSET Breaks
  BY <1>3, InputsAssumption, SyncedBreakType DEF JoinSynced, ReplaceSynced
<1>4. CASE started' = {}
  BY <1>4
<1>5. CASE UNCHANGED vars
  BY <1>5 DEF vars, TypeOK
<1>6. QED
  BY <1>1, <1>2, <1>3, <1>4, <1>5
     DEF Next, Local, FromPeers, ResetActive, ResetCount, Finish, DisableScheduler,
         EnableScheduler, Merge

\* The scheduler a daemon starts with.
LEMMA InitSound == Init => SoundScheduler(sched) /\ InCadence(sched) /\ started = {}
<1> SUFFICES ASSUME Init
             PROVE  SoundScheduler(sched) /\ InCadence(sched) /\ started = {}
  OBVIOUS
<1>1. sched = NewScheduler /\ started = {}
  BY DEF Init
<1>2. SoundScheduler(NewScheduler)
  BY AfterActiveAssumption
     DEF NewScheduler, SoundScheduler, Schedulers, Modes, WireValid
<1>3. InCadence(NewScheduler)
  BY RulesAssumption DEF NewScheduler, InCadence
<1>4. QED
  BY <1>1, <1>2, <1>3

\* Type correctness: the scheduler keeps its type and never starts a break that
\* is not one of the schedule, whatever its callers and peers ask for.
THEOREM TypeCorrect == Spec => []TypeOK
<1> DEFINE Inv == SoundScheduler(sched) /\ TypeOK
<1>1. Init => Inv
  BY InitSound DEF TypeOK, SoundScheduler
<1>2. Inv /\ [Next]_vars => Inv'
  BY StepSound, StepStarted DEF TypeOK, SoundScheduler
<1>3. Inv => TypeOK
  OBVIOUS
<1>4. QED
  BY <1>1, <1>2, <1>3, PTL DEF Spec

\* The position of a daemon always passes the validation of the wire format, so
\* none of its frames is refused for it; and its active time stays short of a
\* slot.  The two are invariant together with the type of the scheduler.
THEOREM SoundPositions == Spec => [](PositionIsWireValid /\ ElapsedBelowThreshold)
<1>1. Init => SoundScheduler(sched)
  BY InitSound
<1>2. SoundScheduler(sched) /\ [Next]_vars => SoundScheduler(sched)'
  BY StepSound
<1>3. SoundScheduler(sched) => PositionIsWireValid /\ ElapsedBelowThreshold
  BY DEF SoundScheduler, PositionIsWireValid, ElapsedBelowThreshold
<1>4. QED
  BY <1>1, <1>2, <1>3, PTL DEF Spec

\* What a daemon's own operations keep besides soundness.
LEMMA LocalStepInCadence ==
    ASSUME SoundScheduler(sched), InCadence(sched), [Local]_vars
    PROVE  SoundScheduler(sched') /\ InCadence(sched')
<1>1. SUFFICES InCadence(sched')
  BY StepSound DEF Next
<1>2. ASSUME NEW e \in Samples, AdvanceActiveTime(e) PROVE InCadence(sched')
  BY <1>2, InputsAssumption, AdvanceActiveInCadence DEF AdvanceActiveTime
<1>3. CASE ResetActive
  BY <1>3, ResetsInCadence DEF ResetActive
<1>4. CASE ResetCount
  BY <1>4, ResetsInCadence DEF ResetCount
<1>5. ASSUME NEW name \in Names, StartByHand(name) PROVE InCadence(sched')
  BY <1>5, ManualBreakInCadence DEF StartByHand
<1>6. CASE Finish
  BY <1>6, ResetsInCadence DEF Finish
<1>7. CASE DisableScheduler
  BY <1>7, ResetsInCadence DEF DisableScheduler
<1>8. CASE EnableScheduler
  BY <1>8, ResetsInCadence DEF EnableScheduler
<1>9. CASE UNCHANGED vars
  BY <1>9 DEF vars
<1>10. QED
  BY <1>2, <1>3, <1>4, <1>5, <1>6, <1>7, <1>8, <1>9 DEF Local

\* A daemon of its own is sound and in cadence all along.
LEMMA LocalCadence == LocalSpec => [](SoundScheduler(sched) /\ InCadence(sched))
<1> DEFINE Inv == SoundScheduler(sched) /\ InCadence(sched)
<1>1. Init => Inv
  BY InitSound
<1>2. Inv /\ [Local]_vars => Inv'
  BY LocalStepInCadence
<1>3. QED
  BY <1>1, <1>2, PTL DEF LocalSpec

\* On a daemon of its own no rule is ever overdue, for any set of rules: however
\* the samples fall and whatever the user starts, resets or disables, a slot at
\* which something is due starts a break that satisfies all that is due there.
THEOREM NeverOverdue == LocalSpec => []NoRuleOverdue
<1>1. InCadence(sched) => NoRuleOverdue
  BY DEF InCadence, NoRuleOverdue
<1>2. QED
  BY <1>1, LocalCadence, PTL

-----------------------------------------------------------------------------
(* The announced break and the merge *)

\* The announced break is the one that starts, when it was announced to, for any
\* set of rules and whatever peers have sent: the minimum over the rules and the
\* walk over the slots never part.
THEOREM AnnouncementsHold == Spec => []AnnouncedBreakIsTheOneStarted
<1>1. Init => SoundScheduler(sched)
  BY InitSound
<1>2. SoundScheduler(sched) /\ [Next]_vars => SoundScheduler(sched)'
  BY StepSound
<1>3. SoundScheduler(sched) => AnnouncedBreakIsTheOneStarted
  <2> SUFFICES ASSUME SoundScheduler(sched), IsActive(sched)
               PROVE  /\ AdvanceActiveBreak(sched, StartsAfter(sched)) = Upcoming(sched)
                      /\ Upcoming(sched) # {}
                      /\ \A e \in 0..(StartsAfter(sched) - 1) :
                             AdvanceActiveBreak(sched, e) = {}
    BY DEF AnnouncedBreakIsTheOneStarted
  <2>1. StartsAfter(sched) \in Nat
    BY StartsAfterReachesUpcoming
  <2>2. \A e \in 0..(StartsAfter(sched) - 1) : e \in Nat /\ e < StartsAfter(sched)
    BY <2>1
  <2>3. QED
    BY <2>2, AnnouncedStarts
<1>4. QED
  BY <1>1, <1>2, <1>3, PTL DEF Spec

\* Whatever a daemon's position, those its peers send can be merged in any order
\* and any number of times.
THEOREM PeersConverge == Spec => []MergeOrderIrrelevant
<1>1. Init => SoundScheduler(sched)
  BY InitSound
<1>2. SoundScheduler(sched) /\ [Next]_vars => SoundScheduler(sched)'
  BY StepSound
<1>3. SoundScheduler(sched) => MergeOrderIrrelevant
  <2>1. \A p \in PeerPositions : SoundPosition(p)
    BY InputsAssumption DEF SoundPosition
  <2>2. QED
    BY <2>1, MergeIsAJoin DEF MergeOrderIrrelevant
<1>4. QED
  BY <1>1, <1>2, <1>3, PTL DEF Spec

-----------------------------------------------------------------------------
(* Nothing but a reset rewinds *)

\* What every step but ResetCount does to the position.
LEMMA StepForward ==
    ASSUME SoundScheduler(sched), [Next]_vars
    PROVE  ResetCount \/ Forward(sched, sched')
<1> USE InputsAssumption
<1>1. ASSUME NEW e \in Samples, AdvanceActiveTime(e) PROVE Forward(sched, sched')
  BY <1>1, AdvanceActiveForward DEF AdvanceActiveTime
<1>2. CASE ResetActive
  BY <1>2, OthersForward DEF ResetActive
<1>3. ASSUME NEW name \in Names, StartByHand(name) PROVE Forward(sched, sched')
  BY <1>3, OthersForward DEF StartByHand
<1>4. CASE Finish \/ DisableScheduler \/ EnableScheduler
  BY <1>4, OthersForward DEF Finish, DisableScheduler, EnableScheduler
<1>5. ASSUME NEW name \in Names, NEW o \in PeerOrigins,
             JoinSynced(name, o) \/ ReplaceSynced(name, o)
      PROVE  Forward(sched, sched')
  BY <1>5, OthersForward DEF JoinSynced, ReplaceSynced
<1>6. ASSUME NEW p \in PeerPositions, Merge(p) PROVE Forward(sched, sched')
  <2>1. SoundPosition(p)
    BY DEF SoundPosition
  <2>2. QED
    BY <1>6, <2>1, OthersForward DEF Merge
<1>7. CASE UNCHANGED vars
  BY <1>7 DEF vars, Forward, SoundScheduler, Schedulers
<1>8. QED
  BY <1>1, <1>2, <1>3, <1>4, <1>5, <1>6, <1>7 DEF Next, Local, FromPeers

\* A position is only ever rewound by the reset of the count: no message of a
\* peer, however old, and nothing the user does brings back a break already taken.
THEOREM NothingElseRewinds == Spec => OnlyResetRewinds
<1>1. Init => SoundScheduler(sched)
  BY InitSound
<1>2. SoundScheduler(sched) /\ [Next]_vars => SoundScheduler(sched)'
  BY StepSound
<1>3. SoundScheduler(sched) /\ [Next]_vars =>
          [ \/ ResetCount
            \/ sched'.slot >= sched.slot
               /\ \A r \in Rules : sched'.lss[r] >= sched.lss[r] ]_vars
  BY StepForward DEF Forward
<1>4. QED
  BY <1>1, <1>2, <1>3, PTL DEF Spec, OnlyResetRewinds

-----------------------------------------------------------------------------
(* The cadence *)

\* What a step of a daemon of its own does to the ages: it passes slots, takes
\* the break that falls due, takes one by hand, starts over, or leaves them.
LEMMA StepOfAges ==
    ASSUME SoundScheduler(sched), InCadence(sched), [Local]_vars
    PROVE  [Ages!Next]_(Age(sched))
<1> DEFINE a == Age(sched)
<1>1. \A r \in Rules : Interval[r] \in Nat \ {0} /\ a[r] \in 0..(Interval[r] - 1)
  BY AgeBounds
<1>2. ASSUME NEW e \in Samples, AdvanceActiveTime(e) PROVE [Ages!Next]_a
  <2>1. e \in Nat /\ sched' = AdvanceActive(sched, e)
    BY <1>2, InputsAssumption DEF AdvanceActiveTime
  <2>2. CASE ~IsActive(sched)
    <3>1. sched' = sched
      BY <2>1, <2>2 DEF AdvanceActive
    <3>2. QED
      BY <3>1
  <2>3. CASE IsActive(sched) /\ SlotsWithBreak(sched, e) = {}
    <3>1. PICK k \in Nat : /\ \A r \in Rules : a[r] + k < Interval[r]
                           /\ a' = [r \in Rules |-> a[r] + k]
      BY <2>1, <2>3, SlotsAge
    <3> HIDE DEF a
    <3>2. CASE k = 0
      <4>1. a = [r \in Rules |-> a[r]]
        BY DEF a, Age
      <4>2. [r \in Rules |-> a[r] + k] = [r \in Rules |-> a[r]]
        BY <1>1, <3>2
      <4>3. QED
        BY <3>1, <4>1, <4>2
    <3>3. CASE k # 0
      <4>1. PICK r \in Rules : TRUE
        BY RulesAssumption
      <4>2. k \in 1..Interval[r]
        BY <1>1, <3>1, <3>3
      <4>3. Ages!PassSlots(k)
        BY <3>1 DEF Ages!PassSlots, a, Age
      <4>4. QED
        BY <4>2, <4>3 DEF Ages!Next
    <3>4. QED
      BY <3>2, <3>3
  <2>4. CASE IsActive(sched) /\ SlotsWithBreak(sched, e) # {}
    <3>1. PICK k \in Nat \ {0} :
              /\ \A r \in Rules : a[r] + k <= Interval[r]
              /\ \E r \in Rules : a[r] + k = Interval[r]
              /\ a' = [r \in Rules |-> IF a[r] + k = Interval[r] THEN 0 ELSE a[r] + k]
      BY <2>1, <2>4, BreakResetsAges
    <3> HIDE DEF a
    <3>2. Ages!TakeBreak(k)
      BY <3>1 DEF Ages!TakeBreak, a, Age
    <3>3. PICK r \in Rules : a[r] + k = Interval[r]
      BY <3>1
    <3>4. k \in 1..Interval[r]
      BY <1>1, <3>1, <3>3
    <3>5. QED
      BY <3>2, <3>4 DEF Ages!Next
  <2>5. QED
    BY <2>2, <2>3, <2>4
<1>3. CASE ResetCount
  <2>1. a' = [r \in Rules |-> 0]
    BY <1>3, OthersAge DEF ResetCount
  <2>2. Ages!StartOver
    BY <2>1 DEF Ages!StartOver, Age
  <2>3. QED
    BY <2>2 DEF Ages!Next
<1>4. ASSUME NEW name \in Names, StartByHand(name) PROVE [Ages!Next]_a
  <2>1. sched' = AfterManualBreak(sched, name)
    BY <1>4 DEF StartByHand
  <2>2. CASE StartManualBreak(sched, name) = {}
    BY <2>1, <2>2 DEF AfterManualBreak
  <2>3. CASE StartManualBreak(sched, name) # {}
    <3>1. name \in Rules
      BY <2>3 DEF StartManualBreak, ManualAvailable
    <3>2. a' = [r \in Rules |-> IF Interval[r] <= Interval[name] THEN 0 ELSE a[r]]
      BY <2>1, <2>3, OthersAge
    <3>3. Ages!TakeByHand(name)
      BY <3>2 DEF Ages!TakeByHand, Age
    <3>4. QED
      BY <3>1, <3>3 DEF Ages!Next
  <2>4. QED
    BY <2>2, <2>3
<1>5. CASE ResetActive \/ Finish \/ DisableScheduler \/ EnableScheduler
  <2>1. a' = a
    BY <1>5, OthersAge DEF ResetActive, Finish, DisableScheduler, EnableScheduler
  <2>2. QED
    BY <2>1
<1>6. CASE UNCHANGED vars
  <2>1. sched' = sched
    BY <1>6 DEF vars
  <2>2. QED
    BY <2>1
<1>7. QED
  BY <1>2, <1>3, <1>4, <1>5, <1>6 DEF Local

\* A daemon of its own implements the cadence, for any schedule and any samples:
\* seen through the ages of its rules, its slots, modes, remainders and pending
\* breaks come to nothing but slots passing and each break taken when a rule
\* reaches its interval.
THEOREM ImplementsCadence == LocalSpec => CadenceKept
<1>1. Init => Ages!Init
  BY InitSound DEF Init, Ages!Init, NewScheduler
<1>2. SoundScheduler(sched) /\ InCadence(sched) /\ [Local]_vars =>
          [Ages!Next]_([r \in Rules |-> sched.slot - sched.lss[r]])
  BY StepOfAges DEF Age
<1>3. QED
  BY <1>1, <1>2, LocalCadence, PTL DEF LocalSpec, CadenceKept, Ages!Spec

-----------------------------------------------------------------------------
(* Putting a break off *)

\* In cadence a rule falls due its interval after it was last satisfied.
LEMMA NextDueInCadence ==
    ASSUME NEW s, SoundScheduler(s), InCadence(s), NEW r \in Rules
    PROVE  NextDueSlot(s, r) = s.lss[r] + Interval[r]
BY AgeBounds DEF NextDueSlot, InCadence

\* Only the rules a break satisfies are satisfied later than before, and the
\* break is at least as long as each of them.
LEMMA LaterOnlyByBreak ==
    ASSUME SoundScheduler(sched), InCadence(sched), [Local]_vars,
           NEW r \in Rules, sched'.lss[r] > sched.lss[r]
    PROVE  \E b \in started' : Interval[b.name] >= Interval[r]
<1>1. /\ sched \in Schedulers
      /\ \A q \in Rules : sched.lss[q] \in Nat /\ Interval[q] \in Nat
  BY RulesAssumption DEF SoundScheduler, Schedulers
<1>2. sched'.lss[r] # sched.lss[r]
  BY <1>1
<1>3. ASSUME NEW e \in Samples, AdvanceActiveTime(e)
      PROVE  \E b \in started' : Interval[b.name] >= Interval[r]
  <2> DEFINE n == Least(SlotsWithBreak(sched, e))
             l == Longest(RulesDue(sched.lss, n))
  <2>1. /\ e \in Nat /\ sched' = AdvanceActive(sched, e)
        /\ started' = AdvanceActiveBreak(sched, e)
    BY <1>3, InputsAssumption DEF AdvanceActiveTime
  <2>2. IsActive(sched)
    BY <1>2, <2>1 DEF AdvanceActive
  <2>3. SlotsWithBreak(sched, e) # {}
    BY <1>1, <1>2, <2>1, <2>2, AdvanceActiveQuietly
  <2>4. sched'.lss = SatisfyScheduled(sched.lss, n, l) /\ started' = {Break(l, Scheduled(n))}
    BY <1>1, <2>1, <2>2, <2>3, AdvanceActiveToBreak
  <2>5. \A q \in RulesDue(sched.lss, n) : Interval[q] <= Interval[l]
    BY <1>1, <2>1, <2>3, FirstBreakSlot
  <2> HIDE DEF n, l
  <2>6. r \in RulesDue(sched.lss, n)
    BY <1>2, <2>4 DEF SatisfyScheduled
  <2>7. Interval[l] >= Interval[r]
    <3>1. l \in Rules
      BY <1>1, <2>1, <2>3, FirstBreakSlot DEF RulesDue, l, n
    <3>2. QED
      BY <1>1, <2>5, <2>6, <3>1
  <2>8. QED
    BY <2>4, <2>7 DEF Break
<1>4. ASSUME NEW name \in Names, StartByHand(name)
      PROVE  \E b \in started' : Interval[b.name] >= Interval[r]
  <2>1. sched' = AfterManualBreak(sched, name) /\ started' = StartManualBreak(sched, name)
    BY <1>4 DEF StartByHand
  <2>2. StartManualBreak(sched, name) # {}
    BY <1>2, <2>1 DEF AfterManualBreak
  <2>3. name \in Rules /\ started' = {Break(name, Manual)}
    BY <2>1, <2>2 DEF StartManualBreak, ManualAvailable
  <2>4. sched'.lss = SatisfyManual(sched, name)
    BY <1>1, <2>1, <2>2 DEF AfterManualBreak, Pending, Schedulers
  <2>5. Interval[r] <= Interval[name]
    BY <1>2, <2>4 DEF SatisfyManual
  <2>6. QED
    BY <1>1, <2>3, <2>5 DEF Break
<1>5. CASE ResetCount
  BY <1>1, <1>5 DEF ResetCount, ResetPosition, Schedulers
<1>6. CASE ResetActive \/ Finish \/ DisableScheduler \/ EnableScheduler \/ UNCHANGED vars
  BY <1>1, <1>2, <1>6
     DEF ResetActive, Finish, DisableScheduler, EnableScheduler, vars,
         ResetActiveTime, FinishBreak, Disable, Enable, Schedulers
<1>7. QED
  BY <1>3, <1>4, <1>5, <1>6 DEF Local

\* A break by hand starts only if it is at least as long as the one announced.
LEMMA ByHandOnlyLonger ==
    ASSUME Local, NEW u \in Upcoming(sched),
           NEW b \in started', b.origin = Manual
    PROVE  Interval[b.name] >= Interval[u.name]
<1>1. ASSUME NEW e \in Samples, AdvanceActiveTime(e) PROVE FALSE
  <2>1. b \in AdvanceActiveBreak(sched, e)
    BY <1>1 DEF AdvanceActiveTime
  <2>2. b.origin.kind = "Scheduled"
    BY <2>1 DEF AdvanceActiveBreak, DueBreak, Break, Scheduled
  <2>3. QED
    BY <2>2 DEF Manual
<1>2. ASSUME NEW name \in Names, StartByHand(name)
      PROVE  Interval[b.name] >= Interval[u.name]
  BY <1>2 DEF StartByHand, StartManualBreak, ManualAvailable, Break
<1>3. CASE ResetActive \/ ResetCount \/ Finish \/ DisableScheduler \/ EnableScheduler
  BY <1>3 DEF ResetActive, ResetCount, Finish, DisableScheduler, EnableScheduler
<1>4. QED
  BY <1>1, <1>2, <1>3 DEF Local

\* No sequence of short breaks, resets and disables puts off a longer one: it
\* can only be replaced by one as long, for any schedule.
THEOREM ShortBreaksPutNothingOff == LocalSpec => PutOffOnlyByALongerBreak
<1> DEFINE A == /\ \A r \in Rules :
                     NextDueSlot(sched', r) > NextDueSlot(sched, r) =>
                         \E b \in started' : Interval[b.name] >= Interval[r]
                /\ \A u \in Upcoming(sched), b \in started' :
                     b.origin = Manual
                     /\ TimeToDue(sched', u.name) > TimeToDue(sched, u.name) =>
                         Interval[b.name] >= Interval[u.name]
<1>1. SoundScheduler(sched) /\ InCadence(sched) /\ [Local]_vars => [A]_vars
  <2> SUFFICES ASSUME SoundScheduler(sched), InCadence(sched), Local PROVE A
    OBVIOUS
  <2>1. SoundScheduler(sched') /\ InCadence(sched')
    BY LocalStepInCadence
  <2>2. ASSUME NEW r \in Rules, NextDueSlot(sched', r) > NextDueSlot(sched, r)
        PROVE  \E b \in started' : Interval[b.name] >= Interval[r]
    <3>1. sched'.lss[r] + Interval[r] > sched.lss[r] + Interval[r]
      BY <2>1, <2>2, NextDueInCadence
    <3>2. sched'.lss[r] \in Nat /\ sched.lss[r] \in Nat /\ Interval[r] \in Nat
      BY <2>1, RulesAssumption DEF SoundScheduler, Schedulers
    <3>3. sched'.lss[r] > sched.lss[r]
      BY <3>1, <3>2
    <3>4. QED
      BY <3>3, LaterOnlyByBreak
  <2>3. QED
    BY <2>2, ByHandOnlyLonger
<1>2. QED
  BY <1>1, LocalCadence, PTL DEF LocalSpec, PutOffOnlyByALongerBreak

=============================================================================
