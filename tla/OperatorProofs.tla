--------------------------- MODULE OperatorProofs ---------------------------
(***************************************************************************)
(* The lemmas about the operators that several machines are made of, for   *)
(* every schedule: what each operation of the scheduler preserves, and     *)
(* what the handlers of the daemon runtime do, each proved once to keep a  *)
(* daemon coherent.                                                        *)
(***************************************************************************)
EXTENDS RuntimeOps, FiniteSetTheorems, WellFoundedInduction, TLAPS

\* What holds of a scheduler between two calls: its type, positions its peers
\* accept, and less than a slot of active time left over.
SoundScheduler(s) == s \in Schedulers /\ WireValid(s) /\ s.elapsed < AfterActive

\* No rule has gone its interval without being satisfied.
InCadence(s) == \A r \in Rules : s.slot - s.lss[r] < Interval[r]

-----------------------------------------------------------------------------
(* Choosing the least number and the longest rule *)

\* Every set of naturals with an element has a least one: the walk over the
\* slots in advance_active stops at a definite slot.
LEMMA LeastOf ==
    ASSUME NEW S, S \subseteq Nat, S # {}
    PROVE  Least(S) \in S /\ \A m \in S : Least(S) <= m
<1>1. PICK x \in S : \A y \in S : ~(<<y, x>> \in OpToRel(<, Nat))
  BY NatLessThanWellFounded, WFMin
<1>2. ASSUME NEW y \in S PROVE ~(y < x)
  <2>1. x \in Nat /\ y \in Nat
    OBVIOUS
  <2>2. ~(<<y, x>> \in {p \in Nat \X Nat : p[1] < p[2]})
    BY <1>1 DEF OpToRel
  <2>3. QED
    BY <2>1, <2>2
<1>3. \A y \in S : x <= y
  BY <1>2
<1>4. QED
  BY <1>3 DEF Least

\* Among the rules of a set, one has the longest interval: the first rule found
\* by due_break_at exists, and supersedes every other rule due.
LEMMA LongestOf ==
    ASSUME NEW S, S \subseteq Rules, S # {}
    PROVE  Longest(S) \in S /\ \A q \in S : Interval[q] <= Interval[Longest(S)]
<1> DEFINE HasLongest(T) == \E r \in T : \A q \in T : Interval[q] <= Interval[r]
           Bad == {n \in Nat : \E T \in SUBSET Rules :
                       T # {} /\ Cardinality(T) = n /\ ~HasLongest(T)}
<1>1. \A T \in SUBSET Rules : IsFiniteSet(T) /\ Cardinality(T) \in Nat
  BY RulesAssumption, FS_Subset, FS_CardinalityType
<1>2. Bad = {}
  <2> SUFFICES ASSUME Bad # {} PROVE FALSE
    OBVIOUS
  <2>1. Least(Bad) \in Bad /\ \A m \in Bad : Least(Bad) <= m
    <3>1. Bad \subseteq Nat
      OBVIOUS
    <3>2. QED
      BY <3>1, LeastOf
  <2>2. PICK T \in SUBSET Rules :
            T # {} /\ Cardinality(T) = Least(Bad) /\ ~HasLongest(T)
    BY <2>1
  <2>3. PICK x \in T : TRUE
    BY <2>2
  <2>4. T \ {x} \in SUBSET Rules /\ Cardinality(T \ {x}) = Cardinality(T) - 1
    BY <1>1, <2>3, FS_RemoveElement
  <2>5. Cardinality(T \ {x}) \in Nat /\ Cardinality(T) \in Nat
    BY <1>1, <2>4
  <2>6. CASE T \ {x} = {}
    <3>1. \A q \in T : q = x
      BY <2>6
    <3>2. Interval[x] \in Nat
      BY RulesAssumption, <2>3
    <3>3. QED
      BY <2>2, <2>3, <3>1, <3>2
  <2>7. CASE T \ {x} # {}
    <3>1. HasLongest(T \ {x})
      <4>1. Cardinality(T \ {x}) \notin Bad
        <5> HIDE DEF Bad
        <5>1. Least(Bad) = Cardinality(T)
          BY <2>2
        <5>2. ~(Least(Bad) <= Cardinality(T \ {x}))
          BY <2>4, <2>5, <5>1
        <5>3. QED
          BY <2>1, <5>2
      <4>2. QED
        BY <4>1, <2>4, <2>5, <2>7
    <3>2. PICK r \in T \ {x} : \A q \in T \ {x} : Interval[q] <= Interval[r]
      BY <3>1
    <3>3. \A q \in T : Interval[q] \in Nat
      BY RulesAssumption
    <3>4. CASE Interval[x] <= Interval[r]
      <4>1. \A q \in T : Interval[q] <= Interval[r]
        BY <3>2, <3>4
      <4>2. QED
        BY <2>2, <3>2, <4>1
    <3>5. CASE ~(Interval[x] <= Interval[r])
      <4>1. \A q \in T : Interval[q] <= Interval[x]
        BY <3>2, <3>3, <3>5, <2>3
      <4>2. QED
        BY <2>2, <2>3, <4>1
    <3>6. QED
      BY <3>4, <3>5
  <2>8. QED
    BY <2>6, <2>7
<1>3. HasLongest(S)
  BY <1>1, <1>2
<1>4. QED
  BY <1>3 DEF Longest

-----------------------------------------------------------------------------
(* advance_active *)

\* Whole slots and what is left of them.
LEMMA WholeSlots ==
    ASSUME NEW a \in Nat
    PROVE  a \div AfterActive \in Nat /\ a % AfterActive \in 0..(AfterActive - 1)
BY AfterActiveAssumption

\* A slot in the walk of advance_active that has a break: the first such slot
\* lies ahead, a rule is due there, and the break is the longest rule due.
LEMMA FirstBreakSlot ==
    ASSUME NEW s \in Schedulers, NEW e \in Nat, SlotsWithBreak(s, e) # {}
    PROVE  LET n == Least(SlotsWithBreak(s, e))
               r == Longest(RulesDue(s.lss, n))
           IN  /\ n \in Nat /\ n > s.slot
               /\ r \in RulesDue(s.lss, n)
               /\ \A q \in RulesDue(s.lss, n) : Interval[q] <= Interval[r]
<1> DEFINE n == Least(SlotsWithBreak(s, e))
<1>1. s.slot \in Nat /\ SlotsCrossed(s, e) \in Nat
  BY WholeSlots DEF Schedulers, SlotsCrossed
<1>2. SlotsWithBreak(s, e) \subseteq Nat
  BY <1>1 DEF SlotsWithBreak
<1>3. n \in SlotsWithBreak(s, e)
  BY <1>2, LeastOf
<1>4. n \in Nat /\ n > s.slot /\ RulesDue(s.lss, n) # {}
  BY <1>1, <1>3 DEF SlotsWithBreak
<1>5. RulesDue(s.lss, n) \subseteq Rules
  BY DEF RulesDue
<1>6. QED
  BY <1>4, <1>5, LongestOf

\* A started break leaves a well-formed scheduler.
LEMMA PendingType ==
    ASSUME NEW s \in Schedulers PROVE Pending(s) \in Schedulers
BY DEF Pending, Schedulers

\* advance_active returns a scheduler as sound as it was given.
LEMMA AdvanceActiveSound ==
    ASSUME NEW s, SoundScheduler(s), NEW e \in Nat
    PROVE  SoundScheduler(AdvanceActive(s, e))
<1> DEFINE n == Least(SlotsWithBreak(s, e))
           r == Longest(RulesDue(s.lss, n))
<1>1. s \in Schedulers
  BY DEF SoundScheduler
<1>2. CASE ~IsActive(s)
  BY <1>2 DEF AdvanceActive
<1>3. CASE IsActive(s) /\ SlotsWithBreak(s, e) = {}
  <2>1. SlotsCrossed(s, e) \in Nat /\ (s.elapsed + e) % AfterActive \in 0..(AfterActive - 1)
    BY <1>1, WholeSlots DEF Schedulers, SlotsCrossed
  <2>2. AdvanceActive(s, e) = [s EXCEPT !.slot = @ + SlotsCrossed(s, e),
                                        !.elapsed = (@ + e) % AfterActive]
    BY <1>3 DEF AdvanceActive
  <2>3. AdvanceActive(s, e) \in Schedulers
    <3>1. s.slot + SlotsCrossed(s, e) \in Nat /\ (s.elapsed + e) % AfterActive \in Nat
      BY <1>1, <2>1, AfterActiveAssumption DEF Schedulers
    <3>2. QED
      BY <1>1, <2>2, <3>1 DEF Schedulers
  <2>4. /\ AdvanceActive(s, e).slot >= s.slot
        /\ AdvanceActive(s, e).elapsed < AfterActive
        /\ AdvanceActive(s, e).lss = s.lss
    BY <1>1, <2>1, <2>2, AfterActiveAssumption DEF Schedulers
  <2>5. WireValid(AdvanceActive(s, e))
    BY <1>1, <2>3, <2>4 DEF WireValid, SoundScheduler, Schedulers
  <2>6. QED
    BY <2>3, <2>4, <2>5 DEF SoundScheduler
<1>4. CASE IsActive(s) /\ SlotsWithBreak(s, e) # {}
  <2>1. n \in Nat /\ n > s.slot
    BY <1>1, <1>4, FirstBreakSlot
  <2>2. AdvanceActive(s, e) = Pending([s EXCEPT !.slot = n,
                                                !.lss = SatisfyScheduled(s.lss, n, r)])
    BY <1>4 DEF AdvanceActive
  <2> HIDE DEF n, r
  <2>3. /\ SatisfyScheduled(s.lss, n, r) \in [Rules -> Nat]
        /\ \A q \in Rules : SatisfyScheduled(s.lss, n, r)[q] <= n
    BY <2>1 DEF SatisfyScheduled, SoundScheduler, Schedulers, WireValid
  <2>4. AdvanceActive(s, e) \in Schedulers
    <3>1. [s EXCEPT !.slot = n, !.lss = SatisfyScheduled(s.lss, n, r)] \in Schedulers
      BY <1>1, <2>1, <2>3 DEF Schedulers
    <3>2. QED
      BY <2>2, <3>1, PendingType
  <2>5. /\ AdvanceActive(s, e).slot = n
        /\ AdvanceActive(s, e).elapsed = 0
        /\ AdvanceActive(s, e).lss = SatisfyScheduled(s.lss, n, r)
    BY <1>1, <2>2 DEF Schedulers, Pending
  <2>6. WireValid(AdvanceActive(s, e))
    BY <2>3, <2>5 DEF WireValid
  <2>7. QED
    BY <2>4, <2>5, <2>6, AfterActiveAssumption DEF SoundScheduler
<1>5. QED
  BY <1>2, <1>3, <1>4

\* Walking over slots leaves no rule overdue: where no break starts nothing was
\* due, and a break satisfies every rule due along with it.
LEMMA AdvanceActiveInCadence ==
    ASSUME NEW s, SoundScheduler(s), InCadence(s), NEW e \in Nat
    PROVE  InCadence(AdvanceActive(s, e))
<1> DEFINE n == Least(SlotsWithBreak(s, e))
           r == Longest(RulesDue(s.lss, n))
           m == s.slot + SlotsCrossed(s, e)
<1>1. s \in Schedulers
  BY DEF SoundScheduler
<1>2. CASE ~IsActive(s)
  BY <1>2 DEF AdvanceActive
<1>3. CASE IsActive(s) /\ SlotsWithBreak(s, e) = {}
  <2>1. SlotsCrossed(s, e) \in Nat /\ s.slot \in Nat
    BY <1>1, WholeSlots DEF Schedulers, SlotsCrossed
  <2>2. ASSUME NEW q \in Rules PROVE m - s.lss[q] < Interval[q]
    <3>1. s.lss[q] \in Nat /\ Interval[q] \in Nat
      BY <1>1, RulesAssumption DEF Schedulers
    <3>2. CASE SlotsCrossed(s, e) = 0
      BY <2>1, <3>2 DEF InCadence
    <3>3. CASE SlotsCrossed(s, e) # 0
      <4>1. m \in (s.slot + 1)..(s.slot + SlotsCrossed(s, e))
        BY <2>1, <3>3
      <4>2. RulesDue(s.lss, m) = {}
        BY <1>3, <4>1 DEF SlotsWithBreak
      <4>3. ~(m - s.lss[q] >= Interval[q])
        BY <4>2 DEF RulesDue
      <4>4. QED
        BY <2>1, <3>1, <4>3
    <3>4. QED
      BY <3>2, <3>3
  <2>3. AdvanceActive(s, e) = [s EXCEPT !.slot = @ + SlotsCrossed(s, e),
                                        !.elapsed = (@ + e) % AfterActive]
    BY <1>3 DEF AdvanceActive
  <2>4. AdvanceActive(s, e).slot = m /\ AdvanceActive(s, e).lss = s.lss
    BY <1>1, <2>3 DEF Schedulers
  <2>5. QED
    BY <2>2, <2>4 DEF InCadence
<1>4. CASE IsActive(s) /\ SlotsWithBreak(s, e) # {}
  <2>1. /\ n \in Nat /\ n > s.slot
        /\ r \in RulesDue(s.lss, n)
        /\ \A q \in RulesDue(s.lss, n) : Interval[q] <= Interval[r]
    BY <1>1, <1>4, FirstBreakSlot
  <2>2. AdvanceActive(s, e) = Pending([s EXCEPT !.slot = n,
                                                !.lss = SatisfyScheduled(s.lss, n, r)])
    BY <1>4 DEF AdvanceActive
  <2> HIDE DEF n, r
  <2>3. ASSUME NEW q \in Rules
        PROVE  n - SatisfyScheduled(s.lss, n, r)[q] < Interval[q]
    <3>1. s.lss[q] \in Nat /\ Interval[q] \in Nat \ {0}
      BY <1>1, RulesAssumption DEF Schedulers
    <3>2. CASE q \in RulesDue(s.lss, n)
      BY <2>1, <3>1, <3>2 DEF SatisfyScheduled
    <3>3. CASE q \notin RulesDue(s.lss, n)
      BY <2>1, <3>1, <3>3 DEF SatisfyScheduled, RulesDue
    <3>4. QED
      BY <3>2, <3>3
  <2>4. /\ AdvanceActive(s, e).slot = n
        /\ AdvanceActive(s, e).lss = SatisfyScheduled(s.lss, n, r)
    BY <1>1, <2>2 DEF Schedulers, Pending
  <2>5. QED
    BY <2>3, <2>4 DEF InCadence
<1>5. QED
  BY <1>2, <1>3, <1>4

\* The break advance_active returns is one of the schedule.
LEMMA AdvanceActiveBreakType ==
    ASSUME NEW s \in Schedulers, NEW e \in Nat
    PROVE  AdvanceActiveBreak(s, e) \in SUBSET Breaks
<1> DEFINE n == Least(SlotsWithBreak(s, e))
           r == Longest(RulesDue(s.lss, n))
<1>1. CASE SlotsWithBreak(s, e) = {}
  BY <1>1 DEF AdvanceActiveBreak
<1>2. CASE SlotsWithBreak(s, e) # {}
  <2>1. n \in Nat /\ r \in Rules
    BY <1>2, FirstBreakSlot DEF RulesDue
  <2>2. AdvanceActiveBreak(s, e) \in SUBSET {Break(r, Scheduled(n))}
    BY DEF AdvanceActiveBreak, DueBreak
  <2>3. Break(r, Scheduled(n)) \in Breaks
    BY <2>1 DEF Break, Scheduled, Breaks, Origins
  <2>4. QED
    BY <2>2, <2>3
<1>3. QED
  BY <1>1, <1>2

-----------------------------------------------------------------------------
(* The other local operations *)

\* Resets, the end of a break and the two switches preserve both facts.
LEMMA ResetsSound ==
    ASSUME NEW s, SoundScheduler(s)
    PROVE  /\ SoundScheduler(ResetActiveTime(s)) /\ SoundScheduler(ResetPosition(s))
           /\ SoundScheduler(FinishBreak(s)) /\ SoundScheduler(Disable(s))
           /\ SoundScheduler(Enable(s))
<1> USE AfterActiveAssumption DEF SoundScheduler, Schedulers, Modes, WireValid
<1>1. SoundScheduler(ResetActiveTime(s))
  BY DEF ResetActiveTime
<1>2. SoundScheduler(ResetPosition(s))
  <2>1. ResetPosition(s) \in Schedulers
    BY DEF ResetPosition
  <2>2. /\ ResetPosition(s).slot = 0 /\ ResetPosition(s).elapsed = 0
        /\ ResetPosition(s).lss = [r \in Rules |-> 0]
    BY DEF ResetPosition
  <2>3. QED
    BY <2>1, <2>2
<1>3. SoundScheduler(FinishBreak(s))
  <2>1. FinishBreak(s) \in Schedulers
    BY DEF FinishBreak
  <2>2. /\ FinishBreak(s).slot = s.slot /\ FinishBreak(s).lss = s.lss
        /\ FinishBreak(s).elapsed = 0
    BY DEF FinishBreak
  <2>3. QED
    BY <2>1, <2>2
<1>4. SoundScheduler(Disable(s))
  <2>1. Disable(s) \in Schedulers
    BY DEF Disable
  <2>2. Disable(s).slot = s.slot /\ Disable(s).lss = s.lss /\ Disable(s).elapsed = 0
    BY DEF Disable
  <2>3. QED
    BY <2>1, <2>2
<1>5. SoundScheduler(Enable(s))
  BY DEF Enable
<1>6. QED
  BY <1>1, <1>2, <1>3, <1>4, <1>5

\* Resets, the end of a break and disabling make no rule overdue.
LEMMA ResetsInCadence ==
    ASSUME NEW s, SoundScheduler(s), InCadence(s)
    PROVE  /\ InCadence(ResetActiveTime(s)) /\ InCadence(ResetPosition(s))
           /\ InCadence(FinishBreak(s)) /\ InCadence(Disable(s)) /\ InCadence(Enable(s))
BY RulesAssumption
   DEF SoundScheduler, Schedulers, InCadence,
       ResetActiveTime, ResetPosition, FinishBreak, Disable, Enable

\* The satisfied slots after a manual break: no later than the current slot, no
\* earlier than they were.
LEMMA SatisfyManualBounds ==
    ASSUME NEW s, SoundScheduler(s), NEW name
    PROVE  /\ SatisfyManual(s, name) \in [Rules -> Nat]
           /\ \A r \in Rules : /\ SatisfyManual(s, name)[r] <= s.slot
                               /\ SatisfyManual(s, name)[r] >= s.lss[r]
BY DEF SatisfyManual, SoundScheduler, Schedulers, WireValid

\* A break started by hand leaves the scheduler sound.
LEMMA ManualBreakSound ==
    ASSUME NEW s, SoundScheduler(s), NEW name
    PROVE  SoundScheduler(AfterManualBreak(s, name))
<1> DEFINE t == [s EXCEPT !.lss = SatisfyManual(s, name)]
<1>1. s \in Schedulers
  BY DEF SoundScheduler
<1>2. t \in Schedulers /\ WireValid(t)
  BY <1>1, SatisfyManualBounds DEF Schedulers, WireValid
<1>3. Pending(t) \in Schedulers
  BY <1>2, PendingType
<1>4. SoundScheduler(Pending(t))
  <2> HIDE DEF t
  <2>1. Pending(t).slot = t.slot /\ Pending(t).lss = t.lss /\ Pending(t).elapsed = 0
    BY <1>2 DEF Pending, Schedulers
  <2>2. QED
    BY <1>2, <1>3, <2>1, AfterActiveAssumption DEF SoundScheduler, WireValid
<1>5. QED
  BY <1>4 DEF AfterManualBreak

\* A break started by hand makes no rule overdue: slots are only ever satisfied
\* later.
LEMMA ManualBreakInCadence ==
    ASSUME NEW s, SoundScheduler(s), InCadence(s), NEW name
    PROVE  InCadence(AfterManualBreak(s, name))
<1> DEFINE t == Pending([s EXCEPT !.lss = SatisfyManual(s, name)])
<1>1. s \in Schedulers
  BY DEF SoundScheduler
<1>2. t.slot = s.slot /\ t.lss = SatisfyManual(s, name)
  BY <1>1 DEF Schedulers, Pending
<1>3. ASSUME NEW r \in Rules PROVE t.slot - t.lss[r] < Interval[r]
  <2>1. s.slot \in Nat /\ s.lss[r] \in Nat /\ t.lss[r] \in Nat /\ Interval[r] \in Nat
    BY <1>1, <1>2, SatisfyManualBounds, RulesAssumption DEF Schedulers
  <2>2. t.lss[r] >= s.lss[r] /\ s.slot - s.lss[r] < Interval[r]
    BY <1>2, SatisfyManualBounds DEF InCadence
  <2> HIDE DEF t
  <2>3. QED
    BY <1>2, <2>1, <2>2
<1>4. InCadence(t)
  BY <1>3 DEF InCadence
<1>5. QED
  BY <1>4 DEF AfterManualBreak

-----------------------------------------------------------------------------
(* What peers send *)

\* A position whose slots are in order, as the wire validation leaves it.
SoundPosition(p) == p \in Positions /\ WireValid(p) /\ p.elapsed < AfterActive

\* Taking over the origin of a peer's break keeps the scheduler sound: a slot is
\* only ever adopted forwards, and no rule is satisfied beyond it.
LEMMA AdoptOriginSound ==
    ASSUME NEW s, SoundScheduler(s), NEW name, NEW o \in Origins,
           Adoptable(s, name, o)
    PROVE  SoundScheduler(AdoptOrigin(s, name, o))
<1> DEFINE t == AdoptOrigin(s, name, o)
<1>1. s \in Schedulers /\ o.slot \in Nat
  BY DEF SoundScheduler, Origins
<1>2. CASE o.kind = "Manual"
  <2>1. t = [s EXCEPT !.lss = SatisfyManual(s, name)]
    BY <1>2 DEF AdoptOrigin
  <2>2. t \in Schedulers /\ t.lss = SatisfyManual(s, name) /\ t.slot = s.slot
        /\ t.elapsed = s.elapsed
    BY <1>1, <2>1, SatisfyManualBounds DEF Schedulers
  <2>3. QED
    BY <2>2, SatisfyManualBounds DEF SoundScheduler, WireValid
<1>3. CASE o.kind # "Manual"
  <2> DEFINE L == SatisfyScheduled(s.lss, o.slot, name)
  <2>1. o.slot >= s.slot
    BY <1>3 DEF Adoptable, Origins
  <2>2. L \in [Rules -> Nat] /\ \A r \in Rules : L[r] <= o.slot
    BY <1>1, <2>1 DEF SatisfyScheduled, SoundScheduler, Schedulers, WireValid
  <2> HIDE DEF L
  <2>3. t = [s EXCEPT !.slot = o.slot, !.elapsed = 0, !.lss = L]
    BY <1>3 DEF AdoptOrigin, L
  <2> HIDE DEF t
  <2>4. t \in Schedulers
    BY <1>1, <2>2, <2>3 DEF Schedulers
  <2>5. t.lss = L /\ t.slot = o.slot /\ t.elapsed = 0
    BY <1>1, <2>3 DEF Schedulers
  <2>6. SoundScheduler(t)
    BY <2>2, <2>4, <2>5, AfterActiveAssumption DEF SoundScheduler, WireValid
  <2>7. QED
    BY <2>6 DEF t
<1>4. QED
  BY <1>2, <1>3

\* A peer's break, joined or taken in exchange, leaves the scheduler sound.
LEMMA SyncedBreakSound ==
    ASSUME NEW s, SoundScheduler(s), NEW name, NEW o \in Origins
    PROVE  /\ SoundScheduler(AfterSyncedBreak(s, name, o))
           /\ SoundScheduler(AfterReplacement(s, name, o))
<1>1. ASSUME Adoptable(s, name, o) PROVE SoundScheduler(Pending(AdoptOrigin(s, name, o)))
  <2> DEFINE t == AdoptOrigin(s, name, o)
  <2>1. SoundScheduler(t)
    BY <1>1, AdoptOriginSound
  <2> HIDE DEF t
  <2>2. t \in Schedulers /\ Pending(t) \in Schedulers
    BY <2>1, PendingType DEF SoundScheduler
  <2>3. Pending(t).slot = t.slot /\ Pending(t).lss = t.lss /\ Pending(t).elapsed = 0
    BY <2>2 DEF Pending, Schedulers
  <2>4. QED
    BY <2>1, <2>2, <2>3, AfterActiveAssumption DEF SoundScheduler, WireValid, t
<1>2. QED
  BY <1>1, AdoptOriginSound DEF AfterSyncedBreak, StartSyncedBreak, AfterReplacement

\* The break a peer's message starts or substitutes is one of the schedule.
LEMMA SyncedBreakType ==
    ASSUME NEW s, NEW name, NEW o \in Origins
    PROVE  /\ StartSyncedBreak(s, name, o) \in SUBSET Breaks
           /\ ReplacementBreak(s, name, o) \in SUBSET Breaks
BY DEF StartSyncedBreak, ReplacementBreak, Adoptable, Break, Breaks

\* The merged satisfied slots, and the merged scheduler field by field.
LEMMA MergeFields ==
    ASSUME NEW s, SoundScheduler(s), NEW p, SoundPosition(p)
    PROVE  LET t == MergePosition(s, p)
           IN  /\ t \in Schedulers
               /\ t.slot = LaterOf(s.slot, p.slot)
               /\ t.elapsed = IF p.slot > s.slot THEN p.elapsed
                              ELSE IF p.slot = s.slot THEN LaterOf(s.elapsed, p.elapsed)
                              ELSE s.elapsed
               /\ \A r \in Rules : t.lss[r] = LaterOf(s.lss[r], p.lss[r])
               /\ t.phase = s.phase /\ t.mode = s.mode
<1> DEFINE slot == LaterOf(s.slot, p.slot)
           elapsed == IF p.slot > s.slot THEN p.elapsed
                      ELSE IF p.slot = s.slot THEN LaterOf(s.elapsed, p.elapsed)
                      ELSE s.elapsed
           L == [r \in Rules |-> LaterOf(s.lss[r], EarlierOf(p.lss[r], slot))]
<1>1. s \in Schedulers /\ p \in Positions
  BY DEF SoundScheduler, SoundPosition
<1>2. slot \in Nat /\ elapsed \in Nat /\ slot >= p.slot
  BY <1>1 DEF Schedulers, Positions, LaterOf
<1>3. \A r \in Rules : L[r] = LaterOf(s.lss[r], p.lss[r]) /\ L[r] \in Nat
  <2>1. ASSUME NEW r \in Rules
        PROVE  s.lss[r] \in Nat /\ p.lss[r] \in Nat /\ p.lss[r] <= p.slot /\ p.slot \in Nat
    BY <1>1 DEF Schedulers, Positions, SoundPosition, WireValid
  <2> HIDE DEF slot
  <2>2. QED
    BY <1>2, <2>1 DEF LaterOf, EarlierOf
<1>4. L \in [Rules -> Nat]
  BY <1>3
<1>5. MergePosition(s, p) = [s EXCEPT !.slot = slot, !.elapsed = elapsed, !.lss = L]
  BY <1>1 DEF MergePosition, Schedulers
<1> HIDE DEF slot, elapsed, L
<1>6. /\ MergePosition(s, p) \in Schedulers
      /\ MergePosition(s, p).slot = slot /\ MergePosition(s, p).elapsed = elapsed
      /\ MergePosition(s, p).lss = L
      /\ MergePosition(s, p).phase = s.phase /\ MergePosition(s, p).mode = s.mode
  BY <1>1, <1>2, <1>4, <1>5 DEF Schedulers
<1>7. QED
  BY <1>3, <1>6 DEF slot, elapsed

\* A merged position is sound, and no rule is overdue in it unless one was
\* overdue on either side.
LEMMA MergeSound ==
    ASSUME NEW s, SoundScheduler(s), NEW p, SoundPosition(p)
    PROVE  /\ SoundScheduler(MergePosition(s, p))
           /\ InCadence(s) /\ InCadence(p) => InCadence(MergePosition(s, p))
<1> DEFINE t == MergePosition(s, p)
<1>1. /\ t \in Schedulers
      /\ t.slot = LaterOf(s.slot, p.slot)
      /\ t.elapsed = IF p.slot > s.slot THEN p.elapsed
                     ELSE IF p.slot = s.slot THEN LaterOf(s.elapsed, p.elapsed)
                     ELSE s.elapsed
      /\ \A r \in Rules : t.lss[r] = LaterOf(s.lss[r], p.lss[r])
  BY MergeFields
<1> HIDE DEF t
<1>2. s \in Schedulers /\ p \in Positions
  BY DEF SoundScheduler, SoundPosition
<1>3. t.elapsed < AfterActive
  BY <1>1, <1>2, AfterActiveAssumption DEF SoundScheduler, SoundPosition, LaterOf
<1>4. ASSUME NEW r \in Rules
      PROVE  /\ s.lss[r] \in Nat /\ p.lss[r] \in Nat /\ s.slot \in Nat /\ p.slot \in Nat
             /\ Interval[r] \in Nat
             /\ s.lss[r] <= s.slot /\ p.lss[r] <= p.slot
  BY <1>2, RulesAssumption
     DEF Schedulers, Positions, SoundScheduler, SoundPosition, WireValid
<1>5. WireValid(t)
  BY <1>1, <1>4 DEF WireValid, LaterOf
<1>6. ASSUME InCadence(s), InCadence(p) PROVE InCadence(t)
  BY <1>1, <1>4, <1>6 DEF InCadence, LaterOf
<1>7. QED
  BY <1>1, <1>3, <1>5, <1>6 DEF SoundScheduler, t

\* Two schedulers are equal when their fields are.
LEMMA SchedulerEquality ==
    ASSUME NEW s \in Schedulers, NEW t \in Schedulers,
           s.slot = t.slot, s.elapsed = t.elapsed, \A r \in Rules : s.lss[r] = t.lss[r],
           s.phase = t.phase, s.mode = t.mode
    PROVE  s = t
<1>1. s.lss = t.lss
  BY DEF Schedulers
<1>2. QED
  BY <1>1 DEF Schedulers

\* Merging is a join: it does not matter in which order two positions arrive,
\* nor how often one does.  Peers that exchange their positions over connections
\* that lose no frame but order nothing between them end up alike.
THEOREM MergeIsAJoin ==
    ASSUME NEW s, SoundScheduler(s),
           NEW p, SoundPosition(p), NEW q, SoundPosition(q)
    PROVE  /\ MergePosition(MergePosition(s, p), q) = MergePosition(MergePosition(s, q), p)
           /\ MergePosition(MergePosition(s, p), p) = MergePosition(s, p)
<1> DEFINE sp == MergePosition(s, p)
           sq == MergePosition(s, q)
           spq == MergePosition(sp, q)
           sqp == MergePosition(sq, p)
           spp == MergePosition(sp, p)
           Fields(t, u, v) ==
               /\ t \in Schedulers
               /\ t.slot = LaterOf(u.slot, v.slot)
               /\ t.elapsed = IF v.slot > u.slot THEN v.elapsed
                              ELSE IF v.slot = u.slot THEN LaterOf(u.elapsed, v.elapsed)
                              ELSE u.elapsed
               /\ \A r \in Rules : t.lss[r] = LaterOf(u.lss[r], v.lss[r])
               /\ t.phase = u.phase /\ t.mode = u.mode
<1>1. SoundScheduler(sp) /\ SoundScheduler(sq)
  BY MergeSound
<1>2. Fields(sp, s, p) /\ Fields(sq, s, q)
  BY MergeFields
<1> HIDE DEF sp, sq
<1>3. Fields(spq, sp, q) /\ Fields(sqp, sq, p) /\ Fields(spp, sp, p)
  BY <1>1, MergeFields
<1> HIDE DEF spq, sqp, spp
<1>4. /\ s.slot \in Nat /\ p.slot \in Nat /\ q.slot \in Nat
      /\ s.elapsed \in Nat /\ p.elapsed \in Nat /\ q.elapsed \in Nat
  BY DEF SoundScheduler, SoundPosition, Schedulers, Positions
<1>5. \A r \in Rules : s.lss[r] \in Nat /\ p.lss[r] \in Nat /\ q.lss[r] \in Nat
  BY DEF SoundScheduler, SoundPosition, Schedulers, Positions
<1>6. spq = sqp
  <2>1. spq.slot = sqp.slot /\ spq.elapsed = sqp.elapsed
    BY <1>2, <1>3, <1>4 DEF LaterOf
  <2>2. \A r \in Rules : spq.lss[r] = sqp.lss[r]
    BY <1>2, <1>3, <1>5 DEF LaterOf
  <2>3. spq.phase = sqp.phase /\ spq.mode = sqp.mode
    BY <1>2, <1>3
  <2>4. QED
    BY <1>3, <2>1, <2>2, <2>3, SchedulerEquality
<1>7. spp = sp
  <2>1. spp.slot = sp.slot /\ spp.elapsed = sp.elapsed
    BY <1>2, <1>3, <1>4 DEF LaterOf
  <2>2. \A r \in Rules : spp.lss[r] = sp.lss[r]
    BY <1>2, <1>3, <1>5 DEF LaterOf
  <2>3. spp.phase = sp.phase /\ spp.mode = sp.mode
    BY <1>3
  <2>4. QED
    BY <1>2, <1>3, <2>1, <2>2, <2>3, SchedulerEquality
<1>8. QED
  BY <1>6, <1>7 DEF spq, sqp, spp, sp, sq
-----------------------------------------------------------------------------
(* Whole slots of active time *)

\* Dividing active time into slots: what is left over is less than a slot, and
\* time short of k slots makes fewer than k.
LEMMA SlotsOfTime ==
    ASSUME NEW a \in Nat
    PROVE  /\ a = (AfterActive * (a \div AfterActive)) + (a % AfterActive)
           /\ a \div AfterActive \in Nat
           /\ a % AfterActive \in 0..(AfterActive - 1)
           /\ \A k \in Nat : a = AfterActive * k => a \div AfterActive = k
           /\ \A k \in Nat : a < AfterActive * k => a \div AfterActive < k
<1>1. /\ a = (AfterActive * (a \div AfterActive)) + (a % AfterActive)
      /\ a \div AfterActive \in Nat
      /\ a % AfterActive \in 0..(AfterActive - 1)
  BY AfterActiveAssumption
<1>2. ASSUME NEW k \in Nat PROVE (AfterActive * k) \div AfterActive = k
  BY AfterActiveAssumption
<1>3. ASSUME NEW k \in Nat, a < AfterActive * k, k <= a \div AfterActive PROVE FALSE
  <2>1. AfterActive * k <= AfterActive * (a \div AfterActive)
    BY <1>1, <1>3, AfterActiveAssumption
  <2>2. AfterActive * (a \div AfterActive) \in Nat /\ AfterActive * k \in Nat
    BY <1>1, AfterActiveAssumption
  <2>3. QED
    BY <1>1, <1>3, <2>1, <2>2
<1>4. ASSUME NEW k \in Nat, a < AfterActive * k PROVE a \div AfterActive < k
  <2> a \div AfterActive \in Int
    BY <1>1
  <2> QED
    BY <1>3, <1>4
<1>5. QED
  BY <1>1, <1>2, <1>4

-----------------------------------------------------------------------------
(* The announced break *)

\* The slot upcoming_scheduled_break announces: it lies ahead, a rule falls due
\* at it, and at no slot on the way to it.
LEMMA UpcomingSlotIsFirstDue ==
    ASSUME NEW s \in Schedulers
    PROVE  /\ UpcomingSlot(s) \in Nat /\ UpcomingSlot(s) > s.slot
           /\ RulesDue(s.lss, UpcomingSlot(s)) # {}
           /\ \A n \in Nat : s.slot < n /\ n < UpcomingSlot(s) => RulesDue(s.lss, n) = {}
<1> DEFINE U == {NextDueSlot(s, r) : r \in Rules}
<1>1. s.slot \in Nat /\ \A r \in Rules : s.lss[r] \in Nat /\ Interval[r] \in Nat
  BY RulesAssumption DEF Schedulers
<1>2. \A r \in Rules : NextDueSlot(s, r) \in Nat /\ NextDueSlot(s, r) > s.slot
  BY <1>1 DEF NextDueSlot
<1>3. U \subseteq Nat /\ U # {}
  BY <1>2, RulesAssumption
<1>4. Least(U) \in U /\ \A m \in U : Least(U) <= m
  <2> HIDE DEF U
  <2> QED
    BY <1>3, LeastOf
<1>5. PICK r \in Rules : UpcomingSlot(s) = NextDueSlot(s, r)
  BY <1>4 DEF UpcomingSlot
<1>6. UpcomingSlot(s) \in Nat /\ UpcomingSlot(s) > s.slot
  BY <1>2, <1>5
<1>7. r \in RulesDue(s.lss, UpcomingSlot(s))
  BY <1>1, <1>5 DEF RulesDue, NextDueSlot
<1>8. ASSUME NEW n \in Nat, s.slot < n, n < UpcomingSlot(s), NEW q \in RulesDue(s.lss, n)
      PROVE  FALSE
  <2>1. q \in Rules /\ n - s.lss[q] >= Interval[q]
    BY <1>8 DEF RulesDue
  <2>2. NextDueSlot(s, q) <= n
    BY <1>1, <1>8, <2>1 DEF NextDueSlot
  <2>3. UpcomingSlot(s) <= NextDueSlot(s, q)
    BY <1>4, <2>1 DEF UpcomingSlot
  <2>4. QED
    BY <1>2, <1>6, <1>8, <2>1, <2>2, <2>3
<1>9. QED
  BY <1>6, <1>7, <1>8

\* The walk of advance_active first meets a break at the announced slot, or,
\* when it does not get that far, meets none.
LEMMA WalkMeetsUpcoming ==
    ASSUME NEW s \in Schedulers, NEW e \in Nat
    PROVE  IF UpcomingSlot(s) <= s.slot + SlotsCrossed(s, e)
           THEN SlotsWithBreak(s, e) # {} /\ Least(SlotsWithBreak(s, e)) = UpcomingSlot(s)
           ELSE SlotsWithBreak(s, e) = {}
<1> DEFINE u == UpcomingSlot(s)
           W == SlotsWithBreak(s, e)
<1>1. /\ u \in Nat /\ u > s.slot /\ RulesDue(s.lss, u) # {}
      /\ \A n \in Nat : s.slot < n /\ n < u => RulesDue(s.lss, n) = {}
  BY UpcomingSlotIsFirstDue
<1>2. s.slot \in Nat /\ SlotsCrossed(s, e) \in Nat
  BY SlotsOfTime DEF Schedulers, SlotsCrossed
<1> HIDE DEF u
<1>3. W \subseteq Nat /\ \A n \in W : n >= u
  BY <1>1, <1>2 DEF SlotsWithBreak
<1>4. CASE u <= s.slot + SlotsCrossed(s, e)
  <2>1. u \in W
    BY <1>1, <1>2, <1>4 DEF SlotsWithBreak
  <2> HIDE DEF W
  <2>2. Least(W) \in W /\ Least(W) <= u
    BY <1>3, <2>1, LeastOf
  <2>3. Least(W) = u
    <3>1. Least(W) \in Nat /\ Least(W) >= u
      BY <1>3, <2>2
    <3>2. QED
      BY <1>1, <2>2, <3>1
  <2>4. QED
    BY <1>4, <2>1, <2>3 DEF W, u
<1>5. CASE ~(u <= s.slot + SlotsCrossed(s, e))
  <2>1. \A n \in W : n \in Nat /\ n >= u /\ n <= s.slot + SlotsCrossed(s, e)
    BY <1>2, <1>3 DEF SlotsWithBreak
  <2> HIDE DEF W
  <2>2. W = {}
    BY <1>1, <1>2, <1>5, <2>1
  <2>3. QED
    BY <1>5, <2>2 DEF W, u
<1>6. QED
  BY <1>4, <1>5

\* The active time until the announced break ends exactly at its slot.
LEMMA StartsAfterReachesUpcoming ==
    ASSUME NEW s, SoundScheduler(s)
    PROVE  /\ StartsAfter(s) \in Nat \ {0}
           /\ s.slot + SlotsCrossed(s, StartsAfter(s)) = UpcomingSlot(s)
           /\ \A e \in Nat : e < StartsAfter(s) =>
                  s.slot + SlotsCrossed(s, e) < UpcomingSlot(s)
<1> DEFINE k == UpcomingSlot(s) - s.slot
           A == AfterActive * k
<1>1. s \in Schedulers /\ s.slot \in Nat /\ s.elapsed \in Nat /\ s.elapsed < AfterActive
  BY DEF SoundScheduler, Schedulers
<1>2. UpcomingSlot(s) \in Nat /\ UpcomingSlot(s) > s.slot
  BY <1>1, UpcomingSlotIsFirstDue
<1>3. k \in Nat \ {0} /\ UpcomingSlot(s) = s.slot + k
  BY <1>1, <1>2
<1> HIDE DEF k
<1>4. A \in Nat /\ A >= AfterActive /\ AfterActive * (k - 1) = A - AfterActive
  BY <1>3, AfterActiveAssumption
<1>5. StartsAfter(s) = A - s.elapsed
  <2>1. UpcomingSlot(s) - s.slot - 1 = k - 1
    BY <1>1, <1>3
  <2>2. StartsAfter(s) = (AfterActive - s.elapsed) + AfterActive * (k - 1)
    BY <1>1, <2>1 DEF StartsAfter
  <2> HIDE DEF A
  <2>3. QED
    BY <1>1, <1>4, <2>2, AfterActiveAssumption
<1>6. StartsAfter(s) \in Nat \ {0}
  <2> HIDE DEF A
  <2> QED
    BY <1>1, <1>4, <1>5, AfterActiveAssumption
<1>7. SlotsCrossed(s, StartsAfter(s)) = k
  <2>1. s.elapsed + StartsAfter(s) = AfterActive * k
    BY <1>1, <1>4, <1>5
  <2>2. s.elapsed + StartsAfter(s) \in Nat
    BY <1>1, <1>6
  <2>3. QED
    BY <1>3, <2>1, <2>2, SlotsOfTime DEF SlotsCrossed
<1>8. ASSUME NEW e \in Nat, e < StartsAfter(s) PROVE SlotsCrossed(s, e) \in Nat /\ SlotsCrossed(s, e) < k
  <2>1. s.elapsed + e < AfterActive * k /\ s.elapsed + e \in Nat
    BY <1>1, <1>4, <1>5, <1>8
  <2>2. QED
    BY <1>3, <2>1, SlotsOfTime DEF SlotsCrossed
<1>9. QED
  BY <1>1, <1>3, <1>6, <1>7, <1>8

\* What is announced is a scheduled break of the announced slot.
LEMMA UpcomingBreak ==
    ASSUME NEW s \in Schedulers, IsActive(s)
    PROVE  LET r == Longest(RulesDue(s.lss, UpcomingSlot(s)))
           IN  /\ r \in Rules
               /\ Upcoming(s) = {Break(r, Scheduled(UpcomingSlot(s)))}
<1>1. RulesDue(s.lss, UpcomingSlot(s)) # {} /\ RulesDue(s.lss, UpcomingSlot(s)) \subseteq Rules
  BY UpcomingSlotIsFirstDue DEF RulesDue
<1>2. QED
  BY <1>1, LongestOf DEF Upcoming, DueBreak

\* upcoming_scheduled_break and advance_active agree on the break and on when.
LEMMA AnnouncedStarts ==
    ASSUME NEW s, SoundScheduler(s), IsActive(s)
    PROVE  /\ AdvanceActiveBreak(s, StartsAfter(s)) = Upcoming(s)
           /\ Upcoming(s) # {}
           /\ \A e \in Nat : e < StartsAfter(s) => AdvanceActiveBreak(s, e) = {}
<1>1. s \in Schedulers
  BY DEF SoundScheduler
<1>2. StartsAfter(s) \in Nat /\ UpcomingSlot(s) \in Nat
  BY <1>1, StartsAfterReachesUpcoming, UpcomingSlotIsFirstDue
<1>3. AdvanceActiveBreak(s, StartsAfter(s)) = Upcoming(s)
  <2>1. UpcomingSlot(s) <= s.slot + SlotsCrossed(s, StartsAfter(s))
    BY <1>2, StartsAfterReachesUpcoming
  <2>2. /\ SlotsWithBreak(s, StartsAfter(s)) # {}
        /\ Least(SlotsWithBreak(s, StartsAfter(s))) = UpcomingSlot(s)
    BY <1>1, <1>2, <2>1, WalkMeetsUpcoming
  <2>3. QED
    BY <2>2 DEF AdvanceActiveBreak, Upcoming
<1>4. Upcoming(s) # {}
  BY <1>1, UpcomingBreak
<1>5. ASSUME NEW e \in Nat, e < StartsAfter(s) PROVE AdvanceActiveBreak(s, e) = {}
  <2>1. s.slot \in Nat /\ SlotsCrossed(s, e) \in Nat
    BY <1>1, SlotsOfTime DEF Schedulers, SlotsCrossed
  <2>2. ~(UpcomingSlot(s) <= s.slot + SlotsCrossed(s, e))
    BY <1>2, <1>5, <2>1, StartsAfterReachesUpcoming
  <2>3. SlotsWithBreak(s, e) = {}
    BY <1>1, <2>2, WalkMeetsUpcoming
  <2>4. QED
    BY <2>3 DEF AdvanceActiveBreak
<1>6. QED
  BY <1>3, <1>4, <1>5

-----------------------------------------------------------------------------
(* Forwards and backwards *)

\* advance_active, field by field, when no break is met on the way.
LEMMA AdvanceActiveQuietly ==
    ASSUME NEW s \in Schedulers, NEW e \in Nat,
           IsActive(s), SlotsWithBreak(s, e) = {}
    PROVE  LET t == AdvanceActive(s, e)
           IN  /\ t.slot = s.slot + SlotsCrossed(s, e)
               /\ t.elapsed = (s.elapsed + e) % AfterActive
               /\ t.lss = s.lss /\ t.phase = s.phase /\ t.mode = s.mode
               /\ AdvanceActiveBreak(s, e) = {}
BY DEF AdvanceActive, AdvanceActiveBreak, Schedulers

\* advance_active, field by field, when one is.
LEMMA AdvanceActiveToBreak ==
    ASSUME NEW s \in Schedulers, NEW e \in Nat,
           IsActive(s), SlotsWithBreak(s, e) # {}
    PROVE  LET t == AdvanceActive(s, e)
               n == Least(SlotsWithBreak(s, e))
               r == Longest(RulesDue(s.lss, n))
           IN  /\ t.slot = n /\ t.elapsed = 0
               /\ t.lss = SatisfyScheduled(s.lss, n, r)
               /\ t.phase = "Pending" /\ t.mode = s.mode
               /\ AdvanceActiveBreak(s, e) = {Break(r, Scheduled(n))}
<1> DEFINE n == Least(SlotsWithBreak(s, e))
           r == Longest(RulesDue(s.lss, n))
           t == [s EXCEPT !.slot = n, !.lss = SatisfyScheduled(s.lss, n, r)]
<1>1. RulesDue(s.lss, n) # {}
  BY FirstBreakSlot
<1>2. AdvanceActiveBreak(s, e) = {Break(r, Scheduled(n))}
  BY <1>1 DEF AdvanceActiveBreak, DueBreak
<1>3. AdvanceActive(s, e) = Pending(t)
  BY DEF AdvanceActive
<1> HIDE DEF n, r
<1>4. /\ Pending(t).slot = n /\ Pending(t).elapsed = 0
      /\ Pending(t).lss = SatisfyScheduled(s.lss, n, r)
      /\ Pending(t).phase = "Pending" /\ Pending(t).mode = s.mode
  BY DEF Pending, Schedulers
<1>5. QED
  BY <1>2, <1>3, <1>4 DEF n, r

\* t is no further back than s: not its slot, and no rule satisfied earlier.
Forward(s, t) == t.slot >= s.slot /\ \A r \in Rules : t.lss[r] >= s.lss[r]

\* A break satisfies rules at its own slot, which lies ahead of all those at
\* which they were satisfied before.
LEMMA SatisfyScheduledForward ==
    ASSUME NEW s, SoundScheduler(s), NEW n \in Nat, n >= s.slot, NEW name
    PROVE  \A r \in Rules : SatisfyScheduled(s.lss, n, name)[r] >= s.lss[r]
<1>1. \A r \in Rules : s.lss[r] \in Nat /\ s.lss[r] <= s.slot /\ s.slot \in Nat
  BY DEF SoundScheduler, Schedulers, WireValid
<1>2. QED
  BY <1>1 DEF SatisfyScheduled

\* Active time leads forwards only.
LEMMA AdvanceActiveForward ==
    ASSUME NEW s, SoundScheduler(s), NEW e \in Nat
    PROVE  Forward(s, AdvanceActive(s, e))
<1> DEFINE n == Least(SlotsWithBreak(s, e))
           r == Longest(RulesDue(s.lss, n))
           t == AdvanceActive(s, e)
<1>1. s \in Schedulers /\ s.slot \in Nat /\ \A q \in Rules : s.lss[q] \in Nat
  BY DEF SoundScheduler, Schedulers
<1>2. CASE ~IsActive(s)
  BY <1>1, <1>2 DEF AdvanceActive, Forward
<1>3. CASE IsActive(s) /\ SlotsWithBreak(s, e) = {}
  <2>1. SlotsCrossed(s, e) \in Nat
    BY <1>1, SlotsOfTime DEF Schedulers, SlotsCrossed
  <2>2. t.slot = s.slot + SlotsCrossed(s, e) /\ t.lss = s.lss
    BY <1>1, <1>3, AdvanceActiveQuietly
  <2> HIDE DEF t
  <2>3. Forward(s, t)
    BY <1>1, <2>1, <2>2 DEF Forward
  <2>4. QED
    BY <2>3 DEF t
<1>4. CASE IsActive(s) /\ SlotsWithBreak(s, e) # {}
  <2>1. n \in Nat /\ n > s.slot
    BY <1>1, <1>4, FirstBreakSlot
  <2>2. t.slot = n /\ t.lss = SatisfyScheduled(s.lss, n, r)
    BY <1>1, <1>4, AdvanceActiveToBreak
  <2> HIDE DEF t, n, r
  <2>3. Forward(s, t)
    BY <1>1, <2>1, <2>2, SatisfyScheduledForward DEF Forward
  <2>4. QED
    BY <2>3 DEF t
<1>5. QED
  BY <1>2, <1>3, <1>4

\* So do all other operations but the reset of the position: those of the user,
\* the end of a break, and what a peer sends.
LEMMA OthersForward ==
    ASSUME NEW s, SoundScheduler(s)
    PROVE  /\ Forward(s, ResetActiveTime(s)) /\ Forward(s, FinishBreak(s))
           /\ Forward(s, Disable(s)) /\ Forward(s, Enable(s))
           /\ \A name : Forward(s, AfterManualBreak(s, name))
           /\ \A name : \A o \in Origins :
                  /\ Forward(s, AfterSyncedBreak(s, name, o))
                  /\ Forward(s, AfterReplacement(s, name, o))
           /\ \A p : SoundPosition(p) => Forward(s, MergePosition(s, p))
<1>1. /\ s \in Schedulers /\ s.slot \in Nat
      /\ \A r \in Rules : s.lss[r] \in Nat /\ s.lss[r] <= s.slot
  BY DEF SoundScheduler, Schedulers, WireValid
<1>2. Forward(s, s)
  BY <1>1 DEF Forward
<1>3. /\ Forward(s, ResetActiveTime(s)) /\ Forward(s, FinishBreak(s))
      /\ Forward(s, Disable(s)) /\ Forward(s, Enable(s))
  BY <1>1 DEF Forward, ResetActiveTime, FinishBreak, Disable, Enable, Schedulers
<1>4. ASSUME NEW name PROVE Forward(s, AfterManualBreak(s, name))
  <2> DEFINE t == Pending([s EXCEPT !.lss = SatisfyManual(s, name)])
  <2>1. t.slot = s.slot /\ t.lss = SatisfyManual(s, name)
    BY <1>1 DEF Pending, Schedulers
  <2> HIDE DEF t
  <2>2. Forward(s, t)
    BY <1>1, <2>1, SatisfyManualBounds DEF Forward
  <2>3. QED
    BY <1>2, <2>2 DEF AfterManualBreak, t
<1>5. ASSUME NEW name, NEW o \in Origins, Adoptable(s, name, o)
      PROVE  /\ Forward(s, AdoptOrigin(s, name, o))
             /\ Forward(s, Pending(AdoptOrigin(s, name, o)))
  <2> DEFINE t == AdoptOrigin(s, name, o)
  <2>1. SoundScheduler(t)
    BY <1>5, AdoptOriginSound
  <2>2. Forward(s, t)
    <3>1. CASE o.kind = "Manual"
      <4>1. t.slot = s.slot /\ t.lss = SatisfyManual(s, name)
        BY <1>1, <3>1 DEF AdoptOrigin, Schedulers
      <4> HIDE DEF t
      <4>2. QED
        BY <1>1, <4>1, SatisfyManualBounds DEF Forward
    <3>2. CASE o.kind # "Manual"
      <4>1. o.slot \in Nat /\ o.slot >= s.slot
        BY <1>5, <3>2 DEF Adoptable, Origins
      <4>2. t.slot = o.slot /\ t.lss = SatisfyScheduled(s.lss, o.slot, name)
        BY <1>1, <3>2 DEF AdoptOrigin, Schedulers
      <4> HIDE DEF t
      <4>3. QED
        BY <4>1, <4>2, SatisfyScheduledForward DEF Forward
    <3>3. QED
      BY <3>1, <3>2
  <2> HIDE DEF t
  <2>3. Pending(t).slot = t.slot /\ Pending(t).lss = t.lss
    BY <2>1 DEF SoundScheduler, Schedulers, Pending
  <2>4. QED
    BY <2>2, <2>3 DEF Forward, t
<1>6. ASSUME NEW name, NEW o \in Origins
      PROVE  /\ Forward(s, AfterSyncedBreak(s, name, o))
             /\ Forward(s, AfterReplacement(s, name, o))
  BY <1>2, <1>5 DEF AfterSyncedBreak, StartSyncedBreak, AfterReplacement
<1>7. ASSUME NEW p, SoundPosition(p) PROVE Forward(s, MergePosition(s, p))
  <2> DEFINE t == MergePosition(s, p)
  <2>1. /\ t.slot = LaterOf(s.slot, p.slot)
        /\ \A r \in Rules : t.lss[r] = LaterOf(s.lss[r], p.lss[r])
    BY <1>7, MergeFields
  <2>2. p.slot \in Nat /\ \A r \in Rules : p.lss[r] \in Nat
    BY <1>7 DEF SoundPosition, Positions
  <2> HIDE DEF t
  <2>3. Forward(s, t)
    BY <1>1, <2>1, <2>2 DEF Forward, LaterOf
  <2>4. QED
    BY <2>3 DEF t
<1>8. QED
  BY <1>3, <1>4, <1>6, <1>7

-----------------------------------------------------------------------------
(* Ages *)

\* The slots that have passed since each rule was last satisfied.
Age(s) == [r \in Rules |-> s.slot - s.lss[r]]

\* In a sound scheduler in cadence every age is short of its interval.
LEMMA AgeBounds ==
    ASSUME NEW s, SoundScheduler(s), InCadence(s)
    PROVE  \A r \in Rules : /\ Interval[r] \in Nat \ {0}
                            /\ s.slot \in Nat /\ s.lss[r] \in Nat
                            /\ Age(s)[r] = s.slot - s.lss[r]
                            /\ Age(s)[r] \in 0..(Interval[r] - 1)
BY RulesAssumption DEF SoundScheduler, Schedulers, WireValid, InCadence, Age

\* The break at which a walk stops finds some rule of exactly its interval's age
\* and no rule older, and takes those rules, and only those, back to age zero.
LEMMA BreakResetsAges ==
    ASSUME NEW s, SoundScheduler(s), InCadence(s), NEW e \in Nat,
           IsActive(s), SlotsWithBreak(s, e) # {}
    PROVE  LET k == Least(SlotsWithBreak(s, e)) - s.slot
           IN  /\ k \in Nat \ {0}
               /\ \A r \in Rules : Age(s)[r] + k <= Interval[r]
               /\ \E r \in Rules : Age(s)[r] + k = Interval[r]
               /\ Age(AdvanceActive(s, e)) =
                      [r \in Rules |-> IF Age(s)[r] + k = Interval[r] THEN 0
                                       ELSE Age(s)[r] + k]
<1> DEFINE W == SlotsWithBreak(s, e)
           n == Least(W)
           l == Longest(RulesDue(s.lss, n))
           k == n - s.slot
           t == AdvanceActive(s, e)
<1>1. s \in Schedulers
  BY DEF SoundScheduler
<1>2. /\ n \in Nat /\ n > s.slot /\ l \in RulesDue(s.lss, n)
      /\ \A q \in RulesDue(s.lss, n) : Interval[q] <= Interval[l]
  BY <1>1, FirstBreakSlot
<1>3. s.slot \in Nat /\ SlotsCrossed(s, e) \in Nat
  BY <1>1, SlotsOfTime DEF Schedulers, SlotsCrossed
<1>4. W \subseteq Nat /\ n \in W /\ (\A m \in W : n <= m)
  <2>1. W \subseteq Nat
    BY <1>3 DEF SlotsWithBreak
  <2> HIDE DEF W
  <2>2. W # {}
    BY DEF W
  <2>3. QED
    BY <2>1, <2>2, LeastOf
<1>5. n <= s.slot + SlotsCrossed(s, e)
  BY <1>3, <1>4 DEF SlotsWithBreak
<1>6. t.slot = n /\ t.lss = SatisfyScheduled(s.lss, n, l)
  BY <1>1, AdvanceActiveToBreak
<1>7. ASSUME NEW r \in Rules PROVE n - s.lss[r] <= Interval[r]
  <2>1. /\ s.lss[r] \in Nat /\ Interval[r] \in Nat
        /\ s.slot - s.lss[r] < Interval[r]
    BY <1>1, RulesAssumption DEF Schedulers, InCadence
  <2>2. CASE n - 1 = s.slot
    <3> HIDE DEF n
    <3> QED
      BY <1>2, <1>3, <2>1, <2>2
  <2>3. CASE n - 1 # s.slot
    <3>1. n - 1 \in (s.slot + 1)..(s.slot + SlotsCrossed(s, e))
      <4> HIDE DEF n
      <4> QED
        BY <1>2, <1>3, <1>5, <2>3
    <3>2. n - 1 \notin W
      <4> HIDE DEF W
      <4> SUFFICES ASSUME n - 1 \in W PROVE FALSE
        OBVIOUS
      <4>1. n <= n - 1
        BY <1>4
      <4> HIDE DEF n
      <4>2. QED
        BY <1>2, <4>1
    <3>3. RulesDue(s.lss, n - 1) = {}
      BY <3>1, <3>2 DEF SlotsWithBreak
    <3>4. ~(n - 1 - s.lss[r] >= Interval[r])
      BY <3>3 DEF RulesDue
    <3> HIDE DEF n
    <3>5. QED
      BY <1>2, <2>1, <3>4
  <2>4. QED
    BY <2>2, <2>3
<1> HIDE DEF n, l, W
<1>8. \A r \in Rules : /\ Interval[r] \in Nat \ {0} /\ s.lss[r] \in Nat
                       /\ Age(s)[r] = s.slot - s.lss[r]
  BY AgeBounds
<1>9. k \in Nat \ {0} /\ \A r \in Rules : Age(s)[r] + k = n - s.lss[r]
  BY <1>2, <1>3, <1>8
<1>10. \A r \in Rules : r \in RulesDue(s.lss, n) <=> n - s.lss[r] = Interval[r]
  BY <1>2, <1>7, <1>8 DEF RulesDue
<1>11. l \in Rules
  BY <1>2 DEF RulesDue
<1>12. \A r \in Rules : t.slot - t.lss[r] =
                            IF n - s.lss[r] = Interval[r] THEN 0 ELSE n - s.lss[r]
  <2> HIDE DEF t
  <2>1. ASSUME NEW r \in Rules, r \in RulesDue(s.lss, n) PROVE t.lss[r] = n
    BY <1>2, <1>6, <2>1 DEF SatisfyScheduled
  <2>2. ASSUME NEW r \in Rules, r \notin RulesDue(s.lss, n) PROVE t.lss[r] = s.lss[r]
    BY <1>6, <2>2 DEF SatisfyScheduled
  <2>3. QED
    BY <1>2, <1>6, <1>10, <2>1, <2>2
<1> HIDE DEF t, k
<1>13. Age(t) = [r \in Rules |-> IF Age(s)[r] + k = Interval[r] THEN 0 ELSE Age(s)[r] + k]
  BY <1>9, <1>12 DEF Age
<1>14. /\ \A r \in Rules : Age(s)[r] + k <= Interval[r]
       /\ \E r \in Rules : Age(s)[r] + k = Interval[r]
  BY <1>2, <1>7, <1>9, <1>10, <1>11
<1>15. QED
  BY <1>9, <1>13, <1>14 DEF t, k, n, W

\* A walk that meets no break ages every rule by the slots it crosses, none of
\* them to its interval.
LEMMA SlotsAge ==
    ASSUME NEW s, SoundScheduler(s), InCadence(s), NEW e \in Nat,
           IsActive(s), SlotsWithBreak(s, e) = {}
    PROVE  /\ SlotsCrossed(s, e) \in Nat
           /\ \A r \in Rules : Age(s)[r] + SlotsCrossed(s, e) < Interval[r]
           /\ Age(AdvanceActive(s, e)) = [r \in Rules |-> Age(s)[r] + SlotsCrossed(s, e)]
<1> DEFINE t == AdvanceActive(s, e)
           k == SlotsCrossed(s, e)
<1>1. s \in Schedulers
  BY DEF SoundScheduler
<1>2. k \in Nat
  BY <1>1, SlotsOfTime DEF Schedulers, SlotsCrossed
<1>3. t.slot = s.slot + k /\ t.lss = s.lss
  BY <1>1, AdvanceActiveQuietly
<1>4. InCadence(t)
  BY AdvanceActiveInCadence
<1>5. \A r \in Rules : /\ Age(s)[r] = s.slot - s.lss[r] /\ Interval[r] \in Nat
                       /\ s.slot \in Nat /\ s.lss[r] \in Nat
  BY AgeBounds
<1> HIDE DEF t, k
<1>6. \A r \in Rules : t.slot - t.lss[r] = Age(s)[r] + k
  BY <1>2, <1>3, <1>5
<1>7. \A r \in Rules : Age(s)[r] + k < Interval[r]
  BY <1>4, <1>6 DEF InCadence
<1>8. Age(t) = [r \in Rules |-> Age(s)[r] + k]
  BY <1>6 DEF Age
<1>9. QED
  BY <1>2, <1>7, <1>8 DEF t, k

\* A break by hand takes its own rule and the more frequent ones back to age
\* zero and leaves the others their age; the reset of the position takes all.
LEMMA OthersAge ==
    ASSUME NEW s, SoundScheduler(s), InCadence(s)
    PROVE  /\ Age(ResetPosition(s)) = [r \in Rules |-> 0]
           /\ Age(ResetActiveTime(s)) = Age(s) /\ Age(FinishBreak(s)) = Age(s)
           /\ Age(Disable(s)) = Age(s) /\ Age(Enable(s)) = Age(s)
           /\ \A name : StartManualBreak(s, name) # {} =>
                  Age(AfterManualBreak(s, name)) =
                      [r \in Rules |-> IF Interval[r] <= Interval[name] THEN 0
                                       ELSE Age(s)[r]]
<1>1. s \in Schedulers /\ s.slot \in Nat
  BY DEF SoundScheduler, Schedulers
<1>2. Age(ResetPosition(s)) = [r \in Rules |-> 0]
  BY <1>1 DEF Age, ResetPosition, Schedulers
<1>3. /\ Age(ResetActiveTime(s)) = Age(s) /\ Age(FinishBreak(s)) = Age(s)
      /\ Age(Disable(s)) = Age(s) /\ Age(Enable(s)) = Age(s)
  BY <1>1 DEF Age, ResetActiveTime, FinishBreak, Disable, Enable, Schedulers
<1>4. ASSUME NEW name, StartManualBreak(s, name) # {}
      PROVE  Age(AfterManualBreak(s, name)) =
                 [r \in Rules |-> IF Interval[r] <= Interval[name] THEN 0 ELSE Age(s)[r]]
  <2> DEFINE t == Pending([s EXCEPT !.lss = SatisfyManual(s, name)])
  <2>1. t.slot = s.slot /\ t.lss = SatisfyManual(s, name)
    BY <1>1 DEF Pending, Schedulers
  <2>2. AfterManualBreak(s, name) = t
    BY <1>4 DEF AfterManualBreak
  <2> HIDE DEF t
  <2>3. ASSUME NEW r \in Rules
        PROVE  t.slot - t.lss[r] = IF Interval[r] <= Interval[name] THEN 0 ELSE Age(s)[r]
    BY <1>1, <2>1 DEF SatisfyManual, Age
  <2>4. QED
    BY <2>2, <2>3 DEF Age
<1>5. QED
  BY <1>2, <1>3, <1>4

-----------------------------------------------------------------------------
(* The handlers of the daemon runtime *)

DaemonFields ==
    {"sched", "disable", "seen", "budget", "idleTime", "idleCount", "current", "notice",
     "status", "avail", "rejected", "self", "now", "up", "running", "cmds", "sent"}

\* The records of a break and of being disabled agree, whatever is displayed.
Agreed(d) ==
    /\ DOMAIN d = DaemonFields
    /\ SoundScheduler(d.sched)
    /\ d.current # {} <=> d.sched.phase = "Pending"
    /\ \A b, c \in d.current : b = c
    /\ d.disable.kind = "Enabled" <=> d.sched.mode = "Active"
    /\ d.budget \in Nat /\ d.now \in Int

\* While a break is counted down to, the status on display names it and promises
\* it no later than it comes.
StatusRight(d) ==
    IsActive(d.sched) =>
        \A b \in Upcoming(d.sched) : \E t \in d.status :
            /\ t.kind = "Upcoming" /\ t.name = b.name
            /\ t.after \in Nat /\ t.after <= StartsAfter(d.sched)

\* The inductive invariant: what is displayed is right as well.
Coherent(d) == Agreed(d) /\ d.avail = Availability(d.sched) /\ StatusRight(d)

\* f is a daemon like d as far as the invariant goes.
Alike(d, f) ==
    /\ DOMAIN f = DaemonFields
    /\ f.sched = d.sched /\ f.disable = d.disable /\ f.current = d.current
    /\ f.avail = d.avail /\ f.budget = d.budget /\ f.now = d.now
    /\ f.status = d.status

-----------------------------------------------------------------------------
(* Steps the handlers are made of *)

\* Commands, sync events and notifications touch none of it.
LEMMA OutputsAlike ==
    ASSUME NEW d, DOMAIN d = DaemonFields
    PROVE  /\ \A c : Alike(d, Command(d, c))
           /\ \A e, to : Alike(d, Send(d, e, to))
           /\ \A b, e : Alike(d, BroadcastIf(d, b, e))
           /\ Alike(d, ClearNotice(d))
           /\ Alike(d, NotifyUpcoming(d))
<1>1. \A c : Alike(d, Command(d, c))
  BY DEF Alike, Command, DaemonFields
<1>2. \A e, to : Alike(d, Send(d, e, to))
  BY DEF Alike, Send, DaemonFields
<1>3. \A b, e : Alike(d, BroadcastIf(d, b, e))
  BY <1>2 DEF BroadcastIf, Alike
<1>4. Alike(d, ClearNotice(d))
  BY DEF Alike, ClearNotice, DaemonFields
<1>5. Alike(d, NotifyUpcoming(d))
  BY DEF Alike, NotifyUpcoming, DaemonFields
<1>6. QED
  BY <1>1, <1>2, <1>3, <1>4, <1>5

\* Being alike carries over.
LEMMA AlikeCoherent ==
    ASSUME NEW d, NEW f, Alike(d, f)
    PROVE  /\ Agreed(d) => Agreed(f)
           /\ Coherent(d) => Coherent(f)
           /\ \A g : Alike(f, g) => Alike(d, g)
BY DEF Alike, Agreed, Coherent, StatusRight

\* Output keeps a daemon coherent.
LEMMA OutputsCoherent ==
    ASSUME NEW d, Coherent(d)
    PROVE  /\ \A c : Coherent(Command(d, c))
           /\ \A e, to : Coherent(Send(d, e, to))
           /\ \A b, e : Coherent(BroadcastIf(d, b, e))
           /\ Coherent(ClearNotice(d))
           /\ Coherent(NotifyUpcoming(d))
<1>1. DOMAIN d = DaemonFields
  BY DEF Coherent, Agreed
<1>2. \A f : Alike(d, f) => Coherent(f)
  BY AlikeCoherent
<1>3. QED
  BY <1>1, <1>2, OutputsAlike

\* update_status_display makes the availability right and changes nothing else.
LEMMA UpdateStatusShows ==
    ASSUME NEW d, DOMAIN d = DaemonFields
    PROVE  LET f == UpdateStatus(d)
           IN  /\ DOMAIN f = DaemonFields
               /\ f.sched = d.sched /\ f.disable = d.disable /\ f.current = d.current
               /\ f.budget = d.budget /\ f.now = d.now
               /\ f.avail = Availability(d.sched)
               /\ f.status = IF CurrentStatus(d) = {} THEN d.status ELSE CurrentStatus(d)
               /\ Agreed(d) => Coherent(f)
<1> DEFINE f == UpdateStatus(d)
<1>1. /\ DOMAIN f = DaemonFields
      /\ f.sched = d.sched /\ f.disable = d.disable /\ f.current = d.current
      /\ f.budget = d.budget /\ f.now = d.now
      /\ f.avail = Availability(d.sched)
      /\ f.status = IF CurrentStatus(d) = {} THEN d.status ELSE CurrentStatus(d)
  BY DEF UpdateStatus, DaemonFields
<1> HIDE DEF f
<1>2. ASSUME Agreed(d), IsActive(d.sched), NEW b \in Upcoming(d.sched)
      PROVE  \E t \in f.status : /\ t.kind = "Upcoming" /\ t.name = b.name
                                 /\ t.after \in Nat /\ t.after <= StartsAfter(d.sched)
  <2> DEFINE t == [kind |-> "Upcoming", name |-> b.name, after |-> StartsAfter(d.sched)]
  <2>1. d.disable.kind = "Enabled"
    BY <1>2 DEF Agreed, IsActive
  <2>2. t \in CurrentStatus(d)
    BY <2>1 DEF CurrentStatus
  <2>3. t \in f.status
    BY <1>1, <2>2
  <2>4. StartsAfter(d.sched) \in Nat
    BY <1>2, StartsAfterReachesUpcoming DEF Agreed
  <2>5. t.after <= StartsAfter(d.sched)
    BY <2>4
  <2>6. QED
    BY <2>3, <2>4, <2>5
<1>3. Agreed(d) => Coherent(f)
  BY <1>1, <1>2 DEF Agreed, Coherent, StatusRight
<1>4. QED
  BY <1>1, <1>3 DEF f

-----------------------------------------------------------------------------
(* What the scheduler's operations do to its phase and mode *)

\* Starting, ending and resetting: which phase and mode come out.
LEMMA PhaseAndMode ==
    ASSUME NEW s \in Schedulers
    PROVE  /\ FinishBreak(s).phase = "Ready" /\ FinishBreak(s).mode = s.mode
           /\ Disable(s).phase = "Ready" /\ Disable(s).mode = "Disabled"
           /\ Enable(s).phase = s.phase /\ Enable(s).mode = "Active"
           /\ ResetActiveTime(s).phase = s.phase /\ ResetActiveTime(s).mode = s.mode
           /\ ResetPosition(s).phase = s.phase /\ ResetPosition(s).mode = s.mode
           /\ Pending(s).phase = "Pending" /\ Pending(s).mode = s.mode
BY DEF Schedulers, FinishBreak, Disable, Enable, ResetActiveTime, ResetPosition, Pending

\* advance_active leaves Ready exactly when it returns a break.
LEMMA AdvanceActivePhase ==
    ASSUME NEW s \in Schedulers, NEW e \in Nat
    PROVE  /\ AdvanceActive(s, e).mode = s.mode
           /\ AdvanceActiveBreak(s, e) = {} => AdvanceActive(s, e).phase = s.phase
           /\ AdvanceActiveBreak(s, e) # {} =>
                  s.phase = "Ready" /\ AdvanceActive(s, e).phase = "Pending"
<1> DEFINE n == Least(SlotsWithBreak(s, e))
           r == Longest(RulesDue(s.lss, n))
           t == [s EXCEPT !.slot = n, !.lss = SatisfyScheduled(s.lss, n, r)]
<1>1. CASE ~IsActive(s)
  BY <1>1 DEF AdvanceActive, AdvanceActiveBreak
<1>2. CASE IsActive(s) /\ SlotsWithBreak(s, e) = {}
  BY <1>2 DEF AdvanceActive, AdvanceActiveBreak, Schedulers
<1>3. CASE IsActive(s) /\ SlotsWithBreak(s, e) # {}
  <2>1. RulesDue(s.lss, n) # {}
    BY <1>3, FirstBreakSlot
  <2>2. AdvanceActiveBreak(s, e) # {}
    BY <1>3, <2>1 DEF AdvanceActiveBreak, DueBreak
  <2>3. AdvanceActive(s, e) = Pending(t)
    BY <1>3 DEF AdvanceActive
  <2>4. Pending(t).phase = "Pending" /\ Pending(t).mode = s.mode
    BY DEF Pending, Schedulers
  <2>5. QED
    BY <1>3, <2>2, <2>3, <2>4 DEF IsActive
<1>4. QED
  BY <1>1, <1>2, <1>3

\* Adopting the origin of a peer's break changes neither phase nor mode.
LEMMA AdoptOriginPhase ==
    ASSUME NEW s \in Schedulers, NEW name, NEW o
    PROVE  /\ AdoptOrigin(s, name, o).phase = s.phase
           /\ AdoptOrigin(s, name, o).mode = s.mode
BY DEF AdoptOrigin, Schedulers

\* A break that is started, by hand or with a peer, leaves Ready.
LEMMA StartedPhase ==
    ASSUME NEW s, SoundScheduler(s), NEW name, NEW o \in Origins
    PROVE  /\ StartManualBreak(s, name) # {} =>
                  /\ s.phase = "Ready"
                  /\ AfterManualBreak(s, name).phase = "Pending"
                  /\ AfterManualBreak(s, name).mode = s.mode
           /\ StartSyncedBreak(s, name, o) # {} =>
                  /\ s.phase = "Ready"
                  /\ AfterSyncedBreak(s, name, o).phase = "Pending"
                  /\ AfterSyncedBreak(s, name, o).mode = s.mode
           /\ /\ AfterReplacement(s, name, o).phase = s.phase
              /\ AfterReplacement(s, name, o).mode = s.mode
<1>1. s \in Schedulers
  BY DEF SoundScheduler
<1>2. ASSUME StartManualBreak(s, name) # {}
      PROVE  /\ s.phase = "Ready"
             /\ AfterManualBreak(s, name).phase = "Pending"
             /\ AfterManualBreak(s, name).mode = s.mode
  <2>1. s.phase = "Ready"
    BY <1>2 DEF StartManualBreak
  <2>2. AfterManualBreak(s, name) = Pending([s EXCEPT !.lss = SatisfyManual(s, name)])
    BY <1>2 DEF AfterManualBreak
  <2>3. QED
    BY <1>1, <2>1, <2>2 DEF Pending, Schedulers
<1>3. ASSUME StartSyncedBreak(s, name, o) # {}
      PROVE  /\ s.phase = "Ready"
             /\ AfterSyncedBreak(s, name, o).phase = "Pending"
             /\ AfterSyncedBreak(s, name, o).mode = s.mode
  <2>1. s.phase = "Ready" /\ Adoptable(s, name, o)
    BY <1>3 DEF StartSyncedBreak
  <2>2. AdoptOrigin(s, name, o) \in Schedulers
    BY <2>1, AdoptOriginSound DEF SoundScheduler
  <2>3. QED
    BY <1>1, <1>3, <2>1, <2>2, AdoptOriginPhase, PhaseAndMode DEF AfterSyncedBreak
<1>4. /\ AfterReplacement(s, name, o).phase = s.phase
      /\ AfterReplacement(s, name, o).mode = s.mode
  BY <1>1, AdoptOriginPhase DEF AfterReplacement
<1>5. QED
  BY <1>2, <1>3, <1>4

\* With no break announced every rule can be started by hand.
LEMMA AllAvailable ==
    ASSUME NEW s, ~IsActive(s)
    PROVE  Availability(s) = Rules
BY DEF Availability, ManualAvailable, Upcoming

\* What can be started by hand and what is announced do not depend on the
\* elapsed active time, and dropping it brings nothing nearer.
LEMMA AvailabilityOfElapsed ==
    ASSUME NEW s, SoundScheduler(s), s.phase = "Ready"
    PROVE  /\ Availability(FinishBreak(s)) = Availability(s)
           /\ IsActive(FinishBreak(s)) = IsActive(s)
           /\ Upcoming(FinishBreak(s)) = Upcoming(s)
           /\ StartsAfter(FinishBreak(s)) \in Nat
           /\ StartsAfter(FinishBreak(s)) >= StartsAfter(s)
<1> DEFINE t == FinishBreak(s)
<1>1. /\ t.slot = s.slot /\ t.lss = s.lss /\ t.phase = s.phase /\ t.mode = s.mode
      /\ t.elapsed = 0 /\ s.elapsed \in Nat /\ s.elapsed < AfterActive
  BY DEF FinishBreak, SoundScheduler, Schedulers
<1>8. SoundScheduler(t)
  BY ResetsSound
<1> HIDE DEF t
<1>2. UpcomingSlot(t) = UpcomingSlot(s)
  BY <1>1 DEF UpcomingSlot, NextDueSlot
<1>3. Upcoming(t) = Upcoming(s)
  BY <1>1, <1>2 DEF Upcoming, IsActive
<1>4. IsActive(t) = IsActive(s)
  BY <1>1 DEF IsActive
<1>5. StartsAfter(t) \in Nat /\ StartsAfter(s) \in Nat
  BY <1>8, StartsAfterReachesUpcoming
<1>6. StartsAfter(t) = StartsAfter(s) + s.elapsed
  <2> DEFINE k == AfterActive * (UpcomingSlot(s) - s.slot - 1)
  <2>1. StartsAfter(s) = (AfterActive - s.elapsed) + k /\ StartsAfter(t) = AfterActive + k
    BY <1>1, <1>2, AfterActiveAssumption DEF StartsAfter
  <2>2. k \in Int
    BY UpcomingSlotIsFirstDue, AfterActiveAssumption DEF SoundScheduler, Schedulers
  <2> HIDE DEF k
  <2>3. QED
    BY <1>1, <2>1, <2>2, AfterActiveAssumption
<1>7. QED
  BY <1>1, <1>3, <1>4, <1>5, <1>6 DEF Availability, ManualAvailable, t

-----------------------------------------------------------------------------
(* The handlers *)

\* A daemon between the two halves of a handler: the scheduler has a pending
\* break, the runtime has no current one.
Between(d) ==
    /\ DOMAIN d = DaemonFields
    /\ SoundScheduler(d.sched)
    /\ d.current = {}
    /\ d.disable.kind = "Enabled" <=> d.sched.mode = "Active"
    /\ d.budget \in Nat /\ d.now \in Int

\* finish_break of the scheduler, once the current break has been taken away.
LEMMA FinishSchedulerCoherent ==
    ASSUME NEW d, Between(d),
           \/ d.sched.phase = "Pending"
           \/ d.avail = Availability(d.sched) /\ StatusRight(d)
    PROVE  Coherent(FinishScheduler(d))
<1> DEFINE f == [d EXCEPT !.sched = FinishBreak(@)]
<1>1. d.sched \in Schedulers /\ d.sched.phase \in {"Ready", "Pending"}
  BY DEF Between, SoundScheduler, Schedulers
<1>2. /\ SoundScheduler(FinishBreak(d.sched))
      /\ FinishBreak(d.sched).phase = "Ready" /\ FinishBreak(d.sched).mode = d.sched.mode
  BY <1>1, ResetsSound, PhaseAndMode DEF Between
<1>3. /\ DOMAIN f = DaemonFields /\ f.sched = FinishBreak(d.sched)
      /\ f.disable = d.disable /\ f.current = {} /\ f.avail = d.avail
      /\ f.budget = d.budget /\ f.now = d.now
      /\ f.status = d.status
  BY DEF Between, DaemonFields
<1> HIDE DEF f
<1>4. Agreed(f)
  BY <1>2, <1>3 DEF Between, Agreed
<1>5. CASE d.sched.phase = "Pending"
  <2>1. FinishScheduler(d) = UpdateStatus(f)
    BY <1>5 DEF FinishScheduler, f
  <2>2. QED
    BY <1>3, <1>4, <2>1, UpdateStatusShows
<1>6. CASE d.sched.phase # "Pending"
  <2>1. FinishScheduler(d) = f
    BY <1>6 DEF FinishScheduler, f
  <2>2. SoundScheduler(d.sched) /\ d.sched.phase = "Ready"
    BY <1>1, <1>6 DEF Between
  <2>3. f.avail = Availability(f.sched)
    BY <1>3, <1>6, <2>2, AvailabilityOfElapsed
  <2>4. StatusRight(f)
    <3> SUFFICES ASSUME IsActive(f.sched), NEW b \in Upcoming(f.sched)
                 PROVE  \E t \in f.status :
                            /\ t.kind = "Upcoming" /\ t.name = b.name
                            /\ t.after \in Nat /\ t.after <= StartsAfter(f.sched)
      BY DEF StatusRight
    <3>1. IsActive(d.sched) /\ b \in Upcoming(d.sched)
      BY <1>3, <2>2, AvailabilityOfElapsed
    <3>2. PICK t \in d.status : /\ t.kind = "Upcoming" /\ t.name = b.name
                               /\ t.after \in Nat /\ t.after <= StartsAfter(d.sched)
      BY <1>6, <3>1 DEF StatusRight
    <3>3. /\ StartsAfter(d.sched) \in Nat /\ StartsAfter(f.sched) \in Nat
          /\ StartsAfter(d.sched) <= StartsAfter(f.sched)
      BY <1>3, <2>2, AvailabilityOfElapsed, StartsAfterReachesUpcoming
    <3>4. QED
      BY <1>3, <3>2, <3>3
  <2>5. QED
    BY <1>4, <2>1, <2>3, <2>4 DEF Coherent
<1>7. QED
  BY <1>5, <1>6

\* start_break_at, whether it shows the break or finds it already over.
LEMMA StartBreakAtCoherent ==
    ASSUME NEW d, Between(d), d.sched.phase = "Pending", d.avail = Availability(d.sched),
           NEW b, NEW lock, NEW at, NEW propagate
    PROVE  Coherent(StartBreakAt(d, b, lock, at, propagate))
<1> DEFINE c == ClearNotice(d)
           f == [c EXCEPT !.current = {CurrentBreak(b, lock, at)}]
           g == Command(f, [kind |-> "StartBreak", lock |-> lock,
                            remaining |-> Remaining(d, at, b.name)])
           h == BroadcastIf(g, propagate, BreakStarted(d, b, at))
<1>1. CASE Remaining(d, at, b.name) = 0
  BY <1>1, FinishSchedulerCoherent DEF StartBreakAt
<1>2. CASE Remaining(d, at, b.name) # 0
  <2>1. Alike(d, c)
    BY OutputsAlike DEF Between
  <2> HIDE DEF c
  <2>2. Coherent(f)
    BY <2>1 DEF Alike, Between, Coherent, StatusRight, IsActive, Agreed, DaemonFields
  <2> HIDE DEF f
  <2>3. Coherent(g)
    BY <2>2, OutputsCoherent
  <2> HIDE DEF g
  <2>4. Coherent(h)
    BY <2>3, OutputsCoherent
  <2>5. StartBreakAt(d, b, lock, at, propagate) = h
    BY <1>2 DEF StartBreakAt, h, g, f, c
  <2>6. QED
    BY <2>4, <2>5
<1>3. QED
  BY <1>1, <1>2

\* start_manual_break
LEMMA StartManualCoherent ==
    ASSUME NEW d, Coherent(d), NEW name, NEW propagate
    PROVE  Coherent(StartManual(d, name, propagate))
<1> DEFINE f == [d EXCEPT !.sched = AfterManualBreak(@, name)]
           g == UpdateStatus(f)
<1>1. CASE StartManualBreak(d.sched, name) = {}
  BY <1>1 DEF StartManual
<1>2. CASE StartManualBreak(d.sched, name) # {}
  <2>1. SoundScheduler(d.sched) /\ Manual \in Origins
    BY DEF Coherent, Agreed, Manual, Origins
  <2>2. /\ d.sched.phase = "Ready"
        /\ AfterManualBreak(d.sched, name).phase = "Pending"
        /\ AfterManualBreak(d.sched, name).mode = d.sched.mode
        /\ SoundScheduler(AfterManualBreak(d.sched, name))
    BY <1>2, <2>1, StartedPhase, ManualBreakSound
  <2>3. Between(f) /\ f.sched = AfterManualBreak(d.sched, name)
    BY <2>2 DEF Between, Coherent, Agreed, DaemonFields
  <2> HIDE DEF f
  <2>4. Between(g) /\ g.sched.phase = "Pending" /\ g.avail = Availability(g.sched)
    BY <2>2, <2>3, UpdateStatusShows DEF Between
  <2> HIDE DEF g
  <2>5. Coherent(StartBreakAt(g, Break(name, Manual), Autolock[name], d.now, propagate))
    BY <2>4, StartBreakAtCoherent
  <2>6. QED
    BY <1>2, <2>5 DEF StartManual, g, f
<1>3. QED
  BY <1>1, <1>2

\* break_start_failed and finish_break
LEMMA BreakEndsCoherent ==
    ASSUME NEW d, Coherent(d)
    PROVE  Coherent(BreakStartFailed(d)) /\ Coherent(BreakFinished(d))
<1> DEFINE c == ClearNotice(d)
           f == [c EXCEPT !.current = {}]
           g == FinishScheduler(f)
<1>1. Coherent(c)
  BY OutputsCoherent
<1> HIDE DEF c
<1>2. Between(f) /\ f.avail = Availability(f.sched) /\ StatusRight(f)
  BY <1>1 DEF Between, Coherent, StatusRight, Agreed, DaemonFields
<1> HIDE DEF f
<1>3. Coherent(g)
  BY <1>2, FinishSchedulerCoherent
<1> HIDE DEF g
<1>4. \A m : Coherent(Command(g, m))
  BY <1>3, OutputsCoherent
<1>5. QED
  BY <1>1, <1>3, <1>4 DEF BreakStartFailed, BreakFinished, c, f, g

\* request_lock_after_current_break
LEMMA RequestLockCoherent ==
    ASSUME NEW d, Coherent(d), NEW propagate
    PROVE  Coherent(RequestLock(d, propagate))
<1> DEFINE L == {[c EXCEPT !.lock = TRUE] : c \in d.current}
           f == [d EXCEPT !.current = L]
           g == Command(f, [kind |-> "RequestLock"])
           h == BroadcastIf(g, propagate, [kind |-> "LockAfterCurrentBreak"])
<1>1. CASE ~\E c \in d.current : ~c.lock
  BY <1>1 DEF RequestLock
<1>2. CASE \E c \in d.current : ~c.lock
  <2>1. d.current # {} /\ L # {} /\ \A b, c \in L : b = c
    BY <1>2 DEF Coherent, Agreed
  <2>2. RequestLock(d, propagate) = h
    BY <1>2 DEF RequestLock
  <2> HIDE DEF L
  <2>3. Coherent(f)
    BY <2>1 DEF Coherent, StatusRight, Agreed, DaemonFields
  <2> HIDE DEF f
  <2>4. Coherent(g)
    BY <2>3, OutputsCoherent
  <2> HIDE DEF g
  <2>5. Coherent(h)
    BY <2>4, OutputsCoherent
  <2>6. QED
    BY <2>2, <2>5
<1>3. QED
  BY <1>1, <1>2

\* advance_active of the scheduler with what the runtime does about its result.
LEMMA AdvanceSchedulerCoherent ==
    ASSUME NEW d, Coherent(d), NEW e \in Nat
    PROVE  Coherent(AdvanceScheduler(d, e))
<1> DEFINE S == AdvanceActive(d.sched, e)
           started == AdvanceActiveBreak(d.sched, e)
           f == [d EXCEPT !.sched = AdvanceActive(@, e)]
           b == CHOOSE b \in started : TRUE
           g == UpdateStatus(ClearNotice(f))
<1>1. /\ SoundScheduler(S) /\ S.mode = d.sched.mode
      /\ started = {} => S.phase = d.sched.phase
      /\ started # {} => d.sched.phase = "Ready" /\ S.phase = "Pending"
  BY AdvanceActiveSound, AdvanceActivePhase DEF Coherent, Agreed, SoundScheduler
<1>2. /\ DOMAIN f = DaemonFields /\ f.sched = S /\ f.disable = d.disable
      /\ f.current = d.current /\ f.budget = d.budget /\ f.now = d.now
  BY DEF Coherent, Agreed, DaemonFields
<1>3. CASE started = {}
  <2>1. AdvanceScheduler(d, e) = NotifyUpcoming(UpdateStatus(f))
    BY <1>3 DEF AdvanceScheduler
  <2> HIDE DEF f, S
  <2>2. Agreed(f)
    BY <1>1, <1>2, <1>3 DEF Coherent, Agreed
  <2>3. Coherent(UpdateStatus(f))
    BY <1>2, <2>2, UpdateStatusShows
  <2>4. QED
    BY <2>1, <2>3, OutputsCoherent
<1>4. CASE started # {}
  <2>1. AdvanceScheduler(d, e) = StartBreakAt(g, b, Autolock[b.name], d.now, TRUE)
    BY <1>4 DEF AdvanceScheduler
  <2> HIDE DEF f, S, b, started
  <2>2. Alike(f, ClearNotice(f))
    BY <1>2, OutputsAlike
  <2>3. Between(g) /\ g.sched = S /\ g.avail = Availability(S)
    BY <1>1, <1>2, <1>4, <2>2, UpdateStatusShows DEF Alike, Between, Coherent, Agreed
  <2> HIDE DEF g
  <2>4. QED
    BY <1>1, <1>4, <2>1, <2>3, StartBreakAtCoherent
<1>5. QED
  BY <1>3, <1>4

\* observe_active, for activity on this computer or a peer's.
LEMMA ObserveActiveCoherent ==
    ASSUME NEW d, Coherent(d), NEW e \in Nat, NEW propagate
    PROVE  Coherent(ObserveActive(d, e, propagate))
<1> DEFINE i == [d EXCEPT !.idleTime = NotIdle, !.idleCount = NotIdle]
           f == BroadcastIf(i, propagate, [kind |-> "ActiveTimeElapsed", elapsed |-> e])
           n == IF d.seen THEN d.budget - Counted(d, e) ELSE d.budget
           g == [f EXCEPT !.budget = n]
<1>1. Counted(d, e) \in Nat /\ n \in Nat
  BY DEF Counted, EarlierOf, Coherent, Agreed
<1>2. Coherent(i) /\ i.budget = d.budget
  BY DEF Coherent, StatusRight, Agreed, DaemonFields
<1> HIDE DEF i
<1>3. Coherent(f) /\ f.budget = d.budget
  BY <1>2, OutputsAlike, AlikeCoherent DEF Coherent, Agreed, Alike
<1>4. ObserveActive(d, e, propagate) =
        IF Counted(d, e) = 0 THEN g ELSE AdvanceScheduler(g, Counted(d, e))
  <2>1. g = [f EXCEPT !.budget = IF d.seen THEN @ - Counted(d, e) ELSE @]
    BY <1>3
  <2>2. QED
    BY <2>1 DEF ObserveActive, i
<1> HIDE DEF f, n
<1>5. Coherent(g)
  BY <1>1, <1>3 DEF Coherent, StatusRight, Agreed, DaemonFields
<1> HIDE DEF g
<1>6. QED
  BY <1>1, <1>4, <1>5, AdvanceSchedulerCoherent

\* apply_scheduler_reset
LEMMA SchedulerResetCoherent ==
    ASSUME NEW d, Coherent(d), NEW propagate
    PROVE  Coherent(SchedulerReset(d, propagate))
<1> DEFINE S == ResetPosition(d.sched)
           f == [d EXCEPT !.idleTime.triggered = TRUE, !.idleCount.triggered = TRUE,
                          !.sched = ResetPosition(@)]
           g == UpdateStatus(ClearNotice(f))
           b == propagate /\ Position(f.sched) # Position(d.sched)
<1>1. SoundScheduler(S) /\ S.phase = d.sched.phase /\ S.mode = d.sched.mode
  BY ResetsSound, PhaseAndMode DEF Coherent, Agreed, SoundScheduler
<1>2. SchedulerReset(d, propagate) = BroadcastIf(g, b, [kind |-> "SchedulerReset"])
  BY DEF SchedulerReset
<1>3. /\ DOMAIN f = DaemonFields /\ f.sched = S /\ f.disable = d.disable
      /\ f.current = d.current /\ f.budget = d.budget /\ f.now = d.now
  BY DEF Coherent, Agreed, DaemonFields
<1> HIDE DEF S, f
<1>4. Agreed(f)
  BY <1>1, <1>3 DEF Coherent, Agreed
<1>5. Alike(f, ClearNotice(f)) /\ Agreed(ClearNotice(f))
  BY <1>3, <1>4, OutputsAlike, AlikeCoherent
<1>6. Coherent(g)
  BY <1>5, UpdateStatusShows DEF Agreed
<1> HIDE DEF g, b
<1>7. QED
  BY <1>2, <1>6, OutputsCoherent

\* advance_idle
LEMMA AdvanceIdleCoherent ==
    ASSUME NEW d, Coherent(d), NEW e
    PROVE  Coherent(AdvanceIdle(d, e))
<1> DEFINE f == [d EXCEPT !.idleTime = IdleAdvance(@, ResetAfterIdle, e),
                          !.idleCount = IdleAdvance(@, ResetCountAfterIdle, e)]
           S == ResetActiveTime(f.sched)
           g == [f EXCEPT !.sched = ResetActiveTime(@)]
           h == UpdateStatus(ClearNotice(g))
<1>1. AdvanceIdle(d, e) \in {SchedulerReset(f, TRUE), h, f}
  BY DEF AdvanceIdle
<1>2. Coherent(f)
  BY DEF Coherent, StatusRight, Agreed, DaemonFields
<1> HIDE DEF f
<1>3. SoundScheduler(S) /\ S.phase = f.sched.phase /\ S.mode = f.sched.mode
  BY <1>2, ResetsSound, PhaseAndMode DEF Coherent, Agreed, SoundScheduler
<1>4. /\ DOMAIN g = DaemonFields /\ g.sched = S /\ g.disable = f.disable
      /\ g.current = f.current /\ g.budget = f.budget /\ g.now = f.now
  BY <1>2 DEF Coherent, Agreed, DaemonFields
<1> HIDE DEF g, S
<1>5. Agreed(g)
  BY <1>2, <1>3, <1>4 DEF Coherent, Agreed
<1>6. Alike(g, ClearNotice(g)) /\ Agreed(ClearNotice(g))
  BY <1>4, <1>5, OutputsAlike, AlikeCoherent
<1>7. Coherent(h)
  BY <1>6, UpdateStatusShows DEF Agreed
<1>8. QED
  BY <1>1, <1>2, <1>7, SchedulerResetCoherent

\* enable, which also ends a timed disable
LEMMA EnableCoherent ==
    ASSUME NEW d, Coherent(d), NEW propagate
    PROVE  Coherent(EnableBreaks(d, propagate))
<1> DEFINE S == Enable(d.sched)
           f == [d EXCEPT !.sched = Enable(@), !.disable = Enabled]
<1>1. SoundScheduler(S) /\ S.phase = d.sched.phase /\ S.mode = "Active"
  BY ResetsSound, PhaseAndMode DEF Coherent, Agreed, SoundScheduler
<1>2. /\ DOMAIN f = DaemonFields /\ f.sched = S /\ f.disable.kind = "Enabled"
      /\ f.current = d.current /\ f.budget = d.budget /\ f.now = d.now
  BY DEF Coherent, Agreed, DaemonFields, Enabled
<1>3. EnableBreaks(d, propagate) = BroadcastIf(UpdateStatus(f), propagate, [kind |-> "Enable"])
  BY DEF EnableBreaks
<1> HIDE DEF f, S
<1>4. Agreed(f)
  BY <1>1, <1>2 DEF Coherent, Agreed
<1>5. Coherent(UpdateStatus(f))
  BY <1>2, <1>4, UpdateStatusShows
<1>6. QED
  BY <1>3, <1>5, OutputsCoherent

\* advance_wall_clock
LEMMA WallClockCoherent ==
    ASSUME NEW d, Coherent(d), NEW e \in Nat
    PROVE  Coherent(WallClock(d, e))
<1> DEFINE f == [d EXCEPT !.seen = TRUE, !.budget = e]
           g == IF d.disable.kind = "Timed" /\ d.now >= d.disable.until
                THEN EnableBreaks(f, FALSE) ELSE f
<1>1. Coherent(f)
  BY DEF Coherent, StatusRight, Agreed, DaemonFields
<1>2. WallClock(d, e) = UpdateStatus(g)
  BY DEF WallClock
<1> HIDE DEF f
<1>3. Coherent(g)
  BY <1>1, EnableCoherent
<1> HIDE DEF g
<1>4. QED
  BY <1>2, <1>3, UpdateStatusShows DEF Coherent, Agreed

\* disable_scheduler, given the disable mode its callers have set
LEMMA DisableCoherent ==
    ASSUME NEW d, Coherent(d), NEW propagate
    PROVE  /\ \A t : Coherent(DisableFor(d, t, propagate))
           /\ Coherent(DisableUntilRestart(d, propagate))
<1>1. ASSUME NEW m, m.kind # "Enabled", NEW e
      PROVE  Coherent(BroadcastIf(DisableBreaks([d EXCEPT !.disable = m]), propagate, e))
  <2> DEFINE S == Disable(d.sched)
             g == [d EXCEPT !.disable = m]
             f == [g EXCEPT !.current = {}, !.sched = Disable(@)]
             h == UpdateStatus(ClearNotice(f))
  <2>1. SoundScheduler(S) /\ S.phase = "Ready" /\ S.mode = "Disabled"
    BY ResetsSound, PhaseAndMode DEF Coherent, Agreed, SoundScheduler
  <2>2. DisableBreaks(g) \in {h, Command(h, [kind |-> "ClearBreak"])}
    BY DEF DisableBreaks
  <2>3. /\ DOMAIN g = DaemonFields /\ g.disable = m /\ g.sched = d.sched
        /\ g.current = d.current /\ g.budget = d.budget /\ g.now = d.now
    BY DEF Coherent, Agreed, DaemonFields
  <2> HIDE DEF g
  <2>4. /\ DOMAIN f = DaemonFields /\ f.sched = S /\ f.disable = m
        /\ f.current = {} /\ f.budget = d.budget /\ f.now = d.now
    BY <2>3 DEF Coherent, Agreed, DaemonFields
  <2> HIDE DEF f, S
  <2>5. Agreed(f)
    BY <1>1, <2>1, <2>4 DEF Coherent, Agreed
  <2>6. Alike(f, ClearNotice(f)) /\ Agreed(ClearNotice(f))
    BY <2>4, <2>5, OutputsAlike, AlikeCoherent
  <2>7. Coherent(h)
    BY <2>6, UpdateStatusShows DEF Agreed
  <2> HIDE DEF h
  <2>8. Coherent(DisableBreaks(g))
    BY <2>2, <2>7, OutputsCoherent
  <2>9. QED
    BY <2>8, OutputsCoherent DEF g
<1>2. \A t : DisabledUntil(d.now + t).kind # "Enabled"
  BY DEF DisabledUntil
<1>3. UntilRestart.kind # "Enabled"
  BY DEF UntilRestart
<1>4. QED
  BY <1>1, <1>2, <1>3 DEF DisableFor, DisableUntilRestart

-----------------------------------------------------------------------------
(* Peers' events *)

\* merge_synced_position with the refresh its result asks for.
LEMMA MergeCoherent ==
    ASSUME NEW d, Coherent(d), NEW p, SoundPosition(p)
    PROVE  Coherent(MergeAndShow(d, p))
<1> DEFINE S == MergePosition(d.sched, p)
           f == [d EXCEPT !.sched = MergePosition(@, p)]
<1>1. SoundScheduler(S) /\ S.phase = d.sched.phase /\ S.mode = d.sched.mode
  BY MergeSound, MergeFields DEF Coherent, Agreed
<1>2. /\ DOMAIN f = DaemonFields /\ f.sched = S /\ f.disable = d.disable
      /\ f.current = d.current /\ f.avail = d.avail /\ f.budget = d.budget /\ f.now = d.now
      /\ f.status = d.status
  BY DEF Coherent, Agreed, DaemonFields
<1>3. MergeAndShow(d, p) = IF f.sched # d.sched THEN UpdateStatus(f) ELSE f
  BY DEF MergeAndShow
<1> HIDE DEF f, S
<1>4. Agreed(f)
  BY <1>1, <1>2 DEF Coherent, Agreed
<1>5. CASE f.sched # d.sched
  BY <1>2, <1>3, <1>4, <1>5, UpdateStatusShows
<1>6. CASE f.sched = d.sched
  BY <1>2, <1>3, <1>4, <1>6 DEF Coherent, StatusRight
<1>7. QED
  BY <1>5, <1>6

\* start_synced_break
LEMMA JoinCoherent ==
    ASSUME NEW d, Coherent(d), NEW start, start.origin \in Origins,
           NEW p, SoundPosition(p)
    PROVE  Coherent(JoinBreak(d, start, p))
<1> DEFINE joined == AfterSyncedBreak(d.sched, start.name, start.origin)
           S == MergePosition(joined, p)
           f == [d EXCEPT !.sched = S]
           g == UpdateStatus(f)
           lock == IF start.lock = {} THEN Autolock[start.name] ELSE TRUE \in start.lock
           b == Break(start.name, start.origin)
<1>1. CASE StartSyncedBreak(d.sched, start.name, start.origin) = {}
  BY <1>1 DEF JoinBreak
<1>2. CASE StartSyncedBreak(d.sched, start.name, start.origin) # {}
  <2>1. JoinBreak(d, start, p) = StartBreakAt(g, b, lock, start.at, FALSE)
    BY <1>2 DEF JoinBreak
  <2>2. /\ SoundScheduler(joined)
        /\ d.sched.phase = "Ready" /\ joined.phase = "Pending" /\ joined.mode = d.sched.mode
    BY <1>2, StartedPhase, SyncedBreakSound DEF Coherent, Agreed
  <2> HIDE DEF joined
  <2>3. SoundScheduler(S) /\ S.phase = "Pending" /\ S.mode = d.sched.mode
    BY <2>2, MergeSound, MergeFields
  <2> HIDE DEF S
  <2>4. Between(f) /\ f.sched = S
    BY <2>2, <2>3 DEF Between, Coherent, Agreed, DaemonFields
  <2> HIDE DEF f
  <2>5. Between(g) /\ g.sched.phase = "Pending" /\ g.avail = Availability(g.sched)
    BY <2>3, <2>4, UpdateStatusShows DEF Between
  <2> HIDE DEF g, b, lock
  <2>6. QED
    BY <2>1, <2>5, StartBreakAtCoherent
<1>3. QED
  BY <1>1, <1>2

\* The replacement of a current break, adopted or found already over.
LEMMA ReplaceCoherent ==
    ASSUME NEW d, Coherent(d), d.current # {}, NEW c,
           NEW start, start.origin \in Origins, NEW p, SoundPosition(p)
    PROVE  Coherent(ReplaceBreak(d, c, start, p))
<1> DEFINE adopted == AfterReplacement(d.sched, start.name, start.origin)
           S == MergePosition(adopted, p)
           lock == IF start.lock = {} THEN Autolock[start.name] \/ c.lock
                   ELSE TRUE \in start.lock
           f == [d EXCEPT !.sched = S]
           left == Remaining(d, start.at, start.name)
           g == [f EXCEPT !.current = {}]
           h == [f EXCEPT !.current =
                    {CurrentBreak(Break(start.name, start.origin), lock, start.at)}]
<1>1. \/ ReplaceBreak(d, c, start, p) = d
      \/ \E m : ReplaceBreak(d, c, start, p) = Command(FinishScheduler(g), m)
      \/ \E m : ReplaceBreak(d, c, start, p) = Command(h, m)
  BY DEF ReplaceBreak
<1>2. /\ SoundScheduler(adopted)
      /\ adopted.phase = "Pending" /\ adopted.mode = d.sched.mode
  BY StartedPhase, SyncedBreakSound DEF Coherent, Agreed
<1> HIDE DEF adopted
<1>3. SoundScheduler(S) /\ S.phase = "Pending" /\ S.mode = d.sched.mode
  BY <1>2, MergeSound, MergeFields
<1>4. Availability(S) = Rules /\ Availability(d.sched) = Rules
  BY <1>3, AllAvailable DEF IsActive, Coherent, Agreed
<1> HIDE DEF S
<1>5. /\ DOMAIN f = DaemonFields /\ f.sched = S /\ f.disable = d.disable
      /\ f.avail = Availability(S) /\ f.budget \in Nat /\ f.now \in Int
  BY <1>4 DEF Coherent, Agreed, DaemonFields
<1> HIDE DEF f
<1>6. Between(g) /\ g.sched.phase = "Pending"
  BY <1>3, <1>5 DEF Between, Coherent, Agreed, DaemonFields
<1> HIDE DEF g
<1>7. Coherent(FinishScheduler(g))
  BY <1>6, FinishSchedulerCoherent
<1>8. Coherent(h)
  BY <1>3, <1>5 DEF Coherent, StatusRight, IsActive, Agreed, DaemonFields
<1> HIDE DEF h
<1>9. QED
  BY <1>1, <1>7, <1>8, OutputsCoherent

\* apply_synced_break_start and apply_synced_scheduler_state
LEMMA SyncedStateCoherent ==
    ASSUME NEW d, Coherent(d), NEW peer, NEW p, SoundPosition(p)
    PROVE  /\ \A start : start.origin \in Origins =>
                  Coherent(SyncedBreakStart(d, peer, start, p))
           /\ \A active : (\A a \in active : a.origin \in Origins) =>
                  Coherent(SyncedSchedulerState(d, peer, p, active))
<1>1. ASSUME NEW start, start.origin \in Origins
      PROVE  Coherent(SyncedBreakStart(d, peer, start, p))
  <2> DEFINE c == CHOOSE c \in d.current : TRUE
  <2>1. \/ SyncedBreakStart(d, peer, start, p) = d
        \/ SyncedBreakStart(d, peer, start, p) = JoinBreak(d, start, p)
        \/ d.current # {} /\ SyncedBreakStart(d, peer, start, p) = ReplaceBreak(d, c, start, p)
        \/ SyncedBreakStart(d, peer, start, p) = MergeAndShow(d, p)
    BY DEF SyncedBreakStart
  <2> HIDE DEF c
  <2>2. QED
    BY <1>1, <2>1, JoinCoherent, ReplaceCoherent, MergeCoherent
<1>2. ASSUME NEW active, \A a \in active : a.origin \in Origins
      PROVE  Coherent(SyncedSchedulerState(d, peer, p, active))
  <2> DEFINE a == CHOOSE a \in active : TRUE
             f == IF active = {} THEN d ELSE SyncedBreakStart(d, peer, a, p)
  <2>1. active # {} => a.origin \in Origins
    BY <1>2
  <2>2. SyncedSchedulerState(d, peer, p, active) \in {MergeAndShow(f, p), f}
    BY DEF SyncedSchedulerState
  <2> HIDE DEF a
  <2>3. Coherent(f)
    BY <1>1, <2>1
  <2> HIDE DEF f
  <2>4. QED
    BY <2>2, <2>3, MergeCoherent
<1>3. QED
  BY <1>1, <1>2

-----------------------------------------------------------------------------
(* handle_event *)

\* handle_event of the backend's and the tray's events.
LEMMA LocalEventCoherent ==
    ASSUME NEW d, Coherent(d)
    PROVE  /\ \A n \in Nat :
                  /\ Coherent(LocalEvent(d, [kind |-> "ActiveTimeElapsed", elapsed |-> n]))
                  /\ Coherent(LocalEvent(d, [kind |-> "IdleTimeElapsed", elapsed |-> n]))
                  /\ Coherent(LocalEvent(d, [kind |-> "WallClockElapsed", elapsed |-> n]))
                  /\ Coherent(LocalEvent(d, [kind |-> "DisableFor", duration |-> n]))
           /\ \A name : Coherent(LocalEvent(d, [kind |-> "StartManualBreak", name |-> name]))
           /\ \A k \in {"BreakStartFailed", "BreakFinished", "LockAfterCurrentBreak",
                        "DisableUntilRestart", "Enable", "Shutdown"} :
                  Coherent(LocalEvent(d, [kind |-> k]))
<1>1. ASSUME NEW n \in Nat
      PROVE  /\ Coherent(LocalEvent(d, [kind |-> "ActiveTimeElapsed", elapsed |-> n]))
             /\ Coherent(LocalEvent(d, [kind |-> "IdleTimeElapsed", elapsed |-> n]))
             /\ Coherent(LocalEvent(d, [kind |-> "WallClockElapsed", elapsed |-> n]))
             /\ Coherent(LocalEvent(d, [kind |-> "DisableFor", duration |-> n]))
  <2>1. Coherent(LocalEvent(d, [kind |-> "ActiveTimeElapsed", elapsed |-> n]))
    BY ObserveActiveCoherent DEF LocalEvent
  <2>2. Coherent(LocalEvent(d, [kind |-> "IdleTimeElapsed", elapsed |-> n]))
    BY AdvanceIdleCoherent DEF LocalEvent
  <2>3. Coherent(LocalEvent(d, [kind |-> "WallClockElapsed", elapsed |-> n]))
    BY WallClockCoherent DEF LocalEvent
  <2>4. Coherent(LocalEvent(d, [kind |-> "DisableFor", duration |-> n]))
    BY DisableCoherent DEF LocalEvent
  <2>5. QED
    BY <2>1, <2>2, <2>3, <2>4
<1>2. ASSUME NEW name
      PROVE  Coherent(LocalEvent(d, [kind |-> "StartManualBreak", name |-> name]))
  BY StartManualCoherent DEF LocalEvent
<1>3. /\ Coherent(LocalEvent(d, [kind |-> "BreakStartFailed"]))
      /\ Coherent(LocalEvent(d, [kind |-> "BreakFinished"]))
  BY BreakEndsCoherent DEF LocalEvent
<1>4. Coherent(LocalEvent(d, [kind |-> "LockAfterCurrentBreak"]))
  BY RequestLockCoherent DEF LocalEvent
<1>5. Coherent(LocalEvent(d, [kind |-> "DisableUntilRestart"]))
  BY DisableCoherent DEF LocalEvent
<1>6. Coherent(LocalEvent(d, [kind |-> "Enable"]))
  BY EnableCoherent DEF LocalEvent
<1>7. Coherent(LocalEvent(d, [kind |-> "Shutdown"]))
  <2>1. LocalEvent(d, [kind |-> "Shutdown"]) = [ClearNotice(d) EXCEPT !.running = FALSE]
    BY DEF LocalEvent
  <2>2. Coherent(ClearNotice(d))
    BY OutputsCoherent
  <2>3. QED
    BY <2>1, <2>2 DEF Coherent, StatusRight, Agreed, DaemonFields
<1>8. QED
  BY <1>1, <1>2, <1>3, <1>4, <1>5, <1>6, <1>7

\* handle_sync_event
LEMMA SyncEventCoherent ==
    ASSUME NEW d, Coherent(d), NEW peer, NEW e, SoundPeerEvent(e)
    PROVE  Coherent(SyncEvent(d, peer, e))
<1>1. /\ e.kind \in {"BreakStarted", "SchedulerState"} => SoundPosition(e.position)
      /\ e.kind = "BreakStarted" => e.start.origin \in Origins
      /\ e.kind = "SchedulerState" => \A a \in e.active : a.origin \in Origins
      /\ e.kind = "ActiveTimeElapsed" => e.elapsed \in Nat
  BY DEF SoundPosition, SoundPeerEvent
<1>2. CASE e.kind = "ActiveTimeElapsed"
  BY <1>1, <1>2, ObserveActiveCoherent DEF SyncEvent
<1>3. CASE e.kind = "BreakStarted"
  BY <1>1, <1>3, SyncedStateCoherent DEF SyncEvent
<1>4. CASE e.kind = "SchedulerState"
  BY <1>1, <1>4, SyncedStateCoherent DEF SyncEvent
<1>5. CASE e.kind = "SchedulerReset"
  BY <1>5, SchedulerResetCoherent DEF SyncEvent
<1>6. CASE e.kind = "DisableFor"
  BY <1>6, DisableCoherent DEF SyncEvent
<1>7. CASE e.kind = "DisableUntilRestart"
  BY <1>7, DisableCoherent DEF SyncEvent
<1>8. CASE e.kind = "Enable"
  BY <1>8, EnableCoherent DEF SyncEvent
<1>9. CASE e.kind = "LockAfterCurrentBreak"
  BY <1>9, RequestLockCoherent DEF SyncEvent
<1>10. QED
  BY <1>2, <1>3, <1>4, <1>5, <1>6, <1>7, <1>8, <1>9 DEF SoundPeerEvent

-----------------------------------------------------------------------------
(* What a handler does to the current break and tells the backend *)

\* With f, d has come to the current break cur and sent the backend cs, if that
\* still listens; a daemon whose backend does not has sent nothing.
Does(d, f, cur, cs) ==
    /\ DOMAIN f = DaemonFields
    /\ f.current = cur /\ f.up = d.up
    /\ IF d.up THEN f.running = d.running /\ f.cmds = cs ELSE f.cmds = <<>>

\* Display, notifications and broadcasts change none of it; a command is sent.
LEMMA OutputsDo ==
    ASSUME NEW d, NEW f, NEW cur, NEW cs, Does(d, f, cur, cs)
    PROVE  /\ Does(d, ClearNotice(f), cur, cs)
           /\ Does(d, NotifyUpcoming(f), cur, cs)
           /\ Does(d, UpdateStatus(f), cur, cs)
           /\ \A b, e : Does(d, BroadcastIf(f, b, e), cur, cs)
           /\ \A y : Does(d, [f EXCEPT !.sched = y], cur, cs)
           /\ \A y : Does(d, [f EXCEPT !.current = y], y, cs)
           /\ \A c : cs = <<>> => Does(d, Command(f, c), cur, <<c>>)
<1>1. Does(d, ClearNotice(f), cur, cs) /\ Does(d, NotifyUpcoming(f), cur, cs)
  BY DEF Does, ClearNotice, NotifyUpcoming, DaemonFields
<1>2. Does(d, UpdateStatus(f), cur, cs)
  BY DEF Does, UpdateStatus, DaemonFields
<1>3. ASSUME NEW b, NEW e PROVE Does(d, BroadcastIf(f, b, e), cur, cs)
  <2>1. Does(d, Send(f, e, {}), cur, cs)
    BY DEF Does, Send, DaemonFields
  <2>2. QED
    BY <2>1 DEF BroadcastIf
<1>4. /\ \A y : Does(d, [f EXCEPT !.sched = y], cur, cs)
      /\ \A y : Does(d, [f EXCEPT !.current = y], y, cs)
  BY DEF Does, DaemonFields
<1>5. ASSUME NEW c, cs = <<>> PROVE Does(d, Command(f, c), cur, <<c>>)
  <2>1. CASE d.up
    <3>1. Command(f, c) = [f EXCEPT !.cmds = Append(f.cmds, c)] /\ f.cmds = <<>>
      BY <1>5, <2>1 DEF Command, Does
    <3>2. Append(f.cmds, c) = <<c>>
      BY <3>1
    <3>3. Command(f, c) = [f EXCEPT !.cmds = <<c>>]
      BY <3>1, <3>2
    <3>4. QED
      BY <2>1, <3>3 DEF Does, DaemonFields
  <2>2. CASE ~d.up
    <3>1. Command(f, c) = [f EXCEPT !.running = FALSE]
      BY <2>2 DEF Command, Does
    <3>2. QED
      BY <2>2, <3>1 DEF Does, DaemonFields
  <2>3. QED
    BY <2>1, <2>2
<1>6. QED
  BY <1>1, <1>2, <1>3, <1>4, <1>5

\* So does the scheduler's finish_break with its refresh.
LEMMA FinishSchedulerDoes ==
    ASSUME NEW d, NEW f, NEW cur, NEW cs, Does(d, f, cur, cs)
    PROVE  Does(d, FinishScheduler(f), cur, cs)
<1> DEFINE g == [f EXCEPT !.sched = FinishBreak(@)]
<1>1. Does(d, g, cur, cs)
  BY OutputsDo
<1>2. FinishScheduler(f) \in {g, UpdateStatus(g)}
  BY DEF FinishScheduler
<1> HIDE DEF g
<1>3. Does(d, UpdateStatus(g), cur, cs)
  BY <1>1, OutputsDo
<1>4. QED
  BY <1>1, <1>2, <1>3

\* Between d and f no break was started, or one whose StartBreak says what the
\* runtime has recorded, for as long as a break of its type lasts.
MayStart(d, f) ==
    \/ Does(d, f, d.current, <<>>)
    \/ /\ d.current = {}
       /\ \E c : \E n \in Nat :
             /\ "lock" \in DOMAIN c /\ c.lock \in BOOLEAN
             /\ c.name \in Rules /\ n = Duration[c.name]
             /\ Does(d, f, {c}, <<[kind |-> "StartBreak", lock |-> c.lock, remaining |-> n]>>)

\* start_break_at, for a break that starts now.
LEMMA StartBreakAtDoes ==
    ASSUME NEW d, NEW f, d.current = {}, Does(d, f, {}, <<>>), f.now \in Int,
           NEW b, b.name \in Rules, NEW lock \in BOOLEAN, NEW propagate
    PROVE  MayStart(d, StartBreakAt(f, b, lock, f.now, propagate))
<1> DEFINE c == ClearNotice(f)
           n == Remaining(f, f.now, b.name)
           k == CurrentBreak(b, lock, f.now)
           m == [kind |-> "StartBreak", lock |-> lock, remaining |-> n]
           g == [c EXCEPT !.current = {k}]
           h == Command(g, m)
           e == BreakStarted(f, b, f.now)
<1>1. n \in Nat /\ n = Duration[b.name]
  <2>1. Duration[b.name] \in Nat
    BY DurationsAssumption
  <2>2. QED
    BY <2>1 DEF Remaining, LaterOf
<1>2. CASE n = 0
  BY <1>2, FinishSchedulerDoes DEF StartBreakAt, MayStart
<1>3. CASE n # 0
  <2>1. StartBreakAt(f, b, lock, f.now, propagate) = BroadcastIf(h, propagate, e)
    BY <1>3 DEF StartBreakAt
  <2>2. k.lock = lock /\ "lock" \in DOMAIN k /\ k.name = b.name
    BY DEF CurrentBreak
  <2> HIDE DEF k, n, e
  <2>3. Does(d, c, {}, <<>>)
    BY OutputsDo
  <2> HIDE DEF c
  <2>4. Does(d, g, {k}, <<>>)
    BY <2>3, OutputsDo
  <2> HIDE DEF g
  <2>5. Does(d, h, {k}, <<m>>)
    BY <2>4, OutputsDo
  <2> HIDE DEF h
  <2>6. Does(d, BroadcastIf(h, propagate, e), {k}, <<m>>)
    BY <2>5, OutputsDo
  <2>7. m = [kind |-> "StartBreak", lock |-> k.lock, remaining |-> n]
    BY <2>2
  <2>8. QED
    BY <1>1, <2>1, <2>2, <2>6, <2>7 DEF MayStart
<1>4. QED
  BY <1>2, <1>3

\* start_manual_break
LEMMA StartManualDoes ==
    ASSUME NEW d, Coherent(d), d.cmds = <<>>, NEW name, NEW propagate
    PROVE  MayStart(d, StartManual(d, name, propagate))
<1> DEFINE f == [d EXCEPT !.sched = AfterManualBreak(@, name)]
           g == UpdateStatus(f)
           b == Break(name, Manual)
<1>1. Does(d, d, d.current, <<>>) /\ DOMAIN d = DaemonFields /\ d.now \in Int
  BY DEF Does, Coherent, Agreed
<1>2. CASE StartManualBreak(d.sched, name) = {}
  BY <1>1, <1>2 DEF StartManual, MayStart
<1>3. CASE StartManualBreak(d.sched, name) # {}
  <2>1. StartManual(d, name, propagate) = StartBreakAt(g, b, Autolock[name], d.now, propagate)
    BY <1>3 DEF StartManual
  <2>2. d.current = {} /\ name \in Rules
    BY <1>3 DEF StartManualBreak, ManualAvailable, Coherent, Agreed
  <2>3. Does(d, f, {}, <<>>) /\ DOMAIN f = DaemonFields /\ f.now = d.now
    BY <1>1, <2>2, OutputsDo DEF DaemonFields
  <2> HIDE DEF f
  <2>4. Does(d, g, {}, <<>>) /\ g.now = d.now
    BY <2>3, OutputsDo, UpdateStatusShows
  <2> HIDE DEF g
  <2>5. Autolock[name] \in BOOLEAN /\ b.name \in Rules
    BY <2>2, DurationsAssumption DEF Break
  <2> HIDE DEF b
  <2>6. MayStart(d, StartBreakAt(g, b, Autolock[name], g.now, propagate))
    BY <1>1, <2>2, <2>4, <2>5, StartBreakAtDoes
  <2>7. QED
    BY <2>1, <2>4, <2>6
<1>4. QED
  BY <1>2, <1>3

\* advance_active
LEMMA AdvanceSchedulerDoes ==
    ASSUME NEW d, Coherent(d), NEW f, f.sched = d.sched, f.now = d.now,
           Does(d, f, d.current, <<>>), NEW e \in Nat
    PROVE  MayStart(d, AdvanceScheduler(f, e))
<1> DEFINE started == AdvanceActiveBreak(f.sched, e)
           b == CHOOSE b \in started : TRUE
           g == [f EXCEPT !.sched = AdvanceActive(@, e)]
           h == ClearNotice(g)
           i == UpdateStatus(h)
<1>1. AdvanceScheduler(f, e) =
          IF started = {} THEN NotifyUpcoming(UpdateStatus(g))
          ELSE StartBreakAt(i, b, Autolock[b.name], f.now, TRUE)
  BY DEF AdvanceScheduler
<1>2. /\ Does(d, g, d.current, <<>>) /\ DOMAIN g = DaemonFields /\ g.now = d.now
      /\ d.now \in Int /\ f.now = d.now
  BY OutputsDo DEF Does, DaemonFields, Coherent, Agreed
<1> HIDE DEF g
<1>3. CASE started = {}
  <2>1. Does(d, UpdateStatus(g), d.current, <<>>)
    BY <1>2, OutputsDo
  <2>2. Does(d, NotifyUpcoming(UpdateStatus(g)), d.current, <<>>)
    BY <2>1, OutputsDo
  <2>3. QED
    BY <1>1, <1>3, <2>2 DEF MayStart
<1>4. CASE started # {}
  <2>1. d.sched.phase = "Ready" /\ d.current = {}
    BY <1>4 DEF AdvanceActiveBreak, IsActive, Coherent, Agreed
  <2>2. b.name \in Rules /\ Autolock[b.name] \in BOOLEAN
    <3>1. f.sched \in Schedulers
      BY DEF Coherent, Agreed, SoundScheduler
    <3>2. started \in SUBSET Breaks
      BY <3>1, AdvanceActiveBreakType
    <3>3. b \in Breaks
      BY <1>4, <3>2
    <3>4. QED
      BY <3>3, DurationsAssumption DEF Breaks
  <2> HIDE DEF b, started
  <2>3. Does(d, h, d.current, <<>>) /\ DOMAIN h = DaemonFields /\ h.now = d.now
    BY <1>2, OutputsDo, OutputsAlike DEF Alike
  <2> HIDE DEF h
  <2>4. Does(d, i, d.current, <<>>) /\ i.now = d.now
    BY <2>3, OutputsDo, UpdateStatusShows
  <2> HIDE DEF i
  <2>5. MayStart(d, StartBreakAt(i, b, Autolock[b.name], i.now, TRUE))
    BY <1>2, <2>1, <2>2, <2>4, StartBreakAtDoes
  <2>6. QED
    BY <1>1, <1>2, <1>4, <2>4, <2>5
<1>5. QED
  BY <1>3, <1>4

\* observe_active
LEMMA ObserveActiveDoes ==
    ASSUME NEW d, Coherent(d), d.cmds = <<>>, NEW e \in Nat, NEW propagate
    PROVE  MayStart(d, ObserveActive(d, e, propagate))
<1> DEFINE i == [d EXCEPT !.idleTime = NotIdle, !.idleCount = NotIdle]
           f == BroadcastIf(i, propagate, [kind |-> "ActiveTimeElapsed", elapsed |-> e])
           n == IF d.seen THEN d.budget - Counted(d, e) ELSE d.budget
           g == [f EXCEPT !.budget = n]
<1>1. Counted(d, e) \in Nat
  BY DEF Counted, EarlierOf, Coherent, Agreed
<1>2. /\ Does(d, i, d.current, <<>>) /\ DOMAIN i = DaemonFields
      /\ i.sched = d.sched /\ i.now = d.now /\ i.budget = d.budget
  BY DEF Does, Coherent, Agreed, DaemonFields
<1>3. ObserveActive(d, e, propagate) =
          LET h == [f EXCEPT !.budget = IF d.seen THEN @ - Counted(d, e) ELSE @]
          IN  IF Counted(d, e) = 0 THEN h ELSE AdvanceScheduler(h, Counted(d, e))
  BY DEF ObserveActive
<1> HIDE DEF i
<1>4. /\ Does(d, f, d.current, <<>>) /\ DOMAIN f = DaemonFields
      /\ f.sched = d.sched /\ f.now = d.now /\ f.budget = d.budget
  <2>1. Does(d, f, d.current, <<>>)
    BY <1>2, OutputsDo
  <2>2. Alike(i, f)
    BY <1>2, OutputsAlike
  <2>3. QED
    BY <1>2, <2>1, <2>2 DEF Alike
<1> HIDE DEF f
<1>5. g = [f EXCEPT !.budget = IF d.seen THEN @ - Counted(d, e) ELSE @]
  BY <1>4
<1> HIDE DEF n
<1>6. Does(d, g, d.current, <<>>) /\ g.sched = d.sched /\ g.now = d.now
  BY <1>4 DEF Does, DaemonFields
<1> HIDE DEF g
<1>7. MayStart(d, AdvanceScheduler(g, Counted(d, e)))
  BY <1>1, <1>6, AdvanceSchedulerDoes
<1>8. QED
  BY <1>3, <1>5, <1>6, <1>7 DEF MayStart

\* advance_idle and advance_wall_clock
LEMMA TimeDoes ==
    ASSUME NEW d, DOMAIN d = DaemonFields, d.cmds = <<>>, NEW e
    PROVE  /\ Does(d, AdvanceIdle(d, e), d.current, <<>>)
           /\ Does(d, WallClock(d, e), d.current, <<>>)
<1>1. Does(d, AdvanceIdle(d, e), d.current, <<>>)
  <2> DEFINE f == [d EXCEPT !.idleTime = IdleAdvance(@, ResetAfterIdle, e),
                            !.idleCount = IdleAdvance(@, ResetCountAfterIdle, e)]
             g == [f EXCEPT !.sched = ResetActiveTime(@)]
             h == [f EXCEPT !.idleTime.triggered = TRUE, !.idleCount.triggered = TRUE,
                            !.sched = ResetPosition(@)]
  <2>1. \/ AdvanceIdle(d, e) \in {UpdateStatus(ClearNotice(g)), f}
        \/ \E b, m : AdvanceIdle(d, e) = BroadcastIf(UpdateStatus(ClearNotice(h)), b, m)
    BY DEF AdvanceIdle, SchedulerReset
  <2>2. Does(d, f, d.current, <<>>)
    BY DEF Does, DaemonFields
  <2> HIDE DEF f
  <2>3. Does(d, g, d.current, <<>>) /\ Does(d, h, d.current, <<>>)
    BY <2>2 DEF Does, DaemonFields
  <2> HIDE DEF g, h
  <2>4. Does(d, ClearNotice(g), d.current, <<>>) /\ Does(d, ClearNotice(h), d.current, <<>>)
    BY <2>3, OutputsDo
  <2>5. /\ Does(d, UpdateStatus(ClearNotice(g)), d.current, <<>>)
        /\ Does(d, UpdateStatus(ClearNotice(h)), d.current, <<>>)
    BY <2>4, OutputsDo
  <2>6. \A b, m : Does(d, BroadcastIf(UpdateStatus(ClearNotice(h)), b, m), d.current, <<>>)
    BY <2>5, OutputsDo
  <2>7. QED
    BY <2>1, <2>2, <2>5, <2>6
<1>2. Does(d, WallClock(d, e), d.current, <<>>)
  <2> DEFINE f == [d EXCEPT !.seen = TRUE, !.budget = e]
             g == [f EXCEPT !.sched = Enable(@), !.disable = Enabled]
             h == BroadcastIf(UpdateStatus(g), FALSE, [kind |-> "Enable"])
  <2>1. WallClock(d, e) \in {UpdateStatus(h), UpdateStatus(f)}
    BY DEF WallClock, EnableBreaks
  <2>2. Does(d, f, d.current, <<>>)
    BY DEF Does, DaemonFields
  <2> HIDE DEF f
  <2>3. Does(d, g, d.current, <<>>)
    BY <2>2 DEF Does, DaemonFields
  <2> HIDE DEF g
  <2>4. Does(d, UpdateStatus(g), d.current, <<>>)
    BY <2>3, OutputsDo
  <2>5. Does(d, h, d.current, <<>>)
    BY <2>4, OutputsDo
  <2> HIDE DEF h
  <2>6. QED
    BY <2>1, <2>2, <2>5, OutputsDo
<1>3. QED
  BY <1>1, <1>2

\* break_start_failed, finish_break and request_lock_after_current_break
LEMMA BreakEventsDo ==
    ASSUME NEW d, DOMAIN d = DaemonFields, d.cmds = <<>>
    PROVE  /\ Does(d, BreakStartFailed(d), {}, <<>>)
           /\ Does(d, BreakFinished(d), {},
                   IF d.current = {} THEN <<>>
                   ELSE <<[kind |-> "FinishBreak", lock |-> \E c \in d.current : c.lock]>>)
           /\ \A propagate :
                  IF \E c \in d.current : ~c.lock
                  THEN Does(d, RequestLock(d, propagate),
                            {[c EXCEPT !.lock = TRUE] : c \in d.current},
                            <<[kind |-> "RequestLock"]>>)
                  ELSE RequestLock(d, propagate) = d
<1> DEFINE c == ClearNotice(d)
           f == [c EXCEPT !.current = {}]
           g == FinishScheduler(f)
<1>1. Does(d, d, d.current, <<>>)
  BY DEF Does
<1>2. Does(d, c, d.current, <<>>)
  BY <1>1, OutputsDo
<1> HIDE DEF c
<1>3. Does(d, f, {}, <<>>)
  BY <1>2, OutputsDo
<1> HIDE DEF f
<1>4. Does(d, g, {}, <<>>)
  BY <1>3, FinishSchedulerDoes
<1> HIDE DEF g
<1>5. Does(d, BreakStartFailed(d), {}, <<>>)
  BY <1>4 DEF BreakStartFailed, g, f, c
<1>6. CASE d.current = {}
  <2>1. BreakFinished(d) = c
    BY <1>6 DEF BreakFinished, c
  <2>2. QED
    BY <1>2, <1>5, <1>6, <2>1 DEF RequestLock
<1>7. CASE d.current # {}
  <2> DEFINE m == [kind |-> "FinishBreak", lock |-> \E b \in d.current : b.lock]
             L == {[b EXCEPT !.lock = TRUE] : b \in d.current}
             h == [d EXCEPT !.current = L]
             i == Command(h, [kind |-> "RequestLock"])
  <2>1. BreakFinished(d) = Command(g, m)
    BY <1>7 DEF BreakFinished, g, f, c
  <2>2. Does(d, Command(g, m), {}, <<m>>)
    BY <1>4, OutputsDo
  <2>3. Does(d, h, L, <<>>)
    BY <1>1, OutputsDo
  <2>4. \A propagate :
            RequestLock(d, propagate) =
                IF \E b \in d.current : ~b.lock
                THEN BroadcastIf(i, propagate, [kind |-> "LockAfterCurrentBreak"]) ELSE d
    BY DEF RequestLock
  <2> HIDE DEF h
  <2>5. Does(d, i, L, <<[kind |-> "RequestLock"]>>)
    BY <2>3, OutputsDo
  <2> HIDE DEF i, L
  <2>6. \A b, e : Does(d, BroadcastIf(i, b, e), L, <<[kind |-> "RequestLock"]>>)
    BY <2>5, OutputsDo
  <2>7. \A propagate :
            IF \E b \in d.current : ~b.lock
            THEN Does(d, RequestLock(d, propagate), L, <<[kind |-> "RequestLock"]>>)
            ELSE RequestLock(d, propagate) = d
    BY <2>4, <2>6
  <2> HIDE DEF m
  <2>8. Does(d, BreakFinished(d), {}, <<m>>)
    BY <2>1, <2>2
  <2>9. QED
    BY <1>5, <1>7, <2>7, <2>8 DEF L, m
<1>8. QED
  BY <1>6, <1>7

\* disable_scheduler and enable: what was pending is cleared, or nothing is told.
LEMMA DisablingDoes ==
    ASSUME NEW d, DOMAIN d = DaemonFields, d.cmds = <<>>, NEW propagate
    PROVE  /\ Does(d, EnableBreaks(d, propagate), d.current, <<>>)
           /\ \E cs \in {<<>>, <<[kind |-> "ClearBreak"]>>} :
                 Does(d, DisableUntilRestart(d, propagate), {}, cs)
<1> DEFINE e == [d EXCEPT !.sched = Enable(@), !.disable = Enabled]
           g == [d EXCEPT !.disable = UntilRestart]
           f == [g EXCEPT !.current = {}, !.sched = Disable(@)]
           h == UpdateStatus(ClearNotice(f))
           k == [kind |-> "ClearBreak"]
<1>1. Does(d, e, d.current, <<>>) /\ Does(d, f, {}, <<>>)
  BY DEF Does, DaemonFields
<1>2. /\ \E u : EnableBreaks(d, propagate) = BroadcastIf(UpdateStatus(e), propagate, u)
      /\ DisableBreaks(g) \in {h, Command(h, k)}
      /\ \E u : DisableUntilRestart(d, propagate) = BroadcastIf(DisableBreaks(g), propagate, u)
  BY DEF EnableBreaks, DisableBreaks, DisableUntilRestart
<1> HIDE DEF e, f, g, k
<1>3. Does(d, UpdateStatus(e), d.current, <<>>) /\ Does(d, ClearNotice(f), {}, <<>>)
  BY <1>1, OutputsDo
<1>4. Does(d, h, {}, <<>>)
  BY <1>3, OutputsDo
<1> HIDE DEF h
<1>5. Does(d, Command(h, k), {}, <<k>>)
  BY <1>4, OutputsDo
<1>6. PICK cs \in {<<>>, <<k>>} : Does(d, DisableBreaks(g), {}, cs)
  BY <1>2, <1>4, <1>5
<1>7. Does(d, EnableBreaks(d, propagate), d.current, <<>>)
  <2> DEFINE w == UpdateStatus(e)
  <2>1. PICK u : EnableBreaks(d, propagate) = BroadcastIf(w, propagate, u)
    BY <1>2
  <2>2. Does(d, w, d.current, <<>>)
    BY <1>3
  <2> HIDE DEF w
  <2>3. Does(d, BroadcastIf(w, propagate, u), d.current, <<>>)
    BY <2>2, OutputsDo
  <2>4. QED
    BY <2>1, <2>3
<1>8. Does(d, DisableUntilRestart(d, propagate), {}, cs)
  <2> DEFINE w == DisableBreaks(g)
  <2>1. PICK u : DisableUntilRestart(d, propagate) = BroadcastIf(w, propagate, u)
    BY <1>2
  <2>2. Does(d, w, {}, cs)
    BY <1>6
  <2> HIDE DEF w
  <2>3. Does(d, BroadcastIf(w, propagate, u), {}, cs)
    BY <2>2, OutputsDo
  <2>4. QED
    BY <2>1, <2>3
<1>9. QED
  BY <1>7, <1>8 DEF k

\* disable_scheduler: a current break is taken away, and nothing is told without.
LEMMA DisableDoes ==
    ASSUME NEW d, Coherent(d), d.cmds = <<>>, NEW propagate
    PROVE  LET cs == IF d.current = {} THEN <<>> ELSE <<[kind |-> "ClearBreak"]>>
           IN  /\ \A t : Does(d, DisableFor(d, t, propagate), {}, cs)
               /\ Does(d, DisableUntilRestart(d, propagate), {}, cs)
<1> DEFINE cs == IF d.current = {} THEN <<>> ELSE <<[kind |-> "ClearBreak"]>>
<1>1. DOMAIN d = DaemonFields /\ (d.current # {} <=> d.sched.phase = "Pending")
  BY DEF Coherent, Agreed
<1>2. ASSUME NEW m, NEW u
      PROVE  Does(d, BroadcastIf(DisableBreaks([d EXCEPT !.disable = m]), propagate, u), {}, cs)
  <2> DEFINE g == [d EXCEPT !.disable = m]
             f == [g EXCEPT !.current = {}, !.sched = Disable(@)]
             h == UpdateStatus(ClearNotice(f))
             k == [kind |-> "ClearBreak"]
             w == DisableBreaks(g)
  <2>1. w = IF g.sched.phase = "Pending" THEN Command(h, k) ELSE h
    BY DEF DisableBreaks
  <2>2. g.sched = d.sched /\ Does(d, f, {}, <<>>)
    BY <1>1 DEF Does, DaemonFields
  <2> HIDE DEF f, g, k
  <2>3. Does(d, ClearNotice(f), {}, <<>>)
    BY <2>2, OutputsDo
  <2>4. Does(d, h, {}, <<>>)
    BY <2>3, OutputsDo
  <2> HIDE DEF h
  <2>5. Does(d, Command(h, k), {}, <<k>>)
    BY <2>4, OutputsDo
  <2> HIDE DEF w
  <2>6. Does(d, w, {}, cs)
    BY <1>1, <2>1, <2>2, <2>4, <2>5 DEF k
  <2> HIDE DEF cs
  <2>7. Does(d, BroadcastIf(w, propagate, u), {}, cs)
    BY <2>6, OutputsDo
  <2>8. QED
    BY <2>7 DEF w, g
<1>3. QED
  BY <1>2 DEF DisableFor, DisableUntilRestart

-----------------------------------------------------------------------------
(* handle_sync_event, seen from the backend                                *)

\* What a peer's event may bring about: a break is started, another takes the place
\* of the current one, this one is taken away, or its lock is asked for.
StartsOne(d, f) ==
    /\ d.current = {}
    /\ \E c : \E n \in Nat :
          /\ "lock" \in DOMAIN c /\ c.lock \in BOOLEAN
          /\ Does(d, f, {c}, <<[kind |-> "StartBreak", lock |-> c.lock, remaining |-> n]>>)
Swaps(d, f) ==
    /\ d.current # {}
    /\ \E c : \E n \in Nat :
          /\ "lock" \in DOMAIN c /\ c.lock \in BOOLEAN
          /\ Does(d, f, {c}, <<[kind |-> "ReplaceActiveBreak", remaining |-> n, lock |-> c.lock]>>)
TakesAway(d, f) == d.current # {} /\ Does(d, f, {}, <<[kind |-> "ClearBreak"]>>)
Asks(d, f) ==
    /\ \E c \in d.current : ~c.lock
    /\ Does(d, f, {[c EXCEPT !.lock = TRUE] : c \in d.current}, <<[kind |-> "RequestLock"]>>)

Tells(d, f) ==
    \/ Does(d, f, d.current, <<>>)
    \/ StartsOne(d, f) \/ Swaps(d, f) \/ TakesAway(d, f) \/ Asks(d, f)

\* merge_synced_position tells nothing more.
LEMMA MergeTells ==
    ASSUME NEW d, NEW f, NEW p
    PROVE  /\ \A cur, cs : Does(d, f, cur, cs) => Does(d, MergeAndShow(f, p), cur, cs)
           /\ Tells(d, f) => Tells(d, MergeAndShow(f, p))
<1> DEFINE g == [f EXCEPT !.sched = MergePosition(@, p)]
<1>1. MergeAndShow(f, p) \in {g, UpdateStatus(g)}
  BY DEF MergeAndShow
<1>2. ASSUME NEW cur, NEW cs, Does(d, f, cur, cs) PROVE Does(d, MergeAndShow(f, p), cur, cs)
  <2>1. Does(d, g, cur, cs)
    BY <1>2, OutputsDo
  <2> HIDE DEF g
  <2>2. QED
    BY <1>1, <2>1, OutputsDo
<1>3. QED
  BY <1>2 DEF Tells, StartsOne, Swaps, TakesAway, Asks

\* The break starts of peers: how long is left of them, and with which lock.
LEMMA RemainingType ==
    ASSUME NEW d, d.now \in Int, NEW at \in Int, NEW name \in Rules
    PROVE  Remaining(d, at, name) \in Nat
<1>1. Duration[name] \in Nat
  BY DurationsAssumption
<1>2. QED
  BY <1>1 DEF Remaining, LaterOf

\* start_synced_break
LEMMA JoinTells ==
    ASSUME NEW d, Coherent(d), d.cmds = <<>>, d.current = {},
           NEW start, start.name \in Rules, start.at \in Int, NEW p
    PROVE  Tells(d, JoinBreak(d, start, p))
<1> DEFINE S == MergePosition(AfterSyncedBreak(d.sched, start.name, start.origin), p)
           f == [d EXCEPT !.sched = S]
           g == UpdateStatus(f)
           b == Break(start.name, start.origin)
           lock == IF start.lock = {} THEN Autolock[start.name] ELSE TRUE \in start.lock
           n == Remaining(g, start.at, b.name)
           k == CurrentBreak(b, lock, start.at)
           m == [kind |-> "StartBreak", lock |-> lock, remaining |-> n]
           h == [ClearNotice(g) EXCEPT !.current = {k}]
           i == Command(h, m)
<1>1. Does(d, d, {}, <<>>) /\ DOMAIN d = DaemonFields /\ d.now \in Int
  BY DEF Does, Coherent, Agreed
<1>2. CASE StartSyncedBreak(d.sched, start.name, start.origin) = {}
  BY <1>1, <1>2 DEF JoinBreak, Tells
<1>3. CASE StartSyncedBreak(d.sched, start.name, start.origin) # {}
  <2>1. JoinBreak(d, start, p) = StartBreakAt(g, b, lock, start.at, FALSE)
    BY <1>3 DEF JoinBreak
  <2>2. StartBreakAt(g, b, lock, start.at, FALSE) =
            IF n = 0 THEN FinishScheduler(g)
            ELSE BroadcastIf(i, FALSE, BreakStarted(g, b, start.at))
    BY DEF StartBreakAt
  <2>3. lock \in BOOLEAN /\ b.name = start.name
    <3>1. Autolock[start.name] \in BOOLEAN
      BY DurationsAssumption
    <3>2. (TRUE \in start.lock) \in BOOLEAN
      OBVIOUS
    <3>3. b.name = start.name
      BY DEF Break
    <3> HIDE DEF b
    <3>4. QED
      BY <3>1, <3>2, <3>3
  <2> HIDE DEF b, lock, S
  <2>4. Does(d, f, {}, <<>>) /\ DOMAIN f = DaemonFields /\ f.now = d.now
    BY <1>1 DEF Does, DaemonFields
  <2> HIDE DEF f
  <2>5. Does(d, g, {}, <<>>) /\ g.now = d.now
    BY <2>4, OutputsDo, UpdateStatusShows
  <2> HIDE DEF g
  <2>6. n \in Nat
    BY <1>1, <2>3, <2>5, RemainingType
  <2>7. k.lock = lock /\ "lock" \in DOMAIN k
    BY DEF CurrentBreak
  <2> HIDE DEF n, k
  <2>8. CASE n = 0
    <3>1. Does(d, FinishScheduler(g), {}, <<>>)
      BY <2>5, FinishSchedulerDoes
    <3>2. QED
      BY <2>1, <2>2, <2>8, <3>1 DEF Tells
  <2>9. CASE n # 0
    <3>1. Does(d, ClearNotice(g), {}, <<>>)
      BY <2>5, OutputsDo
    <3>2. Does(d, h, {k}, <<>>)
      BY <3>1, OutputsDo
    <3> HIDE DEF h
    <3>3. Does(d, i, {k}, <<m>>)
      BY <3>2, OutputsDo
    <3> HIDE DEF i
    <3>4. \A u : Does(d, BroadcastIf(i, FALSE, u), {k}, <<m>>)
      BY <3>3, OutputsDo
    <3>5. m = [kind |-> "StartBreak", lock |-> k.lock, remaining |-> n]
      BY <2>7
    <3>6. Does(d, JoinBreak(d, start, p), {k}, <<m>>)
      BY <2>1, <2>2, <2>9, <3>4
    <3>7. QED
      BY <2>3, <2>6, <2>7, <3>5, <3>6 DEF Tells, StartsOne
  <2>10. QED
    BY <2>8, <2>9
<1>4. QED
  BY <1>2, <1>3

\* The replacement branch of apply_synced_break_start
LEMMA ReplaceTells ==
    ASSUME NEW d, Coherent(d), d.cmds = <<>>, NEW c \in d.current, c.lock \in BOOLEAN,
           NEW start, start.name \in Rules, start.at \in Int, NEW p
    PROVE  Tells(d, ReplaceBreak(d, c, start, p))
<1> DEFINE S == MergePosition(AfterReplacement(d.sched, start.name, start.origin), p)
           f == [d EXCEPT !.sched = S]
           b == Break(start.name, start.origin)
           lock == IF start.lock = {} THEN Autolock[start.name] \/ c.lock
                   ELSE TRUE \in start.lock
           n == Remaining(d, start.at, start.name)
           k == CurrentBreak(b, lock, start.at)
           m == [kind |-> "ReplaceActiveBreak", remaining |-> n, lock |-> lock]
           g == [f EXCEPT !.current = {}]
           h == [f EXCEPT !.current = {k}]
           z == [kind |-> "ClearBreak"]
<1>1. Does(d, d, d.current, <<>>) /\ d.now \in Int
  BY DEF Does, Coherent, Agreed
<1>2. CASE ReplacementBreak(d.sched, start.name, start.origin) = {}
  BY <1>1, <1>2 DEF ReplaceBreak, Tells
<1>3. CASE ReplacementBreak(d.sched, start.name, start.origin) # {}
  <2>1. ReplaceBreak(d, c, start, p) =
            IF n = 0 THEN Command(FinishScheduler(g), z) ELSE Command(h, m)
    BY <1>3 DEF ReplaceBreak
  <2>2. lock \in BOOLEAN
    <3>1. (Autolock[start.name] \/ c.lock) \in BOOLEAN
      OBVIOUS
    <3>2. (TRUE \in start.lock) \in BOOLEAN
      OBVIOUS
    <3>3. QED
      BY <3>1, <3>2
  <2>3. n \in Nat
    BY <1>1, RemainingType
  <2>4. k.lock = lock /\ "lock" \in DOMAIN k
    BY DEF CurrentBreak
  <2> HIDE DEF S, lock, n, k, z
  <2>5. Does(d, f, d.current, <<>>)
    BY <1>1, OutputsDo
  <2> HIDE DEF f
  <2>6. CASE n = 0
    <3>1. Does(d, g, {}, <<>>)
      BY <2>5, OutputsDo
    <3> HIDE DEF g
    <3>2. Does(d, FinishScheduler(g), {}, <<>>)
      BY <3>1, FinishSchedulerDoes
    <3>3. Does(d, Command(FinishScheduler(g), z), {}, <<z>>)
      BY <3>2, OutputsDo
    <3>4. QED
      BY <2>1, <2>6, <3>3 DEF Tells, TakesAway, z
  <2>7. CASE n # 0
    <3>1. Does(d, h, {k}, <<>>)
      BY <2>5, OutputsDo
    <3> HIDE DEF h
    <3>2. Does(d, Command(h, m), {k}, <<m>>)
      BY <3>1, OutputsDo
    <3>3. m = [kind |-> "ReplaceActiveBreak", remaining |-> n, lock |-> k.lock]
      BY <2>4
    <3>4. QED
      BY <2>1, <2>2, <2>3, <2>4, <2>7, <3>2, <3>3 DEF Tells, Swaps
  <2>8. QED
    BY <2>6, <2>7
<1>4. QED
  BY <1>2, <1>3

\* apply_synced_break_start
LEMMA SyncedStartTells ==
    ASSUME NEW d, Coherent(d), d.cmds = <<>>, \A c \in d.current : c.lock \in BOOLEAN,
           NEW peer, NEW start, start.at \in Int, NEW p
    PROVE  Tells(d, SyncedBreakStart(d, peer, start, p))
<1> DEFINE c == CHOOSE c \in d.current : TRUE
<1>1. Does(d, d, d.current, <<>>)
  BY DEF Does, Coherent, Agreed
<1>2. \/ SyncedBreakStart(d, peer, start, p) = d
      \/ /\ d.current = {} /\ start.name \in Rules
         /\ SyncedBreakStart(d, peer, start, p) = JoinBreak(d, start, p)
      \/ /\ d.current # {} /\ start.name \in Rules
         /\ SyncedBreakStart(d, peer, start, p) = ReplaceBreak(d, c, start, p)
      \/ SyncedBreakStart(d, peer, start, p) = MergeAndShow(d, p)
  BY DEF SyncedBreakStart
<1>3. d.current # {} => c \in d.current
  OBVIOUS
<1> HIDE DEF c
<1>4. Tells(d, MergeAndShow(d, p)) /\ Tells(d, d)
  BY <1>1, MergeTells DEF Tells
<1>5. d.current = {} /\ start.name \in Rules => Tells(d, JoinBreak(d, start, p))
  BY JoinTells
<1>6. d.current # {} /\ start.name \in Rules => Tells(d, ReplaceBreak(d, c, start, p))
  BY <1>3, ReplaceTells
<1>7. QED
  BY <1>2, <1>4, <1>5, <1>6

\* handle_sync_event
LEMMA SyncEventTells ==
    ASSUME NEW d, Coherent(d), d.cmds = <<>>, \A c \in d.current : c.lock \in BOOLEAN,
           NEW peer, NEW e, SoundPeerEvent(e)
    PROVE  Tells(d, SyncEvent(d, peer, e))
<1>1. DOMAIN d = DaemonFields
  BY DEF Coherent, Agreed
<1>2. CASE e.kind = "ActiveTimeElapsed"
  <2>1. SyncEvent(d, peer, e) = ObserveActive(d, e.elapsed, FALSE) /\ e.elapsed \in Nat
    BY <1>2 DEF SyncEvent, SoundPeerEvent
  <2>2. MayStart(d, SyncEvent(d, peer, e))
    BY <2>1, ObserveActiveDoes
  <2>3. QED
    BY <2>2 DEF MayStart, Tells, StartsOne
<1>3. CASE e.kind = "BreakStarted"
  <2>1. /\ SyncEvent(d, peer, e) = SyncedBreakStart(d, peer, e.start, e.position)
        /\ e.start.at \in Int
    BY <1>3 DEF SyncEvent, SoundPeerEvent
  <2>2. QED
    BY <2>1, SyncedStartTells
<1>4. CASE e.kind = "SchedulerState"
  <2> DEFINE a == CHOOSE a \in e.active : TRUE
             f == IF e.active = {} THEN d ELSE SyncedBreakStart(d, peer, a, e.position)
  <2>1. SyncEvent(d, peer, e) \in {f, MergeAndShow(f, e.position)}
    BY <1>4 DEF SyncEvent, SyncedSchedulerState
  <2>2. e.active # {} => a.at \in Int
    <3>1. \A k \in e.active : k.origin \in Origins /\ k.at \in Nat /\ k.lock \in {{TRUE}, {FALSE}}
      BY <1>4, Zenon DEF SoundPeerEvent
    <3>2. e.active # {} => a \in e.active
      OBVIOUS
    <3> HIDE DEF a
    <3>3. e.active # {} => a.at \in Nat
      BY <3>1, <3>2, Zenon
    <3>4. QED
      BY <3>3
  <2> HIDE DEF a
  <2>3. Tells(d, d)
    BY <1>1 DEF Tells, Does
  <2>4. Tells(d, f)
    BY <2>2, <2>3, SyncedStartTells
  <2> HIDE DEF f
  <2>5. QED
    BY <2>1, <2>4, MergeTells
<1>5. CASE e.kind = "SchedulerReset"
  <2> DEFINE h == [d EXCEPT !.idleTime.triggered = TRUE, !.idleCount.triggered = TRUE,
                            !.sched = ResetPosition(@)]
             w == UpdateStatus(ClearNotice(h))
  <2>1. \E t, u : SyncEvent(d, peer, e) = BroadcastIf(w, t, u)
    BY <1>5 DEF SyncEvent, SchedulerReset
  <2>2. Does(d, h, d.current, <<>>)
    BY <1>1 DEF Does, DaemonFields
  <2> HIDE DEF h
  <2>3. Does(d, ClearNotice(h), d.current, <<>>)
    BY <2>2, OutputsDo
  <2>4. Does(d, w, d.current, <<>>)
    BY <2>3, OutputsDo
  <2> HIDE DEF w
  <2>5. \A t, u : Does(d, BroadcastIf(w, t, u), d.current, <<>>)
    BY <2>4, OutputsDo
  <2>6. QED
    BY <2>1, <2>5 DEF Tells
<1>6. CASE e.kind \in {"DisableFor", "DisableUntilRestart"}
  <2>1. Does(d, SyncEvent(d, peer, e), {},
             IF d.current = {} THEN <<>> ELSE <<[kind |-> "ClearBreak"]>>)
    BY <1>6, DisableDoes DEF SyncEvent
  <2>2. QED
    BY <2>1 DEF Tells, TakesAway
<1>7. CASE e.kind = "Enable"
  <2>1. SyncEvent(d, peer, e) = EnableBreaks(d, FALSE)
    BY <1>7 DEF SyncEvent
  <2>2. QED
    BY <1>1, <2>1, DisablingDoes DEF Tells
<1>8. CASE e.kind = "LockAfterCurrentBreak"
  <2>1. SyncEvent(d, peer, e) = RequestLock(d, FALSE)
    BY <1>8 DEF SyncEvent
  <2>2. IF \E c \in d.current : ~c.lock
        THEN Does(d, RequestLock(d, FALSE), {[c EXCEPT !.lock = TRUE] : c \in d.current},
                  <<[kind |-> "RequestLock"]>>)
        ELSE RequestLock(d, FALSE) = d
    BY <1>1, BreakEventsDo
  <2>3. Does(d, d, d.current, <<>>)
    BY <1>1 DEF Does
  <2>4. QED
    BY <2>1, <2>2, <2>3 DEF Tells, Asks
<1>9. QED
  BY <1>2, <1>3, <1>4, <1>5, <1>6, <1>7, <1>8 DEF SoundPeerEvent

-----------------------------------------------------------------------------
(* Queues of commands and of events, whatever else their elements say       *)

Carries(q, k) == \E i \in DOMAIN q : q[i].kind = k

\* No element of any of the kinds in K comes twice.
AtMostOne(q, K) == \A i, j \in DOMAIN q : q[i].kind \in K /\ q[j].kind \in K => i = j

CarriesAny(q, K) == \E k \in K : Carries(q, k)

LEMMA NoneCarried ==
    ASSUME NEW K
    PROVE  /\ \A k : ~Carries(<<>>, k)
           /\ ~CarriesAny(<<>>, K) /\ AtMostOne(<<>>, K)
BY DEF Carries, CarriesAny, AtMostOne

\* What is sent is added to what was there.
LEMMA CarriedAfterSend ==
    ASSUME NEW S, NEW p \in Seq(S), NEW q \in Seq(S), NEW K
    PROVE  /\ \A k : Carries(p \o q, k) <=> Carries(p, k) \/ Carries(q, k)
           /\ CarriesAny(p \o q, K) <=> CarriesAny(p, K) \/ CarriesAny(q, K)
           /\ AtMostOne(p, K) /\ AtMostOne(q, K) /\ (~CarriesAny(p, K) \/ ~CarriesAny(q, K))
                 => AtMostOne(p \o q, K)
<1>1. /\ p \o q \in Seq(S) /\ Len(p \o q) = Len(p) + Len(q)
      /\ \A i \in DOMAIN p : (p \o q)[i] = p[i] /\ i \in DOMAIN (p \o q)
      /\ \A i \in DOMAIN q : (p \o q)[Len(p) + i] = q[i] /\ Len(p) + i \in DOMAIN (p \o q)
  OBVIOUS
<1>2. \A i \in DOMAIN (p \o q) :
          \/ i \in DOMAIN p /\ (p \o q)[i] = p[i]
          \/ i > Len(p) /\ i - Len(p) \in DOMAIN q /\ (p \o q)[i] = q[i - Len(p)]
  OBVIOUS
<1>3. Len(p) \in Nat /\ DOMAIN p \subseteq Int /\ DOMAIN q \subseteq Int
  OBVIOUS
<1>4. \A k : Carries(p \o q, k) <=> Carries(p, k) \/ Carries(q, k)
  <2> TAKE k
  <2>1. ASSUME Carries(p \o q, k) PROVE Carries(p, k) \/ Carries(q, k)
    <3>1. PICK i \in DOMAIN (p \o q) : (p \o q)[i].kind = k
      BY <2>1 DEF Carries
    <3>2. QED
      BY <1>2, <3>1 DEF Carries
  <2>2. ASSUME NEW i \in DOMAIN p, p[i].kind = k PROVE Carries(p \o q, k)
    BY <1>1, <2>2 DEF Carries
  <2>3. ASSUME NEW i \in DOMAIN q, q[i].kind = k PROVE Carries(p \o q, k)
    BY <1>1, <2>3 DEF Carries
  <2>4. QED
    BY <2>1, <2>2, <2>3 DEF Carries
<1>5. CarriesAny(p \o q, K) <=> CarriesAny(p, K) \/ CarriesAny(q, K)
  BY <1>4 DEF CarriesAny
<1>6. ASSUME AtMostOne(p, K), AtMostOne(q, K), ~CarriesAny(p, K) \/ ~CarriesAny(q, K)
      PROVE  AtMostOne(p \o q, K)
  <2> DEFINE r == p \o q
  <2>1. SUFFICES ASSUME NEW i \in DOMAIN r, NEW j \in DOMAIN r, r[i].kind \in K, r[j].kind \in K
                 PROVE  i = j
    BY DEF AtMostOne
  <2>2. CASE i \in DOMAIN p /\ r[i] = p[i] /\ j \in DOMAIN p /\ r[j] = p[j]
    BY <1>6, <2>1, <2>2 DEF AtMostOne
  <2>3. \A h \in DOMAIN p : p[h].kind \in K => CarriesAny(p, K)
    BY DEF CarriesAny, Carries
  <2>4. \A h \in DOMAIN q : q[h].kind \in K => CarriesAny(q, K)
    BY DEF CarriesAny, Carries
  <2>5. CASE /\ i > Len(p) /\ i - Len(p) \in DOMAIN q /\ r[i] = q[i - Len(p)]
             /\ j > Len(p) /\ j - Len(p) \in DOMAIN q /\ r[j] = q[j - Len(p)]
    <3>1. i - Len(p) = j - Len(p)
      BY <1>6, <2>1, <2>5 DEF AtMostOne
    <3>2. i \in Int /\ j \in Int
      BY <1>1
    <3>3. QED
      BY <1>3, <3>1, <3>2
  <2>6. QED
    BY <1>2, <1>6, <2>1, <2>2, <2>3, <2>4, <2>5
<1>7. QED
  BY <1>4, <1>5, <1>6

\* A single element.
LEMMA CarriedAlone ==
    ASSUME NEW m, NEW K
    PROVE  /\ \A k : Carries(<<m>>, k) <=> m.kind = k
           /\ CarriesAny(<<m>>, K) <=> m.kind \in K
           /\ AtMostOne(<<m>>, K)
BY DEF Carries, CarriesAny, AtMostOne

\* One element sent.
LEMMA CarriedAfterOne ==
    ASSUME NEW S, NEW q \in Seq(S), NEW m \in S
    PROVE  \A k : Carries(q \o <<m>>, k) <=> Carries(q, k) \/ m.kind = k
<1>1. <<m>> \in Seq(S)
  OBVIOUS
<1>2. \A k : Carries(q \o <<m>>, k) <=> Carries(q, k) \/ Carries(<<m>>, k)
  BY <1>1, CarriedAfterSend
<1>3. QED
  BY <1>2, CarriedAlone

\* What is taken was there, and the rest is what was behind it.
LEMMA CarriedAfterTake ==
    ASSUME NEW S, NEW q \in Seq(S), q # <<>>, NEW K
    PROVE  /\ \A k : Carries(q, k) <=> Head(q).kind = k \/ Carries(Tail(q), k)
           /\ CarriesAny(q, K) <=> Head(q).kind \in K \/ CarriesAny(Tail(q), K)
           /\ AtMostOne(q, K) => AtMostOne(Tail(q), K)
           /\ AtMostOne(q, K) /\ Head(q).kind \in K => ~CarriesAny(Tail(q), K)
<1>1. /\ 1 \in DOMAIN q /\ Head(q) = q[1] /\ Tail(q) \in Seq(S)
      /\ \A i \in DOMAIN Tail(q) : i \in Nat /\ i + 1 \in DOMAIN q /\ Tail(q)[i] = q[i + 1]
      /\ \A i \in DOMAIN q : i = 1 \/ (i - 1 \in DOMAIN Tail(q) /\ Tail(q)[i - 1] = q[i])
  OBVIOUS
<1>2. \A k : Carries(q, k) <=> Head(q).kind = k \/ Carries(Tail(q), k)
  <2> TAKE k
  <2>1. ASSUME NEW i \in DOMAIN q, q[i].kind = k PROVE Head(q).kind = k \/ Carries(Tail(q), k)
    BY <1>1, <2>1 DEF Carries
  <2>2. Head(q).kind = k => Carries(q, k)
    BY <1>1 DEF Carries
  <2>3. ASSUME NEW i \in DOMAIN Tail(q), Tail(q)[i].kind = k PROVE Carries(q, k)
    BY <1>1, <2>3 DEF Carries
  <2>4. QED
    BY <2>1, <2>2, <2>3 DEF Carries
<1>3. CarriesAny(q, K) <=> Head(q).kind \in K \/ CarriesAny(Tail(q), K)
  BY <1>2 DEF CarriesAny
<1>4. ASSUME AtMostOne(q, K) PROVE AtMostOne(Tail(q), K)
  <2>1. SUFFICES ASSUME NEW i \in DOMAIN Tail(q), NEW j \in DOMAIN Tail(q),
                        Tail(q)[i].kind \in K, Tail(q)[j].kind \in K
                 PROVE  i = j
    BY DEF AtMostOne
  <2>2. i + 1 = j + 1
    BY <1>1, <1>4, <2>1 DEF AtMostOne
  <2>3. QED
    BY <1>1, <2>2
<1>5. ASSUME AtMostOne(q, K), Head(q).kind \in K, CarriesAny(Tail(q), K) PROVE FALSE
  <2>1. PICK i \in DOMAIN Tail(q) : Tail(q)[i].kind \in K
    BY <1>5 DEF CarriesAny, Carries
  <2>2. i + 1 = 1
    BY <1>1, <1>5, <2>1 DEF AtMostOne
  <2>3. QED
    BY <1>1, <2>1, <2>2
<1>6. QED
  BY <1>2, <1>3, <1>4, <1>5

-----------------------------------------------------------------------------
(* handle_event, seen from the backend                                     *)

\* The daemon f that d becomes stops.
Stops(d, f) ==
    /\ DOMAIN f = DaemonFields
    /\ f.current = d.current /\ f.up = d.up /\ f.cmds = d.cmds /\ ~f.running

\* Time that passes may start a break, a break by hand too; the end of a break is
\* confirmed; a lock is asked for once.
LEMMA LocalEventDoes ==
    ASSUME NEW d, Coherent(d), d.cmds = <<>>
    PROVE  /\ \A n \in Nat :
                  /\ MayStart(d, LocalEvent(d, [kind |-> "ActiveTimeElapsed", elapsed |-> n]))
                  /\ Does(d, LocalEvent(d, [kind |-> "IdleTimeElapsed", elapsed |-> n]), d.current, <<>>)
                  /\ Does(d, LocalEvent(d, [kind |-> "WallClockElapsed", elapsed |-> n]), d.current, <<>>)
           /\ \A name : MayStart(d, LocalEvent(d, [kind |-> "StartManualBreak", name |-> name]))
           /\ Does(d, LocalEvent(d, [kind |-> "BreakStartFailed"]), {}, <<>>)
           /\ Does(d, LocalEvent(d, [kind |-> "BreakFinished"]), {},
                   IF d.current = {} THEN <<>>
                   ELSE <<[kind |-> "FinishBreak", lock |-> \E c \in d.current : c.lock]>>)
           /\ IF \E c \in d.current : ~c.lock
              THEN Does(d, LocalEvent(d, [kind |-> "LockAfterCurrentBreak"]),
                        {[c EXCEPT !.lock = TRUE] : c \in d.current},
                        <<[kind |-> "RequestLock"]>>)
              ELSE LocalEvent(d, [kind |-> "LockAfterCurrentBreak"]) = d
           /\ Stops(d, LocalEvent(d, [kind |-> "Shutdown"]))
<1>1. DOMAIN d = DaemonFields
  BY DEF Coherent, Agreed
<1>2. ASSUME NEW n \in Nat
      PROVE  /\ MayStart(d, LocalEvent(d, [kind |-> "ActiveTimeElapsed", elapsed |-> n]))
             /\ Does(d, LocalEvent(d, [kind |-> "IdleTimeElapsed", elapsed |-> n]), d.current, <<>>)
             /\ Does(d, LocalEvent(d, [kind |-> "WallClockElapsed", elapsed |-> n]), d.current, <<>>)
  <2>1. MayStart(d, LocalEvent(d, [kind |-> "ActiveTimeElapsed", elapsed |-> n]))
    BY ObserveActiveDoes DEF LocalEvent
  <2>2. Does(d, LocalEvent(d, [kind |-> "IdleTimeElapsed", elapsed |-> n]), d.current, <<>>)
    BY <1>1, TimeDoes DEF LocalEvent
  <2>3. Does(d, LocalEvent(d, [kind |-> "WallClockElapsed", elapsed |-> n]), d.current, <<>>)
    BY <1>1, TimeDoes DEF LocalEvent
  <2>4. QED
    BY <2>1, <2>2, <2>3
<1>3. \A name : MayStart(d, LocalEvent(d, [kind |-> "StartManualBreak", name |-> name]))
  BY StartManualDoes DEF LocalEvent
<1>4. /\ LocalEvent(d, [kind |-> "BreakStartFailed"]) = BreakStartFailed(d)
      /\ LocalEvent(d, [kind |-> "BreakFinished"]) = BreakFinished(d)
      /\ LocalEvent(d, [kind |-> "LockAfterCurrentBreak"]) = RequestLock(d, TRUE)
      /\ LocalEvent(d, [kind |-> "Shutdown"]) = [ClearNotice(d) EXCEPT !.running = FALSE]
  BY DEF LocalEvent
<1>5. Stops(d, LocalEvent(d, [kind |-> "Shutdown"]))
  BY <1>1, <1>4 DEF Stops, ClearNotice, DaemonFields
<1>6. Does(d, LocalEvent(d, [kind |-> "BreakStartFailed"]), {}, <<>>)
  BY <1>1, <1>4, BreakEventsDo
<1>7. Does(d, LocalEvent(d, [kind |-> "BreakFinished"]), {},
           IF d.current = {} THEN <<>>
           ELSE <<[kind |-> "FinishBreak", lock |-> \E c \in d.current : c.lock]>>)
  BY <1>1, <1>4, BreakEventsDo
<1>8. IF \E c \in d.current : ~c.lock
      THEN Does(d, RequestLock(d, TRUE), {[c EXCEPT !.lock = TRUE] : c \in d.current},
                <<[kind |-> "RequestLock"]>>)
      ELSE RequestLock(d, TRUE) = d
  BY <1>1, BreakEventsDo
<1>9. IF \E c \in d.current : ~c.lock
      THEN Does(d, LocalEvent(d, [kind |-> "LockAfterCurrentBreak"]),
                {[c EXCEPT !.lock = TRUE] : c \in d.current}, <<[kind |-> "RequestLock"]>>)
      ELSE LocalEvent(d, [kind |-> "LockAfterCurrentBreak"]) = d
  BY <1>4, <1>8
<1>10. QED
  BY <1>2, <1>3, <1>5, <1>6, <1>7, <1>9

-----------------------------------------------------------------------------
(* The channels between the runtime and a backend                          *)

BreakCommands ==
    [kind : {"StartBreak"}, lock : BOOLEAN, remaining : Nat]
        \cup [kind : {"FinishBreak"}, lock : BOOLEAN]
        \cup [kind : {"RequestLock"}]

TimeReports == [kind : {"ActiveTimeElapsed", "IdleTimeElapsed", "WallClockElapsed"}, elapsed : Nat]

Reports ==
    TimeReports
        \cup [kind : {"BreakStartFailed", "BreakFinished", "LockAfterCurrentBreak", "Shutdown"}]

Endings == {"BreakFinished", "BreakStartFailed"}

\* Reports of time that passed say nothing of a break.
LEMMA TimeReportsOnly ==
    ASSUME NEW F \in Seq(TimeReports)
    PROVE  /\ F \in Seq(Reports)
           /\ \A k \in Endings \cup {"LockAfterCurrentBreak", "Shutdown"} : ~Carries(F, k)
           /\ ~CarriesAny(F, Endings)
<1>1. TimeReports \subseteq Reports
  BY DEF Reports
<1>2. F \in Seq(Reports)
  BY <1>1
<1>3. \A i \in DOMAIN F : F[i] \in TimeReports
  OBVIOUS
<1>4. \A k \in Endings \cup {"LockAfterCurrentBreak", "Shutdown"} : ~Carries(F, k)
  BY <1>3 DEF Carries, TimeReports, Endings
<1>5. QED
  BY <1>2, <1>4 DEF CarriesAny

-----------------------------------------------------------------------------
(* The order of the commands                                               *)

\* One break at most is being ended and one at most started, in this order.
Ordered(C) ==
    /\ AtMostOne(C, {"FinishBreak"}) /\ AtMostOne(C, {"StartBreak"})
    /\ \A i, j \in DOMAIN C : C[i].kind = "FinishBreak" /\ C[j].kind = "StartBreak" => i < j

LockFollows(C, i) == \E j \in DOMAIN C : j > i /\ C[j].kind = "RequestLock"

\* The current break will be shown with the lock the runtime has recorded.
Starting(cur, C) ==
    \A c \in cur, i \in DOMAIN C :
        C[i].kind = "StartBreak" => (c.lock <=> C[i].lock \/ LockFollows(C, i))

\* A command sent keeps the order when it may follow those on their way.
LEMMA OrderedAfterSend ==
    ASSUME NEW C \in Seq(BreakCommands), Ordered(C), NEW m \in BreakCommands,
           \/ m.kind = "RequestLock"
           \/ m.kind = "FinishBreak" /\ ~Carries(C, "FinishBreak") /\ ~Carries(C, "StartBreak")
           \/ m.kind = "StartBreak" /\ ~Carries(C, "StartBreak")
    PROVE  Ordered(C \o <<m>>)
<1> DEFINE D == C \o <<m>>
           F == {"FinishBreak"}
           S == {"StartBreak"}
<1>1. \A K : CarriesAny(<<m>>, K) <=> m.kind \in K
  BY CarriedAlone
<1>2. \A K : AtMostOne(<<m>>, K)
  BY CarriedAlone
<1>3. <<m>> \in Seq(BreakCommands)
  OBVIOUS
<1>4. \A K : AtMostOne(C, K) /\ (~CarriesAny(C, K) \/ m.kind \notin K) => AtMostOne(D, K)
  <2>1. SUFFICES ASSUME NEW K, AtMostOne(C, K), ~CarriesAny(C, K) \/ m.kind \notin K
                 PROVE  AtMostOne(D, K)
    OBVIOUS
  <2>2. QED
    BY <1>1, <1>2, <1>3, <2>1, CarriedAfterSend
<1>5. \A k : CarriesAny(C, {k}) <=> Carries(C, k)
  BY DEF CarriesAny
<1>6. AtMostOne(D, F)
  BY <1>4, <1>5 DEF Ordered
<1>7. AtMostOne(D, S)
  BY <1>4, <1>5 DEF Ordered
<1>8. ASSUME NEW i \in DOMAIN D, NEW j \in DOMAIN D,
             D[i].kind = "FinishBreak", D[j].kind = "StartBreak"
      PROVE  i < j
  <2>1. \A h \in DOMAIN D : \/ h \in DOMAIN C /\ D[h] = C[h] /\ h < Len(C) + 1
                            \/ h = Len(C) + 1 /\ D[h] = m
    OBVIOUS
  <2>2. \A h \in DOMAIN C : h \in Nat /\ h < Len(C) + 1
    OBVIOUS
  <2>3. CASE i \in DOMAIN C /\ D[i] = C[i]
    <3>1. CASE j \in DOMAIN C /\ D[j] = C[j]
      BY <1>8, <2>3, <3>1 DEF Ordered
    <3>2. CASE j = Len(C) + 1
      BY <2>2, <2>3, <3>2
    <3>3. QED
      BY <2>1, <3>1, <3>2
  <2>4. CASE i = Len(C) + 1 /\ D[i] = m
    <3>1. ~Carries(C, "StartBreak") /\ m.kind = "FinishBreak"
      BY <1>8, <2>4
    <3>2. j \notin DOMAIN C \/ D[j] # C[j]
      BY <1>8, <3>1 DEF Carries
    <3>3. QED
      BY <1>8, <2>1, <3>1, <3>2
  <2>5. QED
    BY <2>1, <2>3, <2>4
<1>9. QED
  BY <1>6, <1>7, <1>8 DEF Ordered

\* Taking a command keeps the order, and nothing is behind a StartBreak but lock
\* requests.
LEMMA OrderedAfterTake ==
    ASSUME NEW C \in Seq(BreakCommands), C # <<>>, Ordered(C)
    PROVE  /\ Ordered(Tail(C))
           /\ Head(C).kind = "StartBreak"
                 => ~Carries(C, "FinishBreak") /\ ~Carries(Tail(C), "StartBreak")
           /\ Head(C).kind = "FinishBreak" => ~Carries(Tail(C), "FinishBreak")
<1> DEFINE D == Tail(C)
<1>1. /\ 1 \in DOMAIN C /\ Head(C) = C[1] /\ D \in Seq(BreakCommands)
      /\ \A i \in DOMAIN D : i \in Nat /\ i + 1 \in DOMAIN C /\ D[i] = C[i + 1]
      /\ \A i \in DOMAIN C : i \in Nat /\ i >= 1
  OBVIOUS
<1>2. \A k : CarriesAny(D, {k}) <=> Carries(D, k)
  BY DEF CarriesAny
<1>3. /\ AtMostOne(D, {"FinishBreak"})
      /\ Head(C).kind = "FinishBreak" => ~Carries(D, "FinishBreak")
  BY <1>2, CarriedAfterTake DEF Ordered
<1>4. /\ AtMostOne(D, {"StartBreak"})
      /\ Head(C).kind = "StartBreak" => ~Carries(D, "StartBreak")
  BY <1>2, CarriedAfterTake DEF Ordered
<1>5. ASSUME NEW i \in DOMAIN D, NEW j \in DOMAIN D,
             D[i].kind = "FinishBreak", D[j].kind = "StartBreak"
      PROVE  i < j
  <2>1. i + 1 < j + 1
    BY <1>1, <1>5 DEF Ordered
  <2>2. QED
    BY <1>1, <2>1
<1>6. ASSUME Head(C).kind = "StartBreak", Carries(C, "FinishBreak") PROVE FALSE
  <2>1. PICK i \in DOMAIN C : C[i].kind = "FinishBreak"
    BY <1>6 DEF Carries
  <2>2. i < 1
    BY <1>1, <1>6, <2>1 DEF Ordered
  <2>3. QED
    BY <1>1, <2>2
<1>7. QED
  BY <1>3, <1>4, <1>5, <1>6 DEF Ordered

\* The lock of the break about to be shown, as commands come and go.
LEMMA StartingAfterTake ==
    ASSUME NEW C \in Seq(BreakCommands), C # <<>>, NEW cur, Starting(cur, C)
    PROVE  /\ Starting(cur, Tail(C))
           /\ Head(C).kind = "StartBreak"
                 => \A c \in cur : c.lock <=> Head(C).lock \/ Carries(Tail(C), "RequestLock")
<1> DEFINE D == Tail(C)
<1>1. /\ 1 \in DOMAIN C /\ Head(C) = C[1]
      /\ \A i \in DOMAIN D : i \in Nat /\ i >= 1 /\ i + 1 \in DOMAIN C /\ D[i] = C[i + 1]
      /\ \A i \in DOMAIN C : i \in Nat /\ (i = 1 \/ (i > 1 /\ i - 1 \in DOMAIN D /\ D[i - 1] = C[i]))
  OBVIOUS
<1>2. ASSUME NEW i \in DOMAIN D PROVE LockFollows(D, i) <=> LockFollows(C, i + 1)
  <2>1. ASSUME LockFollows(D, i) PROVE LockFollows(C, i + 1)
    <3>1. PICK j \in DOMAIN D : j > i /\ D[j].kind = "RequestLock"
      BY <2>1 DEF LockFollows
    <3>2. j + 1 \in DOMAIN C /\ j + 1 > i + 1 /\ C[j + 1].kind = "RequestLock"
      BY <1>1, <3>1
    <3>3. QED
      BY <3>2 DEF LockFollows
  <2>2. ASSUME LockFollows(C, i + 1) PROVE LockFollows(D, i)
    <3>1. PICK j \in DOMAIN C : j > i + 1 /\ C[j].kind = "RequestLock"
      BY <2>2 DEF LockFollows
    <3>2. j - 1 \in DOMAIN D /\ j - 1 > i /\ D[j - 1].kind = "RequestLock"
      BY <1>1, <3>1
    <3>3. QED
      BY <3>2 DEF LockFollows
  <2>3. QED
    BY <2>1, <2>2
<1>3. Starting(cur, D)
  BY <1>1, <1>2 DEF Starting
<1>4. LockFollows(C, 1) <=> Carries(D, "RequestLock")
  <2>1. ASSUME LockFollows(C, 1) PROVE Carries(D, "RequestLock")
    <3>1. PICK j \in DOMAIN C : j > 1 /\ C[j].kind = "RequestLock"
      BY <2>1 DEF LockFollows
    <3>2. j - 1 \in DOMAIN D /\ D[j - 1].kind = "RequestLock"
      BY <1>1, <3>1
    <3>3. QED
      BY <3>2 DEF Carries
  <2>2. ASSUME Carries(D, "RequestLock") PROVE LockFollows(C, 1)
    <3>1. PICK j \in DOMAIN D : D[j].kind = "RequestLock"
      BY <2>2 DEF Carries
    <3>2. j + 1 \in DOMAIN C /\ j + 1 > 1 /\ C[j + 1].kind = "RequestLock"
      BY <1>1, <3>1
    <3>3. QED
      BY <3>2 DEF LockFollows
  <2>3. QED
    BY <2>1, <2>2
<1>5. QED
  BY <1>1, <1>3, <1>4 DEF Starting

LEMMA StartingAfterSend ==
    ASSUME NEW C \in Seq(BreakCommands), NEW m \in BreakCommands, NEW cur
    PROVE  /\ m.kind = "RequestLock" /\ (\A c \in cur : c.lock = TRUE) => Starting(cur, C \o <<m>>)
           /\ m.kind = "StartBreak" /\ ~Carries(C, "StartBreak") /\ (\A c \in cur : c.lock = m.lock)
                 => Starting(cur, C \o <<m>>)
<1> DEFINE D == C \o <<m>>
<1>1. /\ \A i \in DOMAIN D : \/ i \in DOMAIN C /\ D[i] = C[i] /\ i < Len(C) + 1
                             \/ i = Len(C) + 1 /\ D[i] = m
      /\ Len(C) + 1 \in DOMAIN D /\ D[Len(C) + 1] = m /\ Len(C) \in Nat
  OBVIOUS
<1>2. ASSUME m.kind = "RequestLock", \A c \in cur : c.lock = TRUE PROVE Starting(cur, D)
  <2>1. \A i \in DOMAIN D : D[i].kind = "StartBreak" => LockFollows(D, i)
    BY <1>1, <1>2 DEF LockFollows
  <2>2. QED
    BY <1>2, <2>1 DEF Starting
<1>3. ASSUME m.kind = "StartBreak", ~Carries(C, "StartBreak"), \A c \in cur : c.lock = m.lock
      PROVE  Starting(cur, D)
  <2>1. \A i \in DOMAIN D : D[i].kind = "StartBreak" => i = Len(C) + 1 /\ D[i] = m
    BY <1>1, <1>3 DEF Carries
  <2>2. ~LockFollows(D, Len(C) + 1)
    BY <1>1 DEF LockFollows
  <2>3. SUFFICES ASSUME NEW c \in cur, NEW i \in DOMAIN D, D[i].kind = "StartBreak"
                 PROVE  c.lock <=> D[i].lock \/ LockFollows(D, i)
    BY DEF Starting
  <2>4. D[i].lock = m.lock /\ ~LockFollows(D, i)
    BY <2>1, <2>2, <2>3
  <2>5. c.lock = D[i].lock
    BY <1>3, <2>4
  <2>6. QED
    BY <2>4, <2>5
<1>4. QED
  BY <1>2, <1>3

LEMMA NothingSent ==
    ASSUME NEW C \in Seq(BreakCommands)
    PROVE  C \o <<>> = C /\ <<>> \in Seq(BreakCommands)
OBVIOUS

-----------------------------------------------------------------------------
(* What a runtime holds between two events, and what is news to it         *)

SoundRuntime(d) ==
    /\ Coherent(d) /\ d.cmds = <<>>
    /\ \A c \in d.current : "lock" \in DOMAIN c /\ c.lock \in BOOLEAN

LockKnown(d) == \A c \in d.current : "lock" \in DOMAIN c /\ c.lock \in BOOLEAN

\* G says of the end of the break what E says, and no less of anything that is
\* still news to the runtime f that d has become.
SameNews(d, f, E, G) ==
    /\ \A k \in Endings : Carries(G, k) <=> Carries(E, k)
    /\ AtMostOne(E, Endings) => AtMostOne(G, Endings)
    /\ Carries(E, "LockAfterCurrentBreak")
          => Carries(G, "LockAfterCurrentBreak") \/ \A c \in d.current : c.lock
    /\ Carries(E, "Shutdown") \/ ~d.running => Carries(G, "Shutdown") \/ ~f.running

\* Of what the rest of a queue says.
LEMMA NewsOfRest ==
    ASSUME NEW d, NEW f, NEW E \in Seq(Reports), E # <<>>, Head(E).kind \notin Endings,
           Head(E).kind = "LockAfterCurrentBreak" => \A c \in d.current : c.lock,
           Head(E).kind = "Shutdown" \/ ~d.running => ~f.running
    PROVE  SameNews(d, f, E, Tail(E))
<1>1. \A k : Carries(E, k) <=> Head(E).kind = k \/ Carries(Tail(E), k)
  BY CarriedAfterTake
<1>2. AtMostOne(E, Endings) => AtMostOne(Tail(E), Endings)
  BY CarriedAfterTake
<1>3. QED
  BY <1>1, <1>2 DEF SameNews

LEMMA TimeReportHandled ==
    ASSUME NEW d, SoundRuntime(d), NEW e \in TimeReports
    PROVE  MayStart(d, LocalEvent(d, e)) /\ Coherent(LocalEvent(d, e))
<1>1. Coherent(d) /\ d.cmds = <<>>
  BY DEF SoundRuntime
<1>2. PICK k \in {"ActiveTimeElapsed", "IdleTimeElapsed", "WallClockElapsed"}, n \in Nat :
          e = [kind |-> k, elapsed |-> n]
  BY DEF TimeReports
<1>3. Coherent(LocalEvent(d, e))
  BY <1>1, <1>2, LocalEventCoherent
<1>4. CASE k = "ActiveTimeElapsed"
  BY <1>1, <1>2, <1>3, <1>4, LocalEventDoes
<1>5. CASE k \in {"IdleTimeElapsed", "WallClockElapsed"}
  <2>1. Does(d, LocalEvent(d, e), d.current, <<>>)
    BY <1>1, <1>2, <1>5, LocalEventDoes
  <2>2. QED
    BY <1>3, <2>1 DEF MayStart
<1>6. QED
  BY <1>2, <1>4, <1>5
=============================================================================
