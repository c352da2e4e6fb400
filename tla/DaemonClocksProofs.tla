------------------------- MODULE DaemonClocksProofs -------------------------
(***************************************************************************)
(* The daemon and its two clocks for every schedule, every sleep and every *)
(* way the system clock is set.                                            *)
(*                                                                         *)
(* Four accounts are kept, which the conjuncts of ClocksInv are: what the  *)
(* clocks read, what the active time amounts to, what is known of the      *)
(* break and of the timed disable that last began, and what is known of    *)
(* the user's rest as long as the clock was not set.                       *)
(***************************************************************************)
EXTENDS DaemonClocks, OperatorProofs, SequenceTheorems

ActiveTime(s) == AfterActive * s.slot + s.elapsed

Marks == [real : Nat, fwd : Nat, back : Nat]

\* A mark that lies in the past.
Begun(m) ==
    /\ m \in Marks
    /\ m.real <= real /\ m.fwd <= jumped.fwd /\ m.back <= jumped.back

\* What the system clock read at a mark.
ReadAt(m) == m.real + m.fwd - m.back

\* Between turns the runtime is coherent and has said everything it had to say.
Settled(d) == Coherent(d) /\ d.cmds = <<>> /\ d.up /\ d.running

ClocksRead ==
    /\ real \in Nat /\ mono \in Nat /\ due \in BOOLEAN
    /\ jumped \in [fwd : Nat, back : Nat]
    /\ daemon.now = real + jumped.fwd - jumped.back

\* A sample that is due has yet to be counted.
TimeAccounted == ActiveTime(daemon.sched) + (IF due THEN Poll ELSE 0) <= mono

\* The overlay shows a break exactly while the runtime has one, and until the
\* time that was left of it when it began.
BreakAccounted ==
    /\ Begun(started) /\ Begun(disabled)
    /\ active = {} <=> daemon.current = {}
    /\ \A a \in active : \A c \in daemon.current :
           /\ active = {a} /\ daemon.current = {c} /\ c.name \in Rules
           /\ a.deadline = Deadline(ReadAt(started), Duration[c.name])
           /\ DOMAIN a = {"deadline", "seen"} /\ a.seen \in Nat /\ a.seen <= mono

IdleResets == [elapsed : Nat, triggered : BOOLEAN]

\* The idle time has reset the active time, or has not lasted for long enough.
Resting(d) ==
    /\ d.idleTime \in IdleResets
    /\ d.idleTime.triggered => d.sched.elapsed = 0
    /\ ~d.idleTime.triggered => \A t \in ResetAfterIdle : d.idleTime.elapsed < t

\* The idle time counted is x at least, unless it has reset the active time.
Covers(d, x) == ResetAfterIdle # {} /\ ~d.idleTime.triggered => d.idleTime.elapsed >= x

\* The idle time covers what the user has rested up to the last sample.
RestAccounted ==
    /\ Resting(daemon)
    /\ last = {} <=> rested = {}
    /\ \A l \in last : \A r \in rested :
           /\ last = {l} /\ rested = {r} /\ l \in Int /\ r \in Int
           /\ Steady => /\ l + (IF due THEN Poll ELSE 0) <= real
                        /\ Covers(daemon, l - r)

ClocksInv ==
    /\ Settled(daemon)
    /\ ClocksRead /\ TimeAccounted /\ BreakAccounted /\ RestAccounted

-----------------------------------------------------------------------------
(* What the handlers do to the active time, the idle time, the budget and   *)
(* the disable mode                                                         *)

\* f is d but for its breaks, its output and what it displays.
Unmoved(d, f) ==
    /\ DOMAIN f = DaemonFields
    /\ f.now = d.now /\ f.idleTime = d.idleTime /\ f.disable = d.disable
    /\ f.seen = d.seen /\ f.budget = d.budget /\ f.sched = d.sched

\* The same, but for the active time, which may have begun anew.
Rested(d, f) ==
    /\ DOMAIN f = DaemonFields
    /\ f.now = d.now /\ f.idleTime = d.idleTime /\ f.disable = d.disable
    /\ f.seen = d.seen /\ f.budget = d.budget
    /\ f.sched \in Schedulers /\ f.sched.slot = d.sched.slot
    /\ f.sched.elapsed \in {d.sched.elapsed, 0}

LEMMA OutputsUnmoved ==
    ASSUME NEW d, DOMAIN d = DaemonFields
    PROVE  /\ Unmoved(d, d)
           /\ \A c : Unmoved(d, Command(d, c))
           /\ \A b, e : Unmoved(d, BroadcastIf(d, b, e))
           /\ Unmoved(d, ClearNotice(d)) /\ Unmoved(d, NotifyUpcoming(d))
           /\ Unmoved(d, UpdateStatus(d))
           /\ \A x : Unmoved(d, [d EXCEPT !.current = x])
<1>1. \A c : Unmoved(d, Command(d, c))
  BY DEF Unmoved, Command, DaemonFields
<1>2. \A b, e : Unmoved(d, BroadcastIf(d, b, e))
  BY DEF Unmoved, BroadcastIf, Send, DaemonFields
<1>3. Unmoved(d, ClearNotice(d)) /\ Unmoved(d, NotifyUpcoming(d))
  BY DEF Unmoved, ClearNotice, NotifyUpcoming, DaemonFields
<1>4. Unmoved(d, UpdateStatus(d))
  BY DEF Unmoved, UpdateStatus, DaemonFields
<1>5. \A x : Unmoved(d, [d EXCEPT !.current = x])
  BY DEF Unmoved, DaemonFields
<1>6. QED
  BY <1>1, <1>2, <1>3, <1>4, <1>5 DEF Unmoved

LEMMA RestChains ==
    ASSUME NEW d, NEW f, NEW g
    PROVE  /\ Unmoved(d, f) /\ Unmoved(f, g) => Unmoved(d, g)
           /\ Unmoved(d, f) /\ Rested(f, g) => Rested(d, g)
           /\ Rested(d, f) /\ Unmoved(f, g) => Rested(d, g)
           /\ Rested(d, f) /\ Rested(f, g) => Rested(d, g)
BY DEF Unmoved, Rested

\* finish_break of the scheduler with its refresh.
LEMMA FinishSchedulerRests ==
    ASSUME NEW d, DOMAIN d = DaemonFields, d.sched \in Schedulers
    PROVE  Rested(d, FinishScheduler(d))
<1> DEFINE S == FinishBreak(d.sched)
           f == [d EXCEPT !.sched = FinishBreak(@)]
<1>1. S \in Schedulers /\ S.slot = d.sched.slot /\ S.elapsed = 0
  BY DEF FinishBreak, Schedulers
<1>2. f.sched = S
  BY DEF DaemonFields
<1> HIDE DEF S
<1>3. Rested(d, f)
  BY <1>1, <1>2 DEF Rested, DaemonFields
<1>4. FinishScheduler(d) \in {f, UpdateStatus(f)}
  BY DEF FinishScheduler
<1> HIDE DEF f
<1>5. DOMAIN f = DaemonFields
  BY <1>3 DEF Rested
<1>6. Rested(d, UpdateStatus(f))
  BY <1>3, <1>5, OutputsUnmoved, RestChains
<1>7. QED
  BY <1>3, <1>4, <1>6

\* start_break_at
LEMMA StartBreakAtRests ==
    ASSUME NEW d, DOMAIN d = DaemonFields, d.sched \in Schedulers,
           NEW b, NEW lock, NEW at, NEW propagate
    PROVE  Rested(d, StartBreakAt(d, b, lock, at, propagate))
<1> DEFINE c == ClearNotice(d)
           f == [c EXCEPT !.current = {CurrentBreak(b, lock, at)}]
           g == Command(f, [kind |-> "StartBreak", lock |-> lock,
                            remaining |-> Remaining(d, at, b.name)])
           h == BroadcastIf(g, propagate, BreakStarted(d, b, at))
<1>1. StartBreakAt(d, b, lock, at, propagate) \in {FinishScheduler(d), h}
  BY DEF StartBreakAt
<1>2. Unmoved(d, c)
  BY OutputsUnmoved
<1> HIDE DEF c
<1>3. Unmoved(c, f)
  BY <1>2, OutputsUnmoved DEF Unmoved
<1> HIDE DEF f
<1>4. Unmoved(f, g)
  BY <1>3, OutputsUnmoved DEF Unmoved
<1> HIDE DEF g
<1>5. Unmoved(g, h)
  BY <1>4, OutputsUnmoved DEF Unmoved
<1> HIDE DEF h
<1>6. Rested(d, d)
  BY DEF Rested
<1>7. Rested(d, h)
  BY <1>2, <1>3, <1>4, <1>5, <1>6, RestChains
<1>8. QED
  BY <1>1, <1>7, FinishSchedulerRests

\* start_manual_break
LEMMA StartManualRests ==
    ASSUME NEW d, Coherent(d), NEW name, NEW propagate
    PROVE  Rested(d, StartManual(d, name, propagate))
<1> DEFINE S == AfterManualBreak(d.sched, name)
           f == [d EXCEPT !.sched = AfterManualBreak(@, name)]
           g == UpdateStatus(f)
           h == StartBreakAt(g, Break(name, Manual), Autolock[name], d.now, propagate)
<1>1. DOMAIN d = DaemonFields /\ SoundScheduler(d.sched) /\ d.sched \in Schedulers
  BY DEF Coherent, Agreed, SoundScheduler
<1>2. StartManual(d, name, propagate) \in {d, h}
  BY DEF StartManual
<1>3. S \in Schedulers
  BY <1>1, ManualBreakSound DEF SoundScheduler
<1>4. S.slot = d.sched.slot /\ S.elapsed \in {d.sched.elapsed, 0}
  BY <1>1 DEF AfterManualBreak, Pending, Schedulers
<1>5. f.sched = S
  BY <1>1 DEF DaemonFields
<1> HIDE DEF S
<1>6. Rested(d, f)
  BY <1>1, <1>3, <1>4, <1>5 DEF Rested, DaemonFields
<1> HIDE DEF f
<1>7. Unmoved(f, g) /\ Rested(d, g)
  BY <1>6, OutputsUnmoved, RestChains DEF Rested
<1> HIDE DEF g
<1>8. Rested(g, h)
  BY <1>7, StartBreakAtRests DEF Rested
<1>9. Rested(d, d)
  BY <1>1 DEF Rested
<1>10. QED
  BY <1>2, <1>7, <1>8, <1>9, RestChains

\* finish_break
LEMMA BreakFinishedRests ==
    ASSUME NEW d, Coherent(d)
    PROVE  Rested(d, BreakFinished(d))
<1> DEFINE c == ClearNotice(d)
           f == [c EXCEPT !.current = {}]
           g == FinishScheduler(f)
           m == [kind |-> "FinishBreak", lock |-> \E b \in d.current : b.lock]
           h == Command(g, m)
<1>1. DOMAIN d = DaemonFields /\ d.sched \in Schedulers
  BY DEF Coherent, Agreed, SoundScheduler
<1>2. BreakFinished(d) \in {c, h}
  BY DEF BreakFinished
<1>3. Unmoved(d, c) /\ Rested(d, d)
  BY <1>1, OutputsUnmoved DEF Rested
<1> HIDE DEF c
<1>4. Unmoved(c, f)
  BY <1>3, OutputsUnmoved DEF Unmoved
<1> HIDE DEF f
<1>5. Rested(d, c) /\ Rested(d, f)
  BY <1>3, <1>4, RestChains
<1>6. Rested(f, g)
  BY <1>5, FinishSchedulerRests DEF Rested
<1> HIDE DEF g
<1>7. Unmoved(g, h)
  BY <1>6, OutputsUnmoved DEF Rested
<1> HIDE DEF h
<1>8. QED
  BY <1>2, <1>5, <1>6, <1>7, RestChains

\* enable, by hand or at the end of a timed disable.
LEMMA EnableSets ==
    ASSUME NEW d, DOMAIN d = DaemonFields, d.sched \in Schedulers, NEW propagate
    PROVE  LET f == EnableBreaks(d, propagate)
           IN  /\ DOMAIN f = DaemonFields
               /\ f.now = d.now /\ f.idleTime = d.idleTime /\ f.disable = Enabled
               /\ f.seen = d.seen /\ f.budget = d.budget
               /\ f.sched \in Schedulers
               /\ f.sched.slot = d.sched.slot /\ f.sched.elapsed = d.sched.elapsed
<1> DEFINE S == Enable(d.sched)
           f == [d EXCEPT !.sched = Enable(@), !.disable = Enabled]
           g == UpdateStatus(f)
           h == BroadcastIf(g, propagate, [kind |-> "Enable"])
<1>1. S \in Schedulers /\ S.slot = d.sched.slot /\ S.elapsed = d.sched.elapsed
  BY DEF Enable, Schedulers, Modes
<1>2. EnableBreaks(d, propagate) = h
  BY DEF EnableBreaks
<1>3. /\ DOMAIN f = DaemonFields /\ f.sched = S /\ f.disable = Enabled
      /\ f.now = d.now /\ f.idleTime = d.idleTime
      /\ f.seen = d.seen /\ f.budget = d.budget
  BY DEF DaemonFields
<1> HIDE DEF S, f
<1>4. Unmoved(f, g)
  BY <1>3, OutputsUnmoved
<1> HIDE DEF g
<1>5. Unmoved(g, h)
  BY <1>4, OutputsUnmoved DEF Unmoved
<1> HIDE DEF h
<1>6. QED
  BY <1>1, <1>2, <1>3, <1>4, <1>5 DEF Unmoved

\* disable_for
LEMMA DisableForSets ==
    ASSUME NEW d, DOMAIN d = DaemonFields, d.sched \in Schedulers, d.now \in Int,
           NEW t \in Int, NEW propagate
    PROVE  LET f == DisableFor(d, t, propagate)
           IN  /\ DOMAIN f = DaemonFields
               /\ f.now = d.now /\ f.idleTime = d.idleTime
               /\ f.disable = DisabledUntil(d.now + t)
               /\ f.sched \in Schedulers
               /\ f.sched.slot = d.sched.slot /\ f.sched.elapsed = 0
<1> DEFINE S == Disable(d.sched)
           f == [d EXCEPT !.disable = DisabledUntil(d.now + t)]
           g == [f EXCEPT !.current = {}, !.sched = Disable(@)]
           i == ClearNotice(g)
           h == UpdateStatus(i)
           k == Command(h, [kind |-> "ClearBreak"])
           e == [kind |-> "DisableFor", duration |-> t]
<1>1. S \in Schedulers /\ S.slot = d.sched.slot /\ S.elapsed = 0
  BY DEF Disable, Schedulers, Modes
<1>2. \E b \in {h, k} : DisableFor(d, t, propagate) = BroadcastIf(b, propagate, e)
  BY DEF DisableFor, DisableBreaks
<1>3. /\ DOMAIN g = DaemonFields /\ g.sched = S
      /\ g.disable = DisabledUntil(d.now + t)
      /\ g.now = d.now /\ g.idleTime = d.idleTime
  BY DEF DaemonFields
<1> HIDE DEF S, f, g
<1>4. Unmoved(g, i)
  BY <1>3, OutputsUnmoved
<1> HIDE DEF i
<1>5. Unmoved(i, h)
  BY <1>4, OutputsUnmoved DEF Unmoved
<1> HIDE DEF h
<1>6. Unmoved(h, k) /\ Unmoved(h, h)
  BY <1>5, OutputsUnmoved DEF Unmoved
<1> HIDE DEF k
<1>7. PICK b \in {h, k} : DisableFor(d, t, propagate) = BroadcastIf(b, propagate, e)
  BY <1>2
<1>8. Unmoved(g, b)
  BY <1>4, <1>5, <1>6, RestChains
<1>9. Unmoved(b, BroadcastIf(b, propagate, e))
  BY <1>8, OutputsUnmoved DEF Unmoved
<1>10. QED
  BY <1>1, <1>3, <1>7, <1>8, <1>9 DEF Unmoved

\* advance_wall_clock: the budget is set, and a timed disable ends when its time
\* has come.
LEMMA WallClockSets ==
    ASSUME NEW d, DOMAIN d = DaemonFields, d.sched \in Schedulers, NEW e
    PROVE  LET f == WallClock(d, e)
           IN  /\ DOMAIN f = DaemonFields
               /\ f.now = d.now /\ f.idleTime = d.idleTime
               /\ f.disable = IF d.disable.kind = "Timed" /\ d.now >= d.disable.until
                              THEN Enabled ELSE d.disable
               /\ f.seen = TRUE /\ f.budget = e
               /\ f.sched \in Schedulers
               /\ f.sched.slot = d.sched.slot /\ f.sched.elapsed = d.sched.elapsed
<1> DEFINE f == [d EXCEPT !.seen = TRUE, !.budget = e]
           over == d.disable.kind = "Timed" /\ d.now >= d.disable.until
           g == IF over THEN EnableBreaks(f, FALSE) ELSE f
           h == UpdateStatus(g)
<1>1. /\ DOMAIN f = DaemonFields /\ f.sched = d.sched /\ f.disable = d.disable
      /\ f.now = d.now /\ f.idleTime = d.idleTime /\ f.seen = TRUE /\ f.budget = e
  BY DEF DaemonFields
<1>2. WallClock(d, e) = h
  BY DEF WallClock
<1> HIDE DEF f
<1>3. /\ DOMAIN g = DaemonFields /\ g.now = d.now /\ g.idleTime = d.idleTime
      /\ g.disable = IF over THEN Enabled ELSE d.disable
      /\ g.seen = TRUE /\ g.budget = e
      /\ g.sched \in Schedulers
      /\ g.sched.slot = d.sched.slot /\ g.sched.elapsed = d.sched.elapsed
  <2>1. CASE over
    <3>1. g = EnableBreaks(f, FALSE)
      BY <2>1
    <3>2. f.disable = d.disable /\ f.now = d.now /\ f.idleTime = d.idleTime
      BY <1>1
    <3> HIDE DEF g
    <3>3. QED
      <4> DEFINE b == EnableBreaks(f, FALSE)
      <4>1. g = b
        BY <3>1
      <4>2. /\ b.now = f.now /\ b.idleTime = f.idleTime /\ b.disable = Enabled
            /\ DOMAIN b = DaemonFields /\ b.seen = f.seen /\ b.budget = f.budget
            /\ b.sched \in Schedulers
            /\ b.sched.slot = f.sched.slot /\ b.sched.elapsed = f.sched.elapsed
        BY <1>1, EnableSets
      <4> HIDE DEF b
      <4>3. QED
        BY <1>1, <2>1, <4>1, <4>2
  <2>2. CASE ~over
    BY <1>1, <2>2
  <2>3. QED
    BY <2>1, <2>2
<1> HIDE DEF g
<1>4. Unmoved(g, h)
  BY <1>3, OutputsUnmoved
<1> HIDE DEF h
<1>5. QED
  BY <1>2, <1>3, <1>4 DEF Unmoved

\* advance_idle: the idle time goes on, and where it newly resets something the
\* active time begins anew.
LEMMA AdvanceIdleRests ==
    ASSUME NEW d, DOMAIN d = DaemonFields, d.sched \in Schedulers,
           d.idleTime \in IdleResets, NEW e \in Nat
    PROVE  LET f == AdvanceIdle(d, e)
               i == IdleAdvance(d.idleTime, ResetAfterIdle, e)
           IN  /\ DOMAIN f = DaemonFields
               /\ f.now = d.now /\ f.disable = d.disable
               /\ f.seen = d.seen /\ f.budget = d.budget
               /\ f.sched \in Schedulers
               /\ f.sched.slot \in {d.sched.slot, 0}
               /\ f.sched.elapsed \in {d.sched.elapsed, 0}
               /\ f.idleTime \in IdleResets
               /\ f.idleTime.elapsed = i.elapsed
               /\ i.triggered => f.idleTime.triggered
               /\ f.idleTime.triggered /\ ~i.triggered => f.sched.elapsed = 0
               /\ i.triggered /\ ~d.idleTime.triggered => f.sched.elapsed = 0
<1> DEFINE i == IdleAdvance(d.idleTime, ResetAfterIdle, e)
           f == [d EXCEPT !.idleTime = IdleAdvance(@, ResetAfterIdle, e),
                          !.idleCount = IdleAdvance(@, ResetCountAfterIdle, e)]
<1>1. i \in IdleResets
  <2>1. CASE ResetAfterIdle = {} \/ d.idleTime.triggered
    BY <2>1 DEF IdleAdvance
  <2>2. CASE ~(ResetAfterIdle = {} \/ d.idleTime.triggered)
    BY <2>2 DEF IdleAdvance, IdleResets
  <2>3. QED
    BY <2>1, <2>2
<1>2. /\ DOMAIN f = DaemonFields /\ f.sched = d.sched /\ f.disable = d.disable
      /\ f.now = d.now /\ f.idleTime = i /\ f.seen = d.seen /\ f.budget = d.budget
  BY DEF DaemonFields
<1>3. AdvanceIdle(d, e) =
          IF f.idleCount.triggered /\ ~d.idleCount.triggered THEN SchedulerReset(f, TRUE)
          ELSE IF f.idleTime.triggered /\ ~d.idleTime.triggered
               THEN UpdateStatus(ClearNotice([f EXCEPT !.sched = ResetActiveTime(@)]))
          ELSE f
  BY DEF AdvanceIdle
<1> HIDE DEF f, i
<1>4. CASE f.idleCount.triggered /\ ~d.idleCount.triggered
  <2> DEFINE S == ResetPosition(d.sched)
             j == [i EXCEPT !.triggered = TRUE]
             g == [f EXCEPT !.idleTime.triggered = TRUE, !.idleCount.triggered = TRUE,
                            !.sched = ResetPosition(@)]
             b == Position(g.sched) # Position(f.sched)
             c == ClearNotice(g)
             u == UpdateStatus(c)
             h == BroadcastIf(u, b, [kind |-> "SchedulerReset"])
  <2>1. AdvanceIdle(d, e) = h
    BY <1>3, <1>4 DEF SchedulerReset
  <2>2. S \in Schedulers /\ S.slot = 0 /\ S.elapsed = 0
    BY DEF ResetPosition, Schedulers
  <2>3. j \in IdleResets /\ j.elapsed = i.elapsed /\ j.triggered = TRUE
    BY <1>1 DEF IdleResets
  <2>4. /\ DOMAIN g = DaemonFields /\ g.sched = S /\ g.disable = d.disable
        /\ g.now = d.now /\ g.idleTime = j /\ g.seen = d.seen /\ g.budget = d.budget
    BY <1>2 DEF DaemonFields
  <2> HIDE DEF g, j, S, b
  <2>5. Unmoved(g, c)
    BY <2>4, OutputsUnmoved
  <2> HIDE DEF c
  <2>6. Unmoved(c, u)
    BY <2>5, OutputsUnmoved DEF Unmoved
  <2> HIDE DEF u
  <2>7. Unmoved(u, h)
    BY <2>6, OutputsUnmoved DEF Unmoved
  <2> HIDE DEF h
  <2>8. Unmoved(g, h)
    BY <2>5, <2>6, <2>7, RestChains
  <2>9. QED
    BY <2>1, <2>2, <2>3, <2>4, <2>8 DEF Unmoved, i
<1>5. CASE ~(f.idleCount.triggered /\ ~d.idleCount.triggered)
           /\ f.idleTime.triggered /\ ~d.idleTime.triggered
  <2> DEFINE S == ResetActiveTime(d.sched)
             g == [f EXCEPT !.sched = ResetActiveTime(@)]
             c == ClearNotice(g)
             u == UpdateStatus(c)
  <2>1. AdvanceIdle(d, e) = u
    BY <1>3, <1>5
  <2>2. S \in Schedulers /\ S.slot = d.sched.slot /\ S.elapsed = 0
    BY DEF ResetActiveTime, Schedulers
  <2>3. /\ DOMAIN g = DaemonFields /\ g.sched = S /\ g.disable = d.disable
        /\ g.now = d.now /\ g.idleTime = i /\ g.seen = d.seen /\ g.budget = d.budget
    BY <1>2 DEF DaemonFields
  <2> HIDE DEF g, S
  <2>4. Unmoved(g, c)
    BY <2>3, OutputsUnmoved
  <2> HIDE DEF c
  <2>5. Unmoved(c, u)
    BY <2>4, OutputsUnmoved DEF Unmoved
  <2> HIDE DEF u
  <2>6. Unmoved(g, u)
    BY <2>4, <2>5, RestChains
  <2>7. QED
    BY <1>1, <2>1, <2>2, <2>3, <2>6 DEF Unmoved, i
<1>6. CASE ~(f.idleCount.triggered /\ ~d.idleCount.triggered)
           /\ ~(f.idleTime.triggered /\ ~d.idleTime.triggered)
  <2>1. AdvanceIdle(d, e) = f
    BY <1>3, <1>6
  <2>2. i.triggered => d.idleTime.triggered
    BY <1>2, <1>6
  <2>3. QED
    BY <1>1, <1>2, <2>1, <2>2 DEF i
<1>7. QED
  BY <1>4, <1>5, <1>6

\* A multiple of the active time per slot, and two of them.
LEMMA SlotTime ==
    ASSUME NEW m \in Nat, NEW n \in Nat
    PROVE  /\ AfterActive * m \in Nat
           /\ AfterActive * (m + n) = AfterActive * m + AfterActive * n
           /\ m <= n => AfterActive * m <= AfterActive * n
<1>1. AfterActive * m \in Nat
  BY AfterActiveAssumption
<1>2. AfterActive * (m + n) = AfterActive * m + AfterActive * n
  BY AfterActiveAssumption
<1>3. m <= n => AfterActive * m <= AfterActive * n
  BY AfterActiveAssumption
<1>4. QED
  BY <1>1, <1>2, <1>3

\* advance_active of the scheduler: no more active time than it was given.
LEMMA AdvanceActiveTime ==
    ASSUME NEW s, SoundScheduler(s), NEW e \in Nat
    PROVE  LET t == AdvanceActive(s, e)
           IN  /\ t \in Schedulers
               /\ ActiveTime(t) <= ActiveTime(s) + e
               /\ t.elapsed <= s.elapsed + e
<1> DEFINE t == AdvanceActive(s, e)
           k == SlotsCrossed(s, e)
           n == Least(SlotsWithBreak(s, e))
           r == Longest(RulesDue(s.lss, n))
           a == s.elapsed + e
           left == a % AfterActive
<1>1. s \in Schedulers /\ s.slot \in Nat /\ s.elapsed \in Nat /\ t \in Schedulers
  BY AdvanceActiveSound DEF SoundScheduler, Schedulers
<1>2. AfterActive * s.slot \in Nat
  BY <1>1, SlotTime
<1>3. CASE ~IsActive(s)
  BY <1>1, <1>2, <1>3 DEF AdvanceActive, ActiveTime
<1>4. a = AfterActive * k + left /\ k \in Nat /\ left \in Nat
  <2>1. a \in Nat /\ k = a \div AfterActive
    BY <1>1 DEF SlotsCrossed
  <2> HIDE DEF a, k
  <2>2. /\ a = (AfterActive * (a \div AfterActive)) + (a % AfterActive)
        /\ a \div AfterActive \in Nat /\ a % AfterActive \in 0..(AfterActive - 1)
    BY <2>1, SlotsOfTime
  <2> HIDE DEF left
  <2>3. left \in 0..(AfterActive - 1) /\ left = a % AfterActive
    BY <2>2 DEF left
  <2>4. QED
    BY <2>1, <2>2, <2>3, AfterActiveAssumption
<1>5. AfterActive * k \in Nat /\ AfterActive * (s.slot + k) = AfterActive * s.slot + AfterActive * k
  BY <1>1, <1>4, SlotTime
<1>6. CASE IsActive(s) /\ SlotsWithBreak(s, e) = {}
  <2>1. t.slot = s.slot + k /\ t.elapsed = left
    BY <1>1, <1>6 DEF AdvanceActive, Schedulers
  <2> HIDE DEF t, k, a, left
  <2>2. ActiveTime(t) = AfterActive * (s.slot + k) + left
    BY <2>1 DEF ActiveTime
  <2>3. s.elapsed + e = AfterActive * k + left /\ left \in Nat
    BY <1>4 DEF a
  <2>4. ActiveTime(s) = AfterActive * s.slot + s.elapsed
    BY DEF ActiveTime
  <2> DEFINE x == AfterActive * s.slot
             y == AfterActive * k
  <2>5. ActiveTime(t) = (x + y) + left /\ ActiveTime(s) = x + s.elapsed
        /\ s.elapsed + e = y + left /\ x \in Nat /\ y \in Nat
    BY <1>2, <1>5, <2>2, <2>3, <2>4
  <2> HIDE DEF x, y
  <2>6. QED
    BY <1>1, <2>1, <2>3, <2>5 DEF t
<1>7. CASE IsActive(s) /\ SlotsWithBreak(s, e) # {}
  <2>1. t = Pending([s EXCEPT !.slot = n, !.lss = SatisfyScheduled(s.lss, n, r)])
    BY <1>7 DEF AdvanceActive
  <2>2. t.slot = n /\ t.elapsed = 0
    BY <1>1, <2>1 DEF Pending, Schedulers
  <2>3. n \in Nat /\ n <= s.slot + k
    <3>1. SlotsWithBreak(s, e) \subseteq Nat
      BY <1>1, <1>4 DEF SlotsWithBreak
    <3>2. n \in SlotsWithBreak(s, e)
      BY <1>7, <3>1, LeastOf
    <3>3. QED
      BY <1>1, <1>4, <3>1, <3>2 DEF SlotsWithBreak
  <2> HIDE DEF t, k, n, a, left
  <2>4. AfterActive * n \in Nat /\ AfterActive * n <= AfterActive * (s.slot + k)
    <3>1. s.slot + k \in Nat
      BY <1>1, <1>4
    <3>2. QED
      BY <2>3, <3>1, SlotTime
  <2>5. ActiveTime(t) = AfterActive * n + 0
    BY <2>2 DEF ActiveTime
  <2>6. ActiveTime(s) = AfterActive * s.slot + s.elapsed
    BY DEF ActiveTime
  <2> DEFINE x == AfterActive * s.slot
             y == AfterActive * k
             z == AfterActive * n
  <2>7. /\ ActiveTime(t) = z + 0 /\ ActiveTime(s) = x + s.elapsed /\ z <= x + y
        /\ s.elapsed + e = y + left /\ x \in Nat /\ y \in Nat /\ z \in Nat /\ left \in Nat
    BY <1>2, <1>4, <1>5, <2>4, <2>5, <2>6 DEF a
  <2> HIDE DEF x, y, z
  <2>8. QED
    BY <1>1, <2>2, <2>7 DEF t
<1>8. QED
  BY <1>3, <1>6, <1>7

\* observe_active: at most what the budget has room for is counted.
LEMMA ObserveActiveAdvances ==
    ASSUME NEW d, Coherent(d), NEW e \in Nat, NEW propagate
    PROVE  LET f == ObserveActive(d, e, propagate)
           IN  /\ DOMAIN f = DaemonFields
               /\ f.now = d.now /\ f.disable = d.disable /\ f.idleTime = NotIdle
               /\ f.sched \in Schedulers
               /\ ActiveTime(f.sched) <= ActiveTime(d.sched) + Counted(d, e)
               /\ f.sched.elapsed <= d.sched.elapsed + Counted(d, e)
<1> DEFINE n == Counted(d, e)
           i == [d EXCEPT !.idleTime = NotIdle, !.idleCount = NotIdle]
           j == BroadcastIf(i, propagate, [kind |-> "ActiveTimeElapsed", elapsed |-> e])
           left == IF d.seen THEN d.budget - n ELSE d.budget
           g == [j EXCEPT !.budget = left]
           S == AdvanceActive(d.sched, n)
           k == [g EXCEPT !.sched = AdvanceActive(@, n)]
           begins == AdvanceActiveBreak(g.sched, n)
           b == CHOOSE b \in begins : TRUE
           c == UpdateStatus(ClearNotice(k))
           h == StartBreakAt(c, b, Autolock[b.name], g.now, TRUE)
<1>1. DOMAIN d = DaemonFields /\ SoundScheduler(d.sched) /\ d.budget \in Nat
  BY DEF Coherent, Agreed
<1>2. n \in Nat
  BY <1>1 DEF Counted, EarlierOf
<1>3. d.sched \in Schedulers /\ d.sched.slot \in Nat /\ d.sched.elapsed \in Nat
      /\ ActiveTime(d.sched) \in Nat
  <2>1. d.sched \in Schedulers /\ d.sched.slot \in Nat /\ d.sched.elapsed \in Nat
    BY <1>1 DEF SoundScheduler, Schedulers
  <2>2. AfterActive * d.sched.slot \in Nat
    BY <2>1, SlotTime
  <2>3. QED
    BY <2>1, <2>2 DEF ActiveTime
<1>4. /\ DOMAIN i = DaemonFields /\ i.now = d.now /\ i.disable = d.disable
      /\ i.idleTime = NotIdle /\ i.sched = d.sched /\ i.budget = d.budget
  BY <1>1 DEF DaemonFields
<1>5. ObserveActive(d, e, propagate) =
          LET u == [j EXCEPT !.budget = IF d.seen THEN @ - Counted(d, e) ELSE @]
          IN  IF Counted(d, e) = 0 THEN u ELSE AdvanceScheduler(u, Counted(d, e))
  BY DEF ObserveActive
<1> HIDE DEF i
<1>6. Unmoved(i, j)
  BY <1>4, OutputsUnmoved
<1> HIDE DEF j
<1>7. g = [j EXCEPT !.budget = IF d.seen THEN @ - Counted(d, e) ELSE @]
  BY <1>4, <1>6 DEF Unmoved
<1>8. ObserveActive(d, e, propagate) = IF n = 0 THEN g ELSE AdvanceScheduler(g, n)
  BY <1>5, <1>7
<1> HIDE DEF left
<1>9. /\ DOMAIN g = DaemonFields /\ g.now = d.now /\ g.disable = d.disable
      /\ g.idleTime = NotIdle /\ g.sched = d.sched
  BY <1>4, <1>6 DEF Unmoved, DaemonFields
<1> HIDE DEF g, n
<1>10. CASE n = 0
  BY <1>3, <1>8, <1>9, <1>10 DEF n
<1>11. CASE n # 0
  <2>1. ObserveActive(d, e, propagate) \in {NotifyUpcoming(UpdateStatus(k)), h}
    BY <1>8, <1>11 DEF AdvanceScheduler
  <2>2. /\ S \in Schedulers /\ ActiveTime(S) <= ActiveTime(d.sched) + n
        /\ S.elapsed <= d.sched.elapsed + n
    BY <1>1, <1>2, AdvanceActiveTime
  <2>3. /\ DOMAIN k = DaemonFields /\ k.now = d.now /\ k.disable = d.disable
        /\ k.idleTime = NotIdle /\ k.sched = S
    BY <1>9 DEF DaemonFields
  <2> HIDE DEF S, k, begins, b
  <2>4. Unmoved(k, UpdateStatus(k)) /\ Unmoved(k, ClearNotice(k))
    BY <2>3, OutputsUnmoved
  <2>5. Unmoved(UpdateStatus(k), NotifyUpcoming(UpdateStatus(k))) /\ Unmoved(ClearNotice(k), c)
    BY <2>4, OutputsUnmoved DEF Unmoved
  <2>6. Unmoved(k, NotifyUpcoming(UpdateStatus(k))) /\ Unmoved(k, c)
    BY <2>4, <2>5, RestChains
  <2> HIDE DEF c
  <2>7. Rested(c, h)
    BY <2>2, <2>3, <2>6, StartBreakAtRests DEF Unmoved
  <2> DEFINE w == NotifyUpcoming(UpdateStatus(k))
  <2> HIDE DEF h, w
  <2>8. CASE ObserveActive(d, e, propagate) = w
    BY <2>2, <2>3, <2>6, <2>8 DEF Unmoved, w, n
  <2>9. CASE ObserveActive(d, e, propagate) = h
    <3>1. /\ DOMAIN h = DaemonFields /\ h.now = d.now /\ h.disable = d.disable
          /\ h.idleTime = NotIdle /\ h.sched \in Schedulers
          /\ h.sched.slot = S.slot /\ h.sched.elapsed \in {S.elapsed, 0}
      BY <2>3, <2>6, <2>7 DEF Unmoved, Rested
    <3>2. S.slot \in Nat /\ S.elapsed \in Nat /\ AfterActive * S.slot \in Nat
      BY <2>2, SlotTime DEF Schedulers
    <3>3. ActiveTime(h.sched) <= ActiveTime(S) /\ h.sched.elapsed <= S.elapsed
      BY <3>1, <3>2 DEF ActiveTime
    <3>4. ActiveTime(h.sched) \in Int /\ ActiveTime(S) \in Int
      BY <3>1, <3>2 DEF ActiveTime
    <3>5. QED
      BY <1>2, <1>3, <2>2, <2>9, <3>1, <3>2, <3>3, <3>4 DEF n
  <2>10. QED
    BY <2>1, <2>8, <2>9 DEF w
<1>12. QED
  BY <1>10, <1>11

LEMMA LessTime ==
    ASSUME NEW s \in Schedulers, NEW t \in Schedulers,
           t.slot \in {s.slot, 0}, t.elapsed \in {s.elapsed, 0}
    PROVE  ActiveTime(s) \in Nat /\ ActiveTime(t) \in Nat /\ ActiveTime(t) <= ActiveTime(s)
<1>1. s.slot \in Nat /\ s.elapsed \in Nat /\ t.slot \in Nat /\ t.elapsed \in Nat
  BY DEF Schedulers
<1>2. t.slot <= s.slot /\ t.elapsed <= s.elapsed
  BY <1>1
<1>3. AfterActive * s.slot \in Nat /\ AfterActive * t.slot \in Nat
      /\ AfterActive * t.slot <= AfterActive * s.slot
  BY <1>1, <1>2, SlotTime
<1>4. QED
  BY <1>1, <1>2, <1>3 DEF ActiveTime

-----------------------------------------------------------------------------
(* The events of a sample                                                   *)

\* f is d after some idle time, of x ticks, in which no break began or ended.
IdleFor(d, f, x) ==
    /\ Settled(f) /\ Resting(f) /\ f.current = d.current /\ f.now = d.now
    /\ f.sched \in Schedulers
    /\ f.sched.slot \in {d.sched.slot, 0} /\ f.sched.elapsed \in {d.sched.elapsed, 0}
    /\ \A y \in Int : Covers(d, y) => Covers(f, y + x)

\* IdleTimeElapsed
LEMMA IdleGoesOn ==
    ASSUME NEW d, Settled(d), Resting(d), NEW e \in Nat
    PROVE  LET f == AdvanceIdle(d, e)
           IN  IdleFor(d, f, e) /\ f.disable = d.disable /\ f.seen = d.seen /\ f.budget = d.budget
<1> DEFINE f == AdvanceIdle(d, e)
           i == IdleAdvance(d.idleTime, ResetAfterIdle, e)
<1>1. /\ DOMAIN d = DaemonFields /\ d.sched \in Schedulers /\ d.idleTime \in IdleResets
      /\ Coherent(d) /\ d.cmds = <<>> /\ d.up /\ d.running
  BY DEF Settled, Coherent, Agreed, SoundScheduler, Resting
<1>2. Coherent(f) /\ Does(d, f, d.current, <<>>)
  BY <1>1, AdvanceIdleCoherent, TimeDoes
<1>3. Settled(f) /\ f.current = d.current
  BY <1>1, <1>2 DEF Settled, Does
<1>4. /\ f.now = d.now /\ f.disable = d.disable
      /\ f.seen = d.seen /\ f.budget = d.budget
      /\ f.sched \in Schedulers
      /\ f.sched.slot \in {d.sched.slot, 0} /\ f.sched.elapsed \in {d.sched.elapsed, 0}
      /\ f.idleTime \in IdleResets /\ f.idleTime.elapsed = i.elapsed
      /\ i.triggered => f.idleTime.triggered
      /\ f.idleTime.triggered /\ ~i.triggered => f.sched.elapsed = 0
      /\ i.triggered /\ ~d.idleTime.triggered => f.sched.elapsed = 0
  BY <1>1, AdvanceIdleRests
<1> HIDE DEF f
<1>5. d.idleTime.elapsed \in Nat /\ d.idleTime.triggered \in BOOLEAN
      /\ f.idleTime.triggered \in BOOLEAN
  BY <1>1, <1>4 DEF IdleResets
<1>6. CASE ResetAfterIdle = {} \/ d.idleTime.triggered
  <2>1. i = d.idleTime
    BY <1>6 DEF IdleAdvance
  <2>2. f.idleTime.triggered => f.sched.elapsed = 0
    BY <1>4, <2>1 DEF Resting
  <2>3. ~f.idleTime.triggered => ResetAfterIdle = {}
    BY <1>4, <1>6, <2>1
  <2>4. Resting(f)
    BY <1>4, <2>2, <2>3 DEF Resting
  <2>5. \A x \in Int : Covers(f, x + e)
    BY <2>3 DEF Covers
  <2>6. QED
    BY <1>3, <1>4, <2>4, <2>5 DEF IdleFor, f
<1>7. CASE ResetAfterIdle # {} /\ ~d.idleTime.triggered
  <2>1. i = [elapsed |-> d.idleTime.elapsed + e,
             triggered |-> \E t \in ResetAfterIdle : d.idleTime.elapsed + e >= t]
    BY <1>7 DEF IdleAdvance
  <2>2. i.elapsed = d.idleTime.elapsed + e
        /\ (~i.triggered => \A t \in ResetAfterIdle : ~(d.idleTime.elapsed + e >= t))
    BY <2>1
  <2>3. \A t \in ResetAfterIdle : t \in Int
    BY DurationsAssumption
  <2>4. ~f.idleTime.triggered => \A t \in ResetAfterIdle : f.idleTime.elapsed < t
    BY <1>4, <1>5, <2>2, <2>3
  <2>5. f.idleTime.triggered => f.sched.elapsed = 0
    BY <1>4, <1>7
  <2>6. Resting(f)
    BY <1>4, <2>4, <2>5 DEF Resting
  <2>7. ASSUME NEW x \in Int, Covers(d, x) PROVE Covers(f, x + e)
    <3>1. d.idleTime.elapsed >= x
      BY <1>7, <2>7 DEF Covers
    <3>2. f.idleTime.elapsed >= x + e
      BY <1>4, <1>5, <2>2, <3>1
    <3>3. QED
      BY <3>2 DEF Covers
  <2>8. QED
    BY <1>3, <1>4, <2>6, <2>7 DEF IdleFor, f
<1>8. QED
  BY <1>6, <1>7

\* WallClockElapsed, the first event of every turn of the poller.
LEMMA WallClockGoesOn ==
    ASSUME NEW d, Settled(d), Resting(d), NEW e \in Nat
    PROVE  LET f == WallClock(d, e)
           IN  /\ IdleFor(d, f, 0) /\ f.seen = TRUE /\ f.budget = e
               /\ f.sched.slot = d.sched.slot /\ f.sched.elapsed = d.sched.elapsed
               /\ f.disable = IF d.disable.kind = "Timed" /\ d.now >= d.disable.until
                              THEN Enabled ELSE d.disable
<1> DEFINE f == WallClock(d, e)
<1>1. /\ DOMAIN d = DaemonFields /\ d.sched \in Schedulers /\ d.idleTime \in IdleResets
      /\ Coherent(d) /\ d.cmds = <<>> /\ d.up /\ d.running
  BY DEF Settled, Coherent, Agreed, SoundScheduler, Resting
<1>2. Coherent(f) /\ Does(d, f, d.current, <<>>)
  BY <1>1, WallClockCoherent, TimeDoes
<1>3. Settled(f) /\ f.current = d.current
  BY <1>1, <1>2 DEF Settled, Does
<1>4. /\ f.now = d.now /\ f.idleTime = d.idleTime
      /\ f.disable = IF d.disable.kind = "Timed" /\ d.now >= d.disable.until
                     THEN Enabled ELSE d.disable
      /\ f.seen = TRUE /\ f.budget = e
      /\ f.sched \in Schedulers
      /\ f.sched.slot = d.sched.slot /\ f.sched.elapsed = d.sched.elapsed
  BY <1>1, WallClockSets
<1> HIDE DEF f
<1>5. Resting(f)
  BY <1>4 DEF Resting
<1>6. \A x \in Int : Covers(d, x) => Covers(f, x + 0)
  BY <1>4 DEF Covers
<1>7. QED
  BY <1>3, <1>4, <1>5, <1>6 DEF IdleFor, f

\* One idle stretch after another.
LEMMA IdleChain ==
    ASSUME NEW d, NEW f, NEW g, NEW x \in Int, NEW y \in Int,
           IdleFor(d, f, x), IdleFor(f, g, y)
    PROVE  IdleFor(d, g, x + y)
<1>1. ASSUME NEW z \in Int, Covers(d, z) PROVE Covers(g, z + (x + y))
  <2>1. Covers(f, z + x) /\ z + x \in Int
    BY <1>1 DEF IdleFor
  <2>2. Covers(g, (z + x) + y)
    BY <2>1 DEF IdleFor
  <2>3. (z + x) + y = z + (x + y)
    OBVIOUS
  <2>4. QED
    BY <2>2, <2>3
<1>2. QED
  BY <1>1 DEF IdleFor

\* A poll and the gap before it.
Polled(d, gap) ==
    IF gap > 0 THEN AdvanceIdle(WallClock(d, Poll), gap) ELSE WallClock(d, Poll)

LEMMA SampleBegins ==
    ASSUME NEW d, Settled(d), Resting(d), NEW gap \in Nat
    PROVE  LET f == Polled(d, gap)
           IN  /\ IdleFor(d, f, gap) /\ f.seen = TRUE /\ f.budget = Poll
               /\ f.disable = IF d.disable.kind = "Timed" /\ d.now >= d.disable.until
                              THEN Enabled ELSE d.disable
<1> DEFINE w == WallClock(d, Poll)
           f == AdvanceIdle(w, gap)
<1>1. Poll \in Nat
  BY DEF Poll
<1>2. /\ IdleFor(d, w, 0) /\ w.seen = TRUE /\ w.budget = Poll
      /\ w.disable = IF d.disable.kind = "Timed" /\ d.now >= d.disable.until
                     THEN Enabled ELSE d.disable
  BY <1>1, WallClockGoesOn
<1> HIDE DEF w
<1>3. IdleFor(w, f, gap) /\ f.disable = w.disable /\ f.seen = w.seen /\ f.budget = w.budget
  BY <1>2, IdleGoesOn DEF IdleFor
<1> HIDE DEF f
<1>4. IdleFor(d, f, 0 + gap)
  BY <1>2, <1>3, IdleChain
<1>5. 0 + gap = gap /\ (~(gap > 0) => gap = 0)
  OBVIOUS
<1>6. CASE gap > 0
  BY <1>2, <1>3, <1>4, <1>5, <1>6 DEF Polled, f, w
<1>7. CASE ~(gap > 0)
  BY <1>2, <1>5, <1>7 DEF Polled, w
<1>8. QED
  BY <1>6, <1>7

\* The last event of a sample: a poll of activity adds that poll at most, and a
\* break may begin; idle time goes on.
LEMMA SampleEnds ==
    ASSUME NEW d, Settled(d), Resting(d), d.seen = TRUE, d.budget = Poll, NEW isActive \in BOOLEAN
    PROVE  LET f == LocalEvent(d, [kind |-> IF isActive THEN "ActiveTimeElapsed" ELSE "IdleTimeElapsed",
                                   elapsed |-> Poll])
           IN  /\ Coherent(f) /\ Resting(f) /\ MayStart(d, f)
               /\ f.now = d.now /\ f.disable = d.disable
               /\ ActiveTime(f.sched) <= ActiveTime(d.sched) + Poll
               /\ isActive => Covers(f, 0) /\ f.sched.elapsed <= d.sched.elapsed + Poll
               /\ ~isActive => \A y \in Int : Covers(d, y) => Covers(f, y + Poll)
<1>1. Coherent(d) /\ d.cmds = <<>> /\ Poll \in Nat /\ d.sched \in Schedulers
  BY DEF Settled, Poll, Coherent, Agreed, SoundScheduler
<1>2. CASE isActive
  <2> DEFINE f == ObserveActive(d, Poll, TRUE)
  <2>1. LocalEvent(d, [kind |-> IF isActive THEN "ActiveTimeElapsed" ELSE "IdleTimeElapsed",
                       elapsed |-> Poll]) = f
    BY <1>2 DEF LocalEvent
  <2>2. Counted(d, Poll) = Poll
    BY DEF Counted, EarlierOf, Poll
  <2>3. Coherent(f) /\ MayStart(d, f)
    <3>1. Coherent(f)
      BY <1>1, ObserveActiveCoherent
    <3>2. MayStart(d, f)
      <4>1. \A e \in Nat : MayStart(d, ObserveActive(d, e, TRUE))
        BY <1>1, ObserveActiveDoes
      <4> HIDE DEF f
      <4>2. f = ObserveActive(d, Poll, TRUE)
        BY DEF f
      <4>3. QED
        BY <1>1, <4>1, <4>2
    <3>3. QED
      BY <3>1, <3>2
  <2>4. /\ f.now = d.now /\ f.disable = d.disable /\ f.idleTime = NotIdle
        /\ ActiveTime(f.sched) <= ActiveTime(d.sched) + Poll
        /\ f.sched.elapsed <= d.sched.elapsed + Poll
    <3>1. /\ f.now = d.now /\ f.disable = d.disable /\ f.idleTime = NotIdle
          /\ ActiveTime(f.sched) <= ActiveTime(d.sched) + Counted(d, Poll)
          /\ f.sched.elapsed <= d.sched.elapsed + Counted(d, Poll)
      BY <1>1, ObserveActiveAdvances
    <3> HIDE DEF f
    <3>2. QED
      BY <2>2, <3>1
  <2> HIDE DEF f
  <2>5. \A t \in ResetAfterIdle : t \in Nat /\ 0 < t
    BY DurationsAssumption
  <2>6. Resting(f) /\ Covers(f, 0)
    BY <2>4, <2>5 DEF Resting, Covers, NotIdle, IdleResets
  <2>7. QED
    BY <1>2, <2>1, <2>3, <2>4, <2>6
<1>3. CASE ~isActive
  <2> DEFINE f == AdvanceIdle(d, Poll)
  <2>1. LocalEvent(d, [kind |-> IF isActive THEN "ActiveTimeElapsed" ELSE "IdleTimeElapsed",
                       elapsed |-> Poll]) = f
    BY <1>3 DEF LocalEvent
  <2>2. IdleFor(d, f, Poll) /\ f.disable = d.disable
    BY <1>1, IdleGoesOn
  <2>3. Does(d, f, d.current, <<>>)
    BY <1>1, TimeDoes DEF Coherent, Agreed
  <2> HIDE DEF f
  <2>4. ActiveTime(d.sched) \in Nat /\ ActiveTime(f.sched) \in Nat
        /\ ActiveTime(f.sched) <= ActiveTime(d.sched)
    BY <1>1, <2>2, LessTime DEF IdleFor
  <2>5. ActiveTime(f.sched) <= ActiveTime(d.sched) + Poll
    BY <1>1, <2>4
  <2>6. QED
    BY <1>3, <2>1, <2>2, <2>3, <2>5 DEF IdleFor, Settled, MayStart
<1>4. QED
  BY <1>2, <1>3

-----------------------------------------------------------------------------
(* Turns *)

\* Events queued one after the other.
LEMMA OneMore ==
    ASSUME NEW S, NEW s \in Seq(S), NEW e \in S, NEW t \in Seq(S), Len(t) = Len(s) + 1,
           t[Len(s) + 1] = e, \A i \in 1 .. Len(s) : t[i] = s[i]
    PROVE  s \o <<e>> = t
<1>1. <<e>> \in Seq(S) /\ Len(<<e>>) = 1 /\ <<e>>[1] = e /\ Len(s) \in Nat
  OBVIOUS
<1>2. /\ s \o <<e>> \in Seq(S) /\ Len(s \o <<e>>) = Len(s) + 1
      /\ \A i \in 1 .. Len(s) + 1 : (s \o <<e>>)[i] = IF i <= Len(s) THEN s[i] ELSE e
  BY <1>1, ConcatProperties
<1>3. \A i \in 1 .. Len(s) + 1 : t[i] = IF i <= Len(s) THEN s[i] ELSE e
  BY <1>1
<1>4. QED
  BY <1>2, <1>3, SeqEqual

LEMMA InARow ==
    ASSUME NEW d, NEW e, NEW f
    PROVE  /\ <<d>> \o <<>> = <<d>> /\ <<d>> \o <<e>> = <<d, e>>
           /\ <<d>> \o <<>> \o <<f>> = <<d, f>>
           /\ <<d>> \o <<e>> \o <<f>> = <<d, e, f>>
<1> DEFINE S == {d, e, f}
<1>1. /\ <<d>> \in Seq(S) /\ <<d, e>> \in Seq(S) /\ <<d, f>> \in Seq(S)
      /\ <<d, e, f>> \in Seq(S) /\ e \in S /\ f \in S
  OBVIOUS
<1>2. /\ Len(<<d>>) = 1 /\ Len(<<d, e>>) = 2 /\ Len(<<d, f>>) = 2 /\ Len(<<d, e, f>>) = 3
      /\ <<d>>[1] = d /\ <<d, e>>[1] = d /\ <<d, f>>[1] = d /\ <<d, e, f>>[1] = d
      /\ <<d, e>>[2] = e /\ <<d, f>>[2] = f /\ <<d, e, f>>[2] = e /\ <<d, e, f>>[3] = f
  OBVIOUS
<1> HIDE DEF S
<1>3. <<d>> \o <<>> = <<d>>
  BY <1>1, ConcatEmptySeq
<1> DEFINE one == <<d>>
           de == <<d, e>>
           df == <<d, f>>
           def == <<d, e, f>>
<1>4. one \o <<e>> = de /\ one \o <<f>> = df
  <2>1. /\ one \in Seq(S) /\ Len(one) = 1 /\ de \in Seq(S) /\ Len(de) = 2
        /\ df \in Seq(S) /\ Len(df) = 2 /\ one[1] = d /\ de[1] = d /\ df[1] = d
        /\ de[2] = e /\ df[2] = f
    BY <1>1, <1>2
  <2> HIDE DEF one, de, df
  <2>2. /\ Len(de) = Len(one) + 1 /\ de[Len(one) + 1] = e
        /\ Len(df) = Len(one) + 1 /\ df[Len(one) + 1] = f
        /\ \A i \in 1 .. Len(one) : de[i] = one[i] /\ df[i] = one[i]
    BY <2>1
  <2>3. one \o <<e>> = de
    <3>1. /\ one \in Seq(S) /\ e \in S /\ de \in Seq(S) /\ Len(de) = Len(one) + 1
          /\ de[Len(one) + 1] = e /\ \A i \in 1 .. Len(one) : de[i] = one[i]
      BY <1>1, <2>1, <2>2
    <3>2. QED
      BY <3>1, OneMore
  <2>4. one \o <<f>> = df
    <3>1. /\ one \in Seq(S) /\ f \in S /\ df \in Seq(S) /\ Len(df) = Len(one) + 1
          /\ df[Len(one) + 1] = f /\ \A i \in 1 .. Len(one) : df[i] = one[i]
      BY <1>1, <2>1, <2>2
    <3>2. QED
      BY <3>1, OneMore
  <2>5. QED
    BY <2>3, <2>4
<1>5. de \o <<f>> = def
  <2>1. /\ de \in Seq(S) /\ Len(de) = 2 /\ def \in Seq(S) /\ Len(def) = 3
        /\ de[1] = d /\ de[2] = e /\ def[1] = d /\ def[2] = e /\ def[3] = f
    BY <1>1, <1>2
  <2> HIDE DEF de, def
  <2>2. /\ Len(def) = Len(de) + 1 /\ def[Len(de) + 1] = f
        /\ \A i \in 1 .. Len(de) : i = 1 \/ i = 2
    BY <2>1
  <2>3. \A i \in 1 .. Len(de) : def[i] = de[i]
    BY <2>1, <2>2
  <2>4. QED
    BY <1>1, <2>1, <2>2, <2>3, OneMore
<1>6. QED
  BY <1>3, <1>4, <1>5

\* One, two or three events, handled one by one.
LEMMA HandledInTurn ==
    ASSUME NEW d, NEW e
    PROVE  /\ HandledAll(<<d>>) = Handled(daemon, d)
           /\ HandledAll(<<d, e>>) = Handled(Handled(daemon, d), e)
<1>1. HandledAll(<<d>>) = Handled(daemon, d)
  BY DEF HandledAll, HandledAt
<1>2. HandledAll(<<d, e>>) = Handled(Handled(daemon, d), e)
  BY DEF HandledAll, HandledAt
<1>3. QED
  BY <1>1, <1>2

LEMMA ThreeHandledInTurn ==
    ASSUME NEW d, NEW e, NEW f
    PROVE  HandledAll(<<d, e, f>>) = Handled(Handled(Handled(daemon, d), e), f)
<1> DEFINE s == <<d, e, f>>
<1>1. /\ 1 \in DOMAIN s /\ 2 \in DOMAIN s /\ 3 \in DOMAIN s
      /\ s[1] = d /\ s[2] = e /\ s[3] = f
  OBVIOUS
<1> HIDE DEF s
<1>2. HandledAll(s) = Handled(Handled(Handled(daemon, d), e), f)
  BY <1>1 DEF HandledAll, HandledAt
<1>3. QED
  BY <1>2 DEF s

\* What a turn comes to, once its events are handled.
LEMMA TurnEnds ==
    ASSUME NEW events, NEW option, Turn(events, option), NEW f, f = HandledAll(events),
           Coherent(f), f.up, f.running
    PROVE  /\ Settled(daemon')
           /\ daemon'.sched = f.sched /\ daemon'.current = f.current
           /\ daemon'.disable = f.disable /\ daemon'.now = f.now
           /\ daemon'.idleTime = f.idleTime
           /\ active' = OnCommand(option, f.cmds)
           /\ started' = IF active' = {} THEN NoMark
                         ELSE IF active = {} THEN Mark ELSE started
           /\ disabled' \in {NoMark, Mark, disabled}
<1>1. DOMAIN f = DaemonFields
  BY DEF Coherent, Agreed
<1>2. /\ daemon' = [f EXCEPT !.cmds = <<>>, !.sent = <<>>]
      /\ active' = OnCommand(option, f.cmds)
      /\ started' = IF active' = {} THEN NoMark
                    ELSE IF active = {} THEN Mark ELSE started
      /\ disabled' \in {NoMark, Mark, disabled}
  BY DEF Turn
<1>3. /\ DOMAIN daemon' = DaemonFields
      /\ daemon'.sched = f.sched /\ daemon'.current = f.current
      /\ daemon'.disable = f.disable /\ daemon'.now = f.now
      /\ daemon'.idleTime = f.idleTime /\ daemon'.status = f.status
      /\ daemon'.avail = f.avail /\ daemon'.budget = f.budget
      /\ daemon'.cmds = <<>> /\ daemon'.up = f.up /\ daemon'.running = f.running
  BY <1>1, <1>2 DEF DaemonFields
<1>4. Alike(f, daemon')
  BY <1>3 DEF Alike
<1>5. Coherent(daemon')
  BY <1>4, AlikeCoherent
<1>6. QED
  BY <1>2, <1>3, <1>5 DEF Settled

\* A turn leaves the break that was, begins one or ends it, and says so.
Outcome(cur, cmds) ==
    \/ cur = daemon.current /\ cmds = <<>>
    \/ /\ daemon.current = {}
       /\ \E c, m : /\ c.name \in Rules /\ cur = {c} /\ cmds = <<m>>
                    /\ m.kind = "StartBreak" /\ m.remaining = Duration[c.name]
    \/ /\ daemon.current # {} /\ cur = {}
       /\ \E m : m.kind \in {"FinishBreak", "ClearBreak"} /\ cmds = <<m>>

LEMMA LastCommand ==
    ASSUME NEW option, NEW m
    PROVE  /\ OnCommand(option, <<>>) = option
           /\ m.kind = "StartBreak" => OnCommand(option, <<m>>) = {NewBreak(m)}
           /\ m.kind \in {"FinishBreak", "ClearBreak"} => OnCommand(option, <<m>>) = {}
<1>1. OnCommand(option, <<>>) = option
  BY DEF OnCommand
<1>2. <<m>> # <<>> /\ Len(<<m>>) = 1 /\ <<m>>[1] = m
  OBVIOUS
<1>3. OnCommand(option, <<m>>) =
          CASE m.kind = "StartBreak" -> {NewBreak(m)}
            [] m.kind \in {"FinishBreak", "ClearBreak"} -> {}
  BY <1>2 DEF OnCommand
<1>4. QED
  BY <1>1, <1>3

\* MayStart is one of these outcomes.
LEMMA MayStartComesTo ==
    ASSUME NEW d, d.current = daemon.current, d.up, NEW f, MayStart(d, f)
    PROVE  Outcome(f.current, f.cmds) /\ f.up /\ f.running = d.running
<1>1. CASE Does(d, f, d.current, <<>>)
  BY <1>1 DEF Does, Outcome
<1>2. CASE ~Does(d, f, d.current, <<>>)
  <2>1. PICK c : \E n \in Nat :
            /\ d.current = {} /\ c.name \in Rules /\ n = Duration[c.name]
            /\ Does(d, f, {c}, <<[kind |-> "StartBreak", lock |-> c.lock, remaining |-> n]>>)
    BY <1>2 DEF MayStart
  <2> DEFINE m == [kind |-> "StartBreak", lock |-> c.lock, remaining |-> Duration[c.name]]
  <2>2. m.kind = "StartBreak" /\ m.remaining = Duration[c.name]
    BY <2>1
  <2>3. f.current = {c} /\ f.cmds = <<m>> /\ f.up /\ f.running = d.running
    BY <2>1 DEF Does
  <2> HIDE DEF m
  <2>4. QED
    BY <2>1, <2>2, <2>3 DEF Outcome
<1>3. QED
  BY <1>1, <1>2

\* Marks set and left behind lie in the past.
LEMMA MarksBegun ==
    ASSUME ClocksRead
    PROVE  /\ Begun(NoMark) /\ Begun(Mark) /\ ReadAt(Mark) = daemon.now
<1>1. real \in Nat /\ jumped.fwd \in Nat /\ jumped.back \in Nat
      /\ daemon.now = real + jumped.fwd - jumped.back
  BY DEF ClocksRead
<1>2. Begun(NoMark)
  BY <1>1 DEF Begun, NoMark, Marks
<1>3. Begun(Mark)
  BY <1>1 DEF Begun, Mark, Marks
<1>4. ReadAt(Mark) = daemon.now
  BY <1>1 DEF ReadAt, Mark
<1>5. QED
  BY <1>2, <1>3, <1>4

\* The account of breaks survives a turn with any of these outcomes.
LEMMA TurnBreaks ==
    ASSUME ClocksRead, BreakAccounted, NEW events, NEW option, Turn(events, option),
           option = {} <=> active = {},
           \A b \in option : \A a \in active :
               /\ option = {b} /\ DOMAIN b = {"deadline", "seen"}
               /\ b.deadline = a.deadline /\ b.seen \in Nat /\ b.seen <= mono,
           NEW f, f = HandledAll(events), Coherent(f), f.up, f.running,
           Outcome(f.current, f.cmds), UNCHANGED <<real, mono, jumped>>
    PROVE  BreakAccounted'
<1>1. /\ daemon'.current = f.current /\ active' = OnCommand(option, f.cmds)
      /\ started' = IF active' = {} THEN NoMark
                    ELSE IF active = {} THEN Mark ELSE started
      /\ disabled' \in {NoMark, Mark, disabled}
  BY TurnEnds
<1>2. Begun(NoMark) /\ Begun(Mark) /\ Begun(started) /\ Begun(disabled)
      /\ ReadAt(Mark) = daemon.now
  BY MarksBegun DEF BreakAccounted
<1>3. \A m : Begun(m) => m \in Marks /\ m.real <= real' /\ m.fwd <= jumped'.fwd
                          /\ m.back <= jumped'.back
  BY DEF Begun
<1>4. Begun(started)' /\ Begun(disabled)'
  BY <1>1, <1>2, <1>3 DEF Begun
<1>5. mono \in Nat
  BY DEF ClocksRead
<1> DEFINE Goes(a, c) == /\ active' = {a} /\ daemon'.current = {c} /\ c.name \in Rules
                         /\ a.deadline = Deadline(ReadAt(started'), Duration[c.name])
                         /\ DOMAIN a = {"deadline", "seen"} /\ a.seen \in Nat /\ a.seen <= mono
<1>6. CASE f.current = daemon.current /\ f.cmds = <<>>
  <2>1. active' = option /\ daemon'.current = daemon.current
    BY <1>1, <1>6, LastCommand
  <2>2. active' = {} <=> daemon'.current = {}
    BY <2>1 DEF BreakAccounted
  <2>3. ASSUME NEW b \in active', NEW c \in daemon'.current PROVE Goes(b, c)
    <3>1. active # {} /\ b \in option
      BY <2>1, <2>3
    <3>2. PICK a \in active : TRUE
      BY <3>1
    <3>3. started' = started
      BY <1>1, <2>3, <3>1
    <3>4. /\ daemon.current = {c} /\ c.name \in Rules
          /\ a.deadline = Deadline(ReadAt(started), Duration[c.name])
      BY <2>1, <2>3, <3>2 DEF BreakAccounted
    <3>5. /\ option = {b} /\ DOMAIN b = {"deadline", "seen"}
          /\ b.deadline = a.deadline /\ b.seen \in Nat /\ b.seen <= mono
      BY <3>1, <3>2
    <3>6. QED
      BY <2>1, <3>3, <3>4, <3>5
  <2>4. QED
    BY <1>4, <2>2, <2>3 DEF BreakAccounted
<1>7. CASE /\ daemon.current = {}
           /\ \E c, m : /\ c.name \in Rules /\ f.current = {c} /\ f.cmds = <<m>>
                        /\ m.kind = "StartBreak" /\ m.remaining = Duration[c.name]
  <2>1. PICK c, m : /\ c.name \in Rules /\ f.current = {c} /\ f.cmds = <<m>>
                    /\ m.kind = "StartBreak" /\ m.remaining = Duration[c.name]
    BY <1>7
  <2>2. active' = {NewBreak(m)} /\ active = {} /\ daemon'.current = {c}
    BY <1>1, <1>7, <2>1, LastCommand DEF BreakAccounted
  <2>3. started' = Mark
    BY <1>1, <2>2
  <2>4. /\ NewBreak(m).deadline = Deadline(ReadAt(started'), Duration[c.name])
        /\ DOMAIN NewBreak(m) = {"deadline", "seen"} /\ NewBreak(m).seen = mono
    BY <1>2, <2>1, <2>3 DEF NewBreak
  <2> HIDE DEF NewBreak
  <2>5. Goes(NewBreak(m), c)
    BY <1>5, <2>1, <2>2, <2>4
  <2>6. QED
    BY <1>4, <2>2, <2>5 DEF BreakAccounted
<1>8. CASE /\ daemon.current # {} /\ f.current = {}
           /\ \E m : m.kind \in {"FinishBreak", "ClearBreak"} /\ f.cmds = <<m>>
  <2>1. active' = {} /\ daemon'.current = {}
    BY <1>1, <1>8, LastCommand
  <2>2. QED
    BY <1>4, <2>1 DEF BreakAccounted
<1>9. QED
  BY <1>6, <1>7, <1>8 DEF Outcome

-----------------------------------------------------------------------------
(* The poller's samples                                                     *)

\* What nobody sampled, as the poller sees it.
LEMMA GapSampled ==
    ASSUME ClocksRead, RestAccounted
    PROVE  LET gap == UnobservedIdle(last, daemon.now, Poll)
           IN  /\ gap \in Nat /\ (last = {} => gap = 0)
               /\ \A l \in last : gap >= daemon.now - l - Poll
<1> DEFINE gap == UnobservedIdle(last, daemon.now, Poll)
<1>1. daemon.now \in Int /\ Poll = 1
  BY DEF ClocksRead, Poll
<1>2. CASE last = {}
  BY <1>2 DEF UnobservedIdle
<1>3. CASE last # {}
  <2>1. PICK l \in last : last = {l} /\ l \in Int
    BY <1>3 DEF RestAccounted
  <2>2. (CHOOSE k \in last : TRUE) = l
    BY <2>1
  <2>3. gap = IF daemon.now - l > Poll THEN daemon.now - l - Poll ELSE 0
    BY <2>1, <2>2 DEF UnobservedIdle
  <2> HIDE DEF gap
  <2>4. gap \in Nat /\ gap >= daemon.now - l - Poll
    BY <1>1, <2>1, <2>3
  <2>5. QED
    BY <1>3, <2>1, <2>4 DEF gap
<1>4. QED
  BY <1>2, <1>3

\* The runtime's answer to a sample.
LEMMA SampleHandled ==
    ASSUME Settled(daemon), Resting(daemon), NEW isActive \in BOOLEAN, NEW gap \in Nat
    PROVE  LET p == Polled(daemon, gap)
               f == HandledAll(ActivityEvents(Poll, gap, isActive))
           IN  /\ IdleFor(daemon, p, gap)
               /\ Coherent(f) /\ f.up /\ f.running /\ Outcome(f.current, f.cmds)
               /\ Resting(f) /\ f.now = daemon.now
               /\ f.disable = IF /\ daemon.disable.kind = "Timed"
                                 /\ daemon.now >= daemon.disable.until
                              THEN Enabled ELSE daemon.disable
               /\ f.sched \in Schedulers
               /\ ActiveTime(f.sched) <= ActiveTime(daemon.sched) + Poll
               /\ isActive => Covers(f, 0) /\ f.sched.elapsed <= p.sched.elapsed + Poll
               /\ ~isActive => \A y \in Int : Covers(p, y) => Covers(f, y + Poll)
<1> DEFINE p == Polled(daemon, gap)
           last3 == [kind |-> IF isActive THEN "ActiveTimeElapsed" ELSE "IdleTimeElapsed",
                     elapsed |-> Poll]
           first == WallClockElapsed(Poll)
           idle == [kind |-> "IdleTimeElapsed", elapsed |-> gap]
           f == LocalEvent(p, last3)
           events == ActivityEvents(Poll, gap, isActive)
<1>1. /\ IdleFor(daemon, p, gap) /\ p.seen = TRUE /\ p.budget = Poll
      /\ p.disable = IF daemon.disable.kind = "Timed" /\ daemon.now >= daemon.disable.until
                     THEN Enabled ELSE daemon.disable
  BY SampleBegins
<1>2. Settled(WallClock(daemon, Poll)) /\ Settled(daemon)
  <2>1. Poll \in Nat
    BY DEF Poll
  <2>2. QED
    BY <2>1, WallClockGoesOn DEF IdleFor
<1>3. HandledAll(events) = f
  <2>1. Handled(daemon, first) = WallClock(daemon, Poll)
    BY <1>2 DEF Handled, LocalEvent, WallClockElapsed, Settled
  <2>2. Handled(WallClock(daemon, Poll), idle) = AdvanceIdle(WallClock(daemon, Poll), gap)
    BY <1>2 DEF Handled, LocalEvent, Settled
  <2>3. p.running
    BY <1>1 DEF IdleFor, Settled
  <2>4. Handled(p, last3) = f
    BY <2>3 DEF Handled
  <2>5. CASE gap > 0
    <3>1. events = <<first>> \o <<idle>> \o <<last3>>
      BY <2>5 DEF ActivityEvents
    <3>2. p = AdvanceIdle(WallClock(daemon, Poll), gap)
      BY <2>5 DEF Polled
    <3> HIDE DEF first, idle, last3, p, f, events
    <3>3. events = <<first, idle, last3>>
      <4>1. <<first>> \o <<idle>> \o <<last3>> = <<first, idle, last3>>
        BY InARow
      <4>2. QED
        BY <3>1, <4>1
    <3>4. HandledAll(<<first, idle, last3>>) = Handled(Handled(Handled(daemon, first), idle), last3)
      <4>1. \A x, y, z : HandledAll(<<x, y, z>>) = Handled(Handled(Handled(daemon, x), y), z)
        BY ThreeHandledInTurn
      <4>2. QED
        BY <4>1
    <3>5. QED
      BY <2>1, <2>2, <2>4, <3>2, <3>3, <3>4
  <2>6. CASE ~(gap > 0)
    <3>1. events = <<first>> \o <<>> \o <<last3>>
      BY <2>6 DEF ActivityEvents
    <3>2. p = WallClock(daemon, Poll)
      BY <2>6 DEF Polled
    <3> HIDE DEF first, idle, last3, p, f, events
    <3>3. events = <<first, last3>>
      <4>1. <<first>> \o <<>> \o <<last3>> = <<first, last3>>
        BY InARow
      <4>2. QED
        BY <3>1, <4>1
    <3>4. HandledAll(<<first, last3>>) = Handled(Handled(daemon, first), last3)
      BY HandledInTurn
    <3>5. QED
      BY <2>1, <2>4, <3>2, <3>3, <3>4
  <2>7. QED
    BY <2>5, <2>6
<1> HIDE DEF p, events
<1>4. /\ Coherent(f) /\ Resting(f) /\ MayStart(p, f)
      /\ f.now = p.now /\ f.disable = p.disable
      /\ ActiveTime(f.sched) <= ActiveTime(p.sched) + Poll
      /\ isActive => Covers(f, 0) /\ f.sched.elapsed <= p.sched.elapsed + Poll
      /\ ~isActive => \A y \in Int : Covers(p, y) => Covers(f, y + Poll)
  BY <1>1, SampleEnds DEF IdleFor
<1> HIDE DEF f
<1>5. Outcome(f.current, f.cmds) /\ f.up /\ f.running
  BY <1>1, <1>4, MayStartComesTo DEF IdleFor, Settled
<1>6. f.sched \in Schedulers /\ p.sched \in Schedulers /\ daemon.sched \in Schedulers
  BY <1>1, <1>2, <1>4 DEF Settled, Coherent, Agreed, SoundScheduler, IdleFor
<1>7. ActiveTime(f.sched) <= ActiveTime(daemon.sched) + Poll
  <2>1. /\ ActiveTime(daemon.sched) \in Nat /\ ActiveTime(p.sched) \in Nat
        /\ ActiveTime(p.sched) <= ActiveTime(daemon.sched)
    BY <1>1, <1>6, LessTime DEF IdleFor
  <2>2. ActiveTime(f.sched) \in Nat /\ Poll \in Nat
    BY <1>6, LessTime DEF Poll
  <2>3. QED
    BY <1>4, <2>1, <2>2
<1>8. QED
  BY <1>1, <1>3, <1>4, <1>5, <1>6, <1>7 DEF IdleFor, p, events

\* Less may be asked of the idle time.
LEMMA CoversLess ==
    ASSUME NEW d, Resting(d), NEW x \in Int, NEW y \in Int, Covers(d, x), y <= x
    PROVE  Covers(d, y)
<1>1. d.idleTime.elapsed \in Nat
  BY DEF Resting, IdleResets
<1>2. QED
  BY <1>1 DEF Covers

\* Where the idle time covers a reset, the active time has been reset.
LEMMA CoveredReset ==
    ASSUME NEW d, Resting(d), NEW t \in ResetAfterIdle, Covers(d, t)
    PROVE  d.sched.elapsed = 0
<1>1. d.idleTime.elapsed \in Nat /\ t \in Nat
  BY DurationsAssumption DEF Resting, IdleResets
<1>2. QED
  BY <1>1 DEF Resting, Covers

LEMMA PollKeeps ==
    ASSUME ClocksInv, NEW isActive \in BOOLEAN, SampleActivity(isActive)
    PROVE  /\ ClocksInv'
           /\ daemon'.disable = IF /\ daemon.disable.kind = "Timed"
                                   /\ daemon.now >= daemon.disable.until
                                THEN Enabled ELSE daemon.disable
           /\ Steady => \A t \in ResetAfterIdle : \A r \in rested :
                  /\ rested' = {real} /\ real - Poll - r >= t => daemon'.sched.elapsed <= Poll
                  /\ rested' # {real} /\ real - r >= t => daemon'.sched.elapsed = 0
<1> DEFINE gap == UnobservedIdle(last, daemon.now, Poll)
           p == Polled(daemon, gap)
           events == ActivityEvents(Poll, gap, isActive)
           f == HandledAll(events)
<1>1. /\ due /\ active = {} /\ Turn(events, active) /\ last' = {daemon.now} /\ due' = FALSE
      /\ rested' = IF isActive THEN {real}
                   ELSE IF rested = {} THEN {real - Poll} ELSE rested
      /\ UNCHANGED <<mono, real, jumped>>
  BY DEF SampleActivity
<1>2. /\ Settled(daemon) /\ Resting(daemon)
      /\ ClocksRead /\ TimeAccounted /\ BreakAccounted /\ RestAccounted
  BY DEF ClocksInv, RestAccounted
<1>3. gap \in Nat /\ (last = {} => gap = 0) /\ \A l \in last : gap >= daemon.now - l - Poll
  BY <1>2, GapSampled
<1> HIDE DEF gap
<1>4. /\ IdleFor(daemon, p, gap)
      /\ Coherent(f) /\ f.up /\ f.running /\ Outcome(f.current, f.cmds)
      /\ Resting(f) /\ f.now = daemon.now
      /\ f.disable = IF daemon.disable.kind = "Timed" /\ daemon.now >= daemon.disable.until
                     THEN Enabled ELSE daemon.disable
      /\ f.sched \in Schedulers
      /\ ActiveTime(f.sched) <= ActiveTime(daemon.sched) + Poll
      /\ isActive => Covers(f, 0) /\ f.sched.elapsed <= p.sched.elapsed + Poll
      /\ ~isActive => \A y \in Int : Covers(p, y) => Covers(f, y + Poll)
  BY <1>2, <1>3, SampleHandled
<1> HIDE DEF p, events
<1>5. f = HandledAll(events)
  OBVIOUS
<1> HIDE DEF f
<1>6. /\ Settled(daemon') /\ daemon'.sched = f.sched /\ daemon'.current = f.current
      /\ daemon'.disable = f.disable /\ daemon'.now = f.now /\ daemon'.idleTime = f.idleTime
  BY <1>1, <1>4, <1>5, TurnEnds
<1>7. ClocksRead'
  BY <1>1, <1>2, <1>4, <1>6 DEF ClocksRead
<1>8. real \in Nat /\ mono \in Nat /\ daemon.now \in Int /\ Poll = 1
  BY <1>2 DEF ClocksRead, Poll
<1>9. TimeAccounted'
  <2>1. daemon.sched \in Schedulers
    BY <1>2 DEF Settled, Coherent, Agreed, SoundScheduler
  <2>2. ActiveTime(daemon.sched) \in Nat /\ ActiveTime(f.sched) \in Nat
    BY <1>4, <2>1, LessTime
  <2>3. ActiveTime(daemon.sched) + Poll <= mono
    BY <1>1, <1>2 DEF TimeAccounted
  <2>4. ActiveTime(f.sched) + 0 <= mono
    BY <1>4, <1>8, <2>2, <2>3
  <2>5. ActiveTime(daemon'.sched) + 0 <= mono' /\ due' = FALSE
    BY <1>1, <1>6, <2>4
  <2>6. QED
    BY <2>5 DEF TimeAccounted
<1>10. BreakAccounted'
  <2>1. \A b \in active : \A a \in active :
            /\ active = {b} /\ DOMAIN b = {"deadline", "seen"}
            /\ b.deadline = a.deadline /\ b.seen \in Nat /\ b.seen <= mono
    BY <1>1
  <2>2. QED
    BY <1>1, <1>2, <1>4, <1>5, <2>1, TurnBreaks
<1>11. Resting(daemon') /\ \A y : Covers(f, y) => Covers(daemon', y)
  BY <1>4, <1>6 DEF Resting, Covers
<1>12. Steady' => Steady /\ daemon.now = real
  BY <1>1, <1>2, <1>8 DEF Steady, ClocksRead
<1>13. Steady => daemon.now = real
  BY <1>2, <1>8 DEF Steady, ClocksRead
<1>14. \A r \in rested : \E l \in last : l \in Int /\ r \in Int /\ rested = {r}
                              /\ (Steady => l + Poll <= real /\ Covers(daemon, l - r))
  BY <1>1, <1>2 DEF RestAccounted
<1>15. Resting(p) /\ \A y \in Int : Covers(daemon, y) => Covers(p, y + gap)
  BY <1>4 DEF IdleFor
<1>16. ASSUME Steady, NEW r \in rested PROVE r \in Int /\ rested = {r} /\ Covers(p, real - r - Poll)
  <2>1. PICK l \in last : /\ l \in Int /\ r \in Int /\ rested = {r} /\ l + Poll <= real
                          /\ Covers(daemon, l - r)
    BY <1>14, <1>16
  <2>2. l - r \in Int /\ Covers(p, (l - r) + gap)
    BY <1>15, <2>1
  <2>3. (l - r) + gap \in Int /\ real - r - Poll \in Int /\ real - r - Poll <= (l - r) + gap
    BY <1>3, <1>8, <1>13, <1>16, <2>1
  <2>4. QED
    BY <1>15, <2>1, <2>2, <2>3, CoversLess
<1>17. RestAccounted'
  <2>1. last' # {} /\ rested' # {}
    BY <1>1
  <2>2. ASSUME NEW k \in last', NEW r \in rested'
        PROVE  /\ last' = {k} /\ rested' = {r} /\ k \in Int /\ r \in Int /\ k = daemon.now
    BY <1>1, <1>8, <1>14
  <2>3. ASSUME NEW k \in last', NEW r \in rested', Steady'
        PROVE  k + 0 <= real' /\ Covers(daemon', k - r)
    <3>1. Steady /\ k = real /\ real' = real
      BY <1>1, <1>12, <2>2, <2>3
    <3>2. k + 0 <= real'
      BY <1>8, <3>1
    <3>3. CASE isActive
      <4>1. k - r = 0
        BY <1>1, <1>8, <3>1, <3>3
      <4>2. QED
        BY <1>4, <1>11, <3>2, <3>3, <4>1
    <3>4. CASE ~isActive /\ rested # {}
      <4>1. r \in rested
        BY <1>1, <3>4
      <4>2. r \in Int /\ Covers(p, real - r - Poll)
        BY <1>16, <3>1, <4>1
      <4>3. Covers(f, (real - r - Poll) + Poll)
        <5>1. real - r - Poll \in Int
          BY <1>8, <4>2
        <5>2. QED
          BY <1>4, <3>4, <4>2, <5>1
      <4>4. (real - r - Poll) + Poll = k - r
        BY <1>8, <3>1, <4>2
      <4>5. QED
        BY <1>11, <3>2, <4>3, <4>4
    <3>5. CASE ~isActive /\ rested = {}
      <4>1. r = real - Poll
        BY <1>1, <3>5
      <4>2. last = {} /\ gap = 0
        BY <1>2, <1>3, <3>5 DEF RestAccounted
      <4>3. Covers(daemon, 0)
        BY <1>2 DEF Covers, Resting, IdleResets
      <4>4. Covers(p, 0 + gap)
        BY <1>15, <4>3
      <4>5. 0 + gap = 0 /\ 0 + Poll = k - r
        BY <1>8, <3>1, <4>1, <4>2
      <4>6. Covers(f, 0 + Poll)
        BY <1>4, <3>5, <4>4, <4>5
      <4>7. QED
        BY <1>11, <3>2, <4>5, <4>6
    <3>6. QED
      BY <3>3, <3>4, <3>5
  <2>4. ~due'
    BY <1>1
  <2>5. QED
    BY <1>11, <2>1, <2>2, <2>3, <2>4 DEF RestAccounted
<1>18. ASSUME Steady, NEW t \in ResetAfterIdle, NEW r \in rested
       PROVE  /\ rested' = {real} /\ real - Poll - r >= t => daemon'.sched.elapsed <= Poll
              /\ rested' # {real} /\ real - r >= t => daemon'.sched.elapsed = 0
  <2>1. r \in Int /\ rested = {r} /\ Covers(p, real - r - Poll)
    BY <1>16, <1>18
  <2>2. t \in Nat /\ t > 0
    BY DurationsAssumption
  <2>3. CASE isActive
    <3>1. rested' = {real}
      BY <1>1, <2>3
    <3>2. ASSUME real - Poll - r >= t PROVE daemon'.sched.elapsed <= Poll
      <4>1. Covers(p, t)
        <5>1. real - r - Poll \in Int /\ t <= real - r - Poll /\ t \in Int
          BY <1>8, <2>1, <2>2, <3>2
        <5>2. QED
          BY <1>15, <2>1, <5>1, CoversLess
      <4>2. p.sched.elapsed = 0
        BY <1>15, <4>1, CoveredReset
      <4>3. f.sched.elapsed <= 0 + Poll
        BY <1>4, <2>3, <4>2
      <4>4. QED
        BY <1>6, <1>8, <4>3
    <3>3. QED
      BY <3>1, <3>2
  <2>4. CASE ~isActive
    <3>1. rested' = {r}
      BY <1>1, <2>1, <2>4
    <3>2. rested' = {real} => r = real
      BY <3>1
    <3>3. rested' = {real} => ~(real - Poll - r >= t)
      BY <1>8, <2>2, <3>2
    <3>4. ASSUME real - r >= t PROVE daemon'.sched.elapsed = 0
      <4>1. real - r - Poll \in Int /\ (real - r - Poll) + Poll = real - r
        BY <1>8, <2>1
      <4>2. Covers(f, real - r)
        BY <1>4, <2>1, <2>4, <4>1
      <4>3. Covers(f, t)
        <5>1. real - r \in Int /\ t \in Int
          BY <1>8, <2>1, <2>2
        <5>2. QED
          BY <1>4, <3>4, <4>2, <5>1, CoversLess
      <4>4. QED
        BY <1>4, <1>6, <4>3, CoveredReset
    <3>5. QED
      BY <3>3, <3>4
  <2>5. QED
    BY <2>3, <2>4
<1>19. ClocksInv'
  BY <1>6, <1>7, <1>9, <1>10, <1>17 DEF ClocksInv
<1>20. QED
  BY <1>4, <1>6, <1>18, <1>19

-----------------------------------------------------------------------------
(* The overlay's samples and the tray                                       *)

\* From d to f no time is counted: the active time can only begin anew.
Counts(d, f) ==
    /\ f.now = d.now /\ f.idleTime = d.idleTime
    /\ f.sched \in Schedulers
    /\ f.sched.slot = d.sched.slot /\ f.sched.elapsed \in {d.sched.elapsed, 0}

\* A turn whose events count no time keeps all four accounts.
LEMMA QuietTurn ==
    ASSUME ClocksInv, NEW events, NEW option, Turn(events, option),
           option = {} <=> active = {},
           \A b \in option : \A a \in active :
               /\ option = {b} /\ DOMAIN b = {"deadline", "seen"}
               /\ b.deadline = a.deadline /\ b.seen \in Nat /\ b.seen <= mono,
           NEW f, f = HandledAll(events), Coherent(f), f.up, f.running,
           Outcome(f.current, f.cmds), Counts(daemon, f),
           UNCHANGED <<real, mono, jumped, last, rested>>, due' = due \/ due' = FALSE
    PROVE  ClocksInv' /\ daemon'.disable = f.disable
<1>1. /\ Settled(daemon) /\ ClocksRead /\ TimeAccounted /\ BreakAccounted /\ RestAccounted
  BY DEF ClocksInv
<1>2. /\ Settled(daemon') /\ daemon'.sched = f.sched /\ daemon'.current = f.current
      /\ daemon'.disable = f.disable /\ daemon'.now = f.now /\ daemon'.idleTime = f.idleTime
  BY TurnEnds
<1>3. /\ daemon'.now = daemon.now /\ daemon'.idleTime = daemon.idleTime
      /\ daemon'.sched \in Schedulers
      /\ daemon'.sched.slot = daemon.sched.slot
      /\ daemon'.sched.elapsed \in {daemon.sched.elapsed, 0}
  BY <1>2 DEF Counts
<1>4. due' \in BOOLEAN /\ due \in BOOLEAN /\ (due' => due)
  <2>1. due \in BOOLEAN
    BY <1>1 DEF ClocksRead
  <2>2. CASE due' = due
    BY <2>1, <2>2
  <2>3. CASE due' = FALSE
    BY <2>1, <2>3
  <2>4. QED
    BY <2>2, <2>3
<1>5. ClocksRead'
  BY <1>1, <1>3, <1>4 DEF ClocksRead
<1>6. TimeAccounted'
  <2>1. daemon.sched \in Schedulers
    BY <1>1 DEF Settled, Coherent, Agreed, SoundScheduler
  <2>2. /\ ActiveTime(daemon.sched) \in Nat /\ ActiveTime(daemon'.sched) \in Nat
        /\ ActiveTime(daemon'.sched) <= ActiveTime(daemon.sched)
    BY <1>3, <2>1, LessTime
  <2>3. mono \in Nat /\ mono' = mono /\ Poll = 1
    BY <1>1 DEF ClocksRead, Poll
  <2>4. ActiveTime(daemon.sched) + (IF due THEN Poll ELSE 0) <= mono
    BY <1>1 DEF TimeAccounted
  <2> DEFINE A == ActiveTime(daemon.sched)
             B == ActiveTime(daemon'.sched)
  <2> HIDE DEF A, B
  <2>5. B + (IF due' THEN Poll ELSE 0) <= mono'
    <3>1. A \in Nat /\ B \in Nat /\ B <= A /\ A + (IF due THEN Poll ELSE 0) <= mono
      BY <2>2, <2>4 DEF A, B
    <3>2. QED
      BY <1>4, <2>3, <3>1
  <2>6. QED
    BY <2>5 DEF TimeAccounted, B
<1>7. BreakAccounted'
  BY <1>1, TurnBreaks
<1>8. RestAccounted'
  <2>1. Resting(daemon')
    BY <1>1, <1>3 DEF RestAccounted, Resting
  <2>2. \A x : Covers(daemon, x) => Covers(daemon', x)
    BY <1>3 DEF Covers
  <2>3. Steady' => Steady
    BY DEF Steady
  <2>4. ASSUME NEW l \in last, NEW r \in rested, Steady,
               l \in Int, l + (IF due THEN Poll ELSE 0) <= real
        PROVE  l + (IF due' THEN Poll ELSE 0) <= real
    <3>1. real \in Nat /\ Poll = 1
      BY <1>1 DEF ClocksRead, Poll
    <3>2. QED
      BY <1>4, <2>4, <3>1
  <2>5. ASSUME NEW l \in last', NEW r \in rested'
        PROVE  /\ last' = {l} /\ rested' = {r} /\ l \in Int /\ r \in Int
               /\ Steady' => /\ l + (IF due' THEN Poll ELSE 0) <= real'
                             /\ Covers(daemon', l - r)
    <3>1. /\ last = {l} /\ rested = {r} /\ l \in Int /\ r \in Int
          /\ Steady => /\ l + (IF due THEN Poll ELSE 0) <= real
                       /\ Covers(daemon, l - r)
      BY <1>1, <2>5 DEF RestAccounted
    <3>2. QED
      BY <2>2, <2>3, <2>4, <3>1
  <2>6. last' = {} <=> rested' = {}
    BY <1>1 DEF RestAccounted
  <2>7. QED
    BY <2>1, <2>5, <2>6 DEF RestAccounted
<1>9. QED
  BY <1>2, <1>5, <1>6, <1>7, <1>8 DEF ClocksInv

\* What is shown while there is a break.
LEMMA ShownForABreak ==
    ASSUME BreakAccounted
    PROVE  \A b \in active : \A a \in active :
               /\ active = {b} /\ DOMAIN b = {"deadline", "seen"}
               /\ b.deadline = a.deadline /\ b.seen \in Nat /\ b.seen <= mono
<1>1. ASSUME NEW b \in active
      PROVE  active = {b} /\ DOMAIN b = {"deadline", "seen"} /\ b.seen \in Nat /\ b.seen <= mono
  <2>1. PICK c \in daemon.current : TRUE
    BY <1>1 DEF BreakAccounted
  <2>2. QED
    BY <1>1, <2>1 DEF BreakAccounted
<1>2. QED
  BY <1>1

\* disable_for clears the break there is.
LEMMA DisableForDoes ==
    ASSUME NEW d, DOMAIN d = DaemonFields, d.cmds = <<>>, NEW t, NEW propagate
    PROVE  Does(d, DisableFor(d, t, propagate), {},
                IF d.sched.phase = "Pending" THEN <<[kind |-> "ClearBreak"]>> ELSE <<>>)
<1> DEFINE g == [d EXCEPT !.disable = DisabledUntil(d.now + t)]
           f == [g EXCEPT !.current = {}, !.sched = Disable(@)]
           i == ClearNotice(f)
           h == UpdateStatus(i)
           k == [kind |-> "ClearBreak"]
           w == IF d.sched.phase = "Pending" THEN Command(h, k) ELSE h
           cs == IF d.sched.phase = "Pending" THEN <<k>> ELSE <<>>
           e == [kind |-> "DisableFor", duration |-> t]
<1>1. g.sched = d.sched
  BY DEF DaemonFields
<1>2. DisableFor(d, t, propagate) = BroadcastIf(w, propagate, e)
  BY <1>1 DEF DisableFor, DisableBreaks
<1>3. Does(d, f, {}, <<>>)
  BY DEF Does, DaemonFields
<1> HIDE DEF f, e
<1>4. Does(d, i, {}, <<>>)
  BY <1>3, OutputsDo
<1> HIDE DEF i
<1>5. Does(d, h, {}, <<>>)
  BY <1>4, OutputsDo
<1> HIDE DEF h, k
<1>6. Does(d, Command(h, k), {}, <<k>>)
  BY <1>5, OutputsDo
<1>7. Does(d, w, {}, cs)
  BY <1>5, <1>6
<1> HIDE DEF w, cs
<1>8. Does(d, BroadcastIf(w, propagate, e), {}, cs)
  BY <1>7, OutputsDo
<1>9. QED
  BY <1>2, <1>8 DEF cs, k

\* A break begun by hand.
LEMMA StartByHandKeeps ==
    ASSUME ClocksInv, NEW name, StartByHand(name)
    PROVE  ClocksInv' /\ daemon'.disable = daemon.disable
<1> DEFINE e == [kind |-> "StartManualBreak", name |-> name]
           f == StartManual(daemon, name, TRUE)
<1>1. /\ ~due /\ Turn(<<e>>, active)
      /\ UNCHANGED <<real, mono, jumped, last, rested>> /\ due' = due
  BY DEF StartByHand
<1>2. Settled(daemon) /\ BreakAccounted
  BY DEF ClocksInv
<1>3. Coherent(f) /\ MayStart(daemon, f) /\ Rested(daemon, f)
  BY <1>2, StartManualCoherent, StartManualDoes, StartManualRests DEF Settled
<1>4. f = HandledAll(<<e>>)
  <2>1. Handled(daemon, e) = f
    BY <1>2 DEF Handled, LocalEvent, Settled
  <2> HIDE DEF e, f
  <2>2. QED
    BY <2>1, HandledInTurn
<1> DEFINE events == <<e>>
<1> HIDE DEF e, f
<1>5. Outcome(f.current, f.cmds) /\ f.up /\ f.running
  BY <1>2, <1>3, MayStartComesTo DEF Settled
<1>6. Counts(daemon, f) /\ f.disable = daemon.disable
  BY <1>3 DEF Rested, Counts
<1>7. active = {} <=> active = {}
  OBVIOUS
<1>8. \A b \in active : \A a \in active :
          /\ active = {b} /\ DOMAIN b = {"deadline", "seen"}
          /\ b.deadline = a.deadline /\ b.seen \in Nat /\ b.seen <= mono
  BY <1>2, ShownForABreak
<1>9. Turn(events, active) /\ f = HandledAll(events)
  BY <1>1, <1>4
<1> HIDE DEF events
<1>10. ClocksInv' /\ daemon'.disable = f.disable
  BY <1>1, <1>3, <1>5, <1>6, <1>7, <1>8, <1>9, QuietTurn
<1>11. QED
  BY <1>6, <1>10

\* A timed disable, from the tray.
LEMMA DisableKeeps ==
    ASSUME ClocksInv, NEW t \in DisableTimes, DisableForATime(t)
    PROVE  ClocksInv' /\ daemon'.disable = DisabledUntil(daemon.now + t)
<1> DEFINE e == [kind |-> "DisableFor", duration |-> t]
           f == DisableFor(daemon, t, TRUE)
           m == [kind |-> "ClearBreak"]
<1>1. /\ ~due /\ Turn(<<e>>, active)
      /\ UNCHANGED <<real, mono, jumped, last, rested>> /\ due' = due
  BY DEF DisableForATime
<1>2. Settled(daemon) /\ BreakAccounted
  BY DEF ClocksInv
<1>3. /\ DOMAIN daemon = DaemonFields /\ daemon.sched \in Schedulers /\ Coherent(daemon)
      /\ daemon.cmds = <<>> /\ daemon.up /\ daemon.running
      /\ daemon.current # {} <=> daemon.sched.phase = "Pending"
  BY <1>2 DEF Settled, Coherent, Agreed, SoundScheduler
<1>4. /\ Coherent(f)
      /\ Does(daemon, f, {}, IF daemon.sched.phase = "Pending" THEN <<m>> ELSE <<>>)
      /\ f.now = daemon.now /\ f.idleTime = daemon.idleTime
      /\ f.disable = DisabledUntil(daemon.now + t)
      /\ f.sched \in Schedulers
      /\ f.sched.slot = daemon.sched.slot /\ f.sched.elapsed = 0
  <2>1. Coherent(f)
    BY <1>3, DisableCoherent
  <2>2. Does(daemon, f, {}, IF daemon.sched.phase = "Pending" THEN <<m>> ELSE <<>>)
    BY <1>3, DisableForDoes
  <2>3. /\ f.now = daemon.now /\ f.idleTime = daemon.idleTime
        /\ f.disable = DisabledUntil(daemon.now + t)
        /\ f.sched \in Schedulers
        /\ f.sched.slot = daemon.sched.slot /\ f.sched.elapsed = 0
    <3>1. /\ DOMAIN daemon = DaemonFields /\ daemon.sched \in Schedulers
          /\ daemon.now \in Int /\ t \in Int
      BY <1>3, ClocksAssumption DEF Coherent, Agreed
    <3>2. QED
      BY <3>1, DisableForSets
  <2> HIDE DEF f
  <2>4. QED
    BY <2>1, <2>2, <2>3
<1>5. f = HandledAll(<<e>>)
  <2>1. Handled(daemon, e) = f
    BY <1>3 DEF Handled, LocalEvent
  <2> HIDE DEF e, f
  <2>2. QED
    BY <2>1, HandledInTurn
<1>6. m.kind = "ClearBreak"
  OBVIOUS
<1> DEFINE events == <<e>>
<1> HIDE DEF e, f, m
<1>7. Outcome(f.current, f.cmds) /\ f.up /\ f.running
  <2>1. /\ f.current = {} /\ f.up /\ f.running
        /\ f.cmds = IF daemon.current # {} THEN <<m>> ELSE <<>>
    BY <1>3, <1>4 DEF Does
  <2>2. QED
    BY <1>6, <2>1 DEF Outcome
<1>8. Counts(daemon, f)
  BY <1>4 DEF Counts
<1>9. active = {} <=> active = {}
  OBVIOUS
<1>10. \A b \in active : \A a \in active :
          /\ active = {b} /\ DOMAIN b = {"deadline", "seen"}
          /\ b.deadline = a.deadline /\ b.seen \in Nat /\ b.seen <= mono
  BY <1>2, ShownForABreak
<1>11. Turn(events, active) /\ f = HandledAll(events)
  BY <1>1, <1>5
<1> HIDE DEF events
<1>12. ClocksInv' /\ daemon'.disable = f.disable
  BY <1>1, <1>4, <1>7, <1>8, <1>9, <1>10, <1>11, QuietTurn
<1>13. QED
  BY <1>4, <1>12

\* The end of being disabled, from the tray.
LEMMA EnableKeeps ==
    ASSUME ClocksInv, EnableByHand
    PROVE  ClocksInv' /\ daemon'.disable = Enabled
<1> DEFINE e == Event("Enable")
           f == EnableBreaks(daemon, TRUE)
<1>1. /\ ~due /\ Turn(<<e>>, active)
      /\ UNCHANGED <<real, mono, jumped, last, rested>> /\ due' = due
  BY DEF EnableByHand
<1>2. Settled(daemon) /\ BreakAccounted
  BY DEF ClocksInv
<1>3. /\ DOMAIN daemon = DaemonFields /\ daemon.sched \in Schedulers /\ Coherent(daemon)
      /\ daemon.cmds = <<>> /\ daemon.up /\ daemon.running
  BY <1>2 DEF Settled, Coherent, Agreed, SoundScheduler
<1>4. /\ Coherent(f) /\ Does(daemon, f, daemon.current, <<>>)
      /\ f.now = daemon.now /\ f.idleTime = daemon.idleTime /\ f.disable = Enabled
      /\ f.sched \in Schedulers
      /\ f.sched.slot = daemon.sched.slot /\ f.sched.elapsed = daemon.sched.elapsed
  BY <1>3, EnableCoherent, DisablingDoes, EnableSets
<1>5. f = HandledAll(<<e>>)
  <2>1. Handled(daemon, e) = f
    BY <1>3 DEF Handled, LocalEvent, Event
  <2> HIDE DEF e, f
  <2>2. QED
    BY <2>1, HandledInTurn
<1> DEFINE events == <<e>>
<1> HIDE DEF e, f
<1>6. Outcome(f.current, f.cmds) /\ f.up /\ f.running
  BY <1>3, <1>4 DEF Does, Outcome
<1>7. Counts(daemon, f)
  BY <1>4 DEF Counts
<1>8. active = {} <=> active = {}
  OBVIOUS
<1>9. \A b \in active : \A a \in active :
          /\ active = {b} /\ DOMAIN b = {"deadline", "seen"}
          /\ b.deadline = a.deadline /\ b.seen \in Nat /\ b.seen <= mono
  BY <1>2, ShownForABreak
<1>10. Turn(events, active) /\ f = HandledAll(events)
  BY <1>1, <1>5
<1> HIDE DEF events
<1>11. ClocksInv' /\ daemon'.disable = f.disable
  BY <1>1, <1>4, <1>6, <1>7, <1>8, <1>9, <1>10, QuietTurn
<1>12. QED
  BY <1>4, <1>11

\* A sample of the overlay, the last of the break where its time is over.
LEMMA OverlayKeeps ==
    ASSUME ClocksInv, SampleOverlay
    PROVE  /\ ClocksInv'
           /\ daemon'.disable = IF /\ daemon.disable.kind = "Timed"
                                   /\ daemon.now >= daemon.disable.until
                                THEN Enabled ELSE daemon.disable
           /\ \A a \in active : active' = {} <=> RemainingAt(a.deadline, daemon.now) = 0
<1> DEFINE a == CHOOSE a \in active : TRUE
           w == WallClockElapsed(Elapsed(a))
           b == Event("BreakFinished")
           over == RemainingAt(a.deadline, daemon.now) = 0
           events == <<w>> \o (IF over THEN <<b>> ELSE <<>>)
           seen == [a EXCEPT !.seen = mono]
           p == WallClock(daemon, Elapsed(a))
           f == HandledAll(events)
<1>1. /\ due /\ active # {} /\ Turn(events, {seen}) /\ due' = FALSE
      /\ UNCHANGED <<real, mono, jumped, last, rested>>
  BY DEF SampleOverlay, ClockOfBreaks
<1>2. /\ Settled(daemon) /\ Resting(daemon) /\ BreakAccounted /\ ClocksRead
  BY DEF ClocksInv, RestAccounted
<1>3. /\ active = {a} /\ DOMAIN a = {"deadline", "seen"} /\ a.seen \in Nat /\ a.seen <= mono
      /\ daemon.current # {}
  <2>1. a \in active /\ daemon.current # {}
    BY <1>1, <1>2 DEF BreakAccounted
  <2>2. QED
    BY <1>2, <2>1 DEF BreakAccounted
<1>4. mono \in Nat /\ Elapsed(a) \in Nat
  BY <1>2, <1>3 DEF ClocksRead, Elapsed
<1>5. /\ DOMAIN seen = {"deadline", "seen"} /\ seen.deadline = a.deadline /\ seen.seen = mono
  BY <1>3
<1>6. Handled(daemon, w) = p
  BY <1>2 DEF Handled, LocalEvent, WallClockElapsed, Settled
<1> HIDE DEF a, over, seen
<1>7. /\ IdleFor(daemon, p, 0)
      /\ p.sched.slot = daemon.sched.slot /\ p.sched.elapsed = daemon.sched.elapsed
      /\ p.disable = IF /\ daemon.disable.kind = "Timed"
                        /\ daemon.now >= daemon.disable.until
                     THEN Enabled ELSE daemon.disable
  BY <1>2, <1>4, WallClockGoesOn
<1>8. p.idleTime = daemon.idleTime
  <2>1. DOMAIN daemon = DaemonFields /\ daemon.sched \in Schedulers
    BY <1>2 DEF Settled, Coherent, Agreed, SoundScheduler
  <2>2. QED
    BY <2>1, WallClockSets
<1>9. /\ Coherent(p) /\ p.cmds = <<>> /\ p.up /\ p.running /\ DOMAIN p = DaemonFields
      /\ p.current = daemon.current /\ p.now = daemon.now /\ p.sched \in Schedulers
  BY <1>7 DEF IdleFor, Settled, Coherent, Agreed
<1>10. Handled(p, b) = BreakFinished(p)
  BY <1>9 DEF Handled, LocalEvent, Event
<1> HIDE DEF w, b, p
<1>11. f = IF over THEN BreakFinished(p) ELSE p
  <2>1. <<w>> \o <<>> = <<w>> /\ <<w>> \o <<b>> = <<w, b>>
    BY InARow
  <2>2. HandledAll(<<w>>) = p /\ HandledAll(<<w, b>>) = BreakFinished(p)
    BY <1>6, <1>10, HandledInTurn
  <2>3. QED
    BY <2>1, <2>2
<1>12. f = HandledAll(events) /\ Turn(events, {seen})
  BY <1>1
<1> HIDE DEF f, events
<1>13. /\ Coherent(f) /\ f.up /\ f.running /\ Counts(daemon, f) /\ f.disable = p.disable
       /\ Outcome(f.current, f.cmds)
       /\ over <=> f.current = {}
  <2>1. CASE ~over
    <3>1. f = p
      BY <1>11, <2>1
    <3>2. QED
      BY <1>3, <1>7, <1>8, <1>9, <2>1, <3>1 DEF Outcome, Counts
  <2>2. CASE over
    <3> DEFINE k == [kind |-> "FinishBreak", lock |-> \E c \in p.current : c.lock]
    <3>1. f = BreakFinished(p)
      BY <1>11, <2>2
    <3>2. /\ Coherent(f) /\ Rested(p, f)
          /\ Does(p, f, {}, IF p.current = {} THEN <<>> ELSE <<k>>)
      BY <1>9, <3>1, BreakEndsCoherent, BreakFinishedRests, BreakEventsDo
    <3>3. k.kind = "FinishBreak"
      OBVIOUS
    <3> HIDE DEF k
    <3>4. f.current = {} /\ f.up /\ f.running /\ f.cmds = <<k>>
      BY <1>3, <1>9, <3>2 DEF Does
    <3>5. Outcome(f.current, f.cmds)
      BY <1>3, <3>3, <3>4 DEF Outcome
    <3>6. Counts(daemon, f) /\ f.disable = p.disable
      BY <1>7, <1>8, <1>9, <3>2 DEF Counts, Rested
    <3>7. QED
      BY <2>2, <3>2, <3>4, <3>5, <3>6
  <2>3. QED
    BY <2>1, <2>2
<1>14. ({seen} = {} <=> active = {})
  BY <1>3
<1>15. \A s \in {seen} : \A c \in active :
           /\ {seen} = {s} /\ DOMAIN s = {"deadline", "seen"}
           /\ s.deadline = c.deadline /\ s.seen \in Nat /\ s.seen <= mono
  BY <1>3, <1>4, <1>5
<1>16. ClocksInv' /\ daemon'.disable = f.disable
  BY <1>1, <1>12, <1>13, <1>14, <1>15, QuietTurn
<1>17. active' = {} <=> over
  <2>1. daemon'.current = f.current
    BY <1>12, <1>13, TurnEnds
  <2>2. active' = {} <=> daemon'.current = {}
    BY <1>16 DEF ClocksInv, BreakAccounted
  <2>3. QED
    BY <1>13, <2>1, <2>2
<1>18. \A c \in active : active' = {} <=> RemainingAt(c.deadline, daemon.now) = 0
  BY <1>3, <1>17 DEF over
<1>19. QED
  BY <1>7, <1>13, <1>16, <1>18

-----------------------------------------------------------------------------
(* Time passing and clocks being set                                        *)

\* Between samples, the clocks go on or the system clock is set, by x.
LEMMA TimeKeeps ==
    ASSUME ClocksInv, NEW x \in Int, daemon' = [daemon EXCEPT !.now = @ + x], ~due, Still,
           real' \in Nat, mono' \in Nat, due' \in BOOLEAN, jumped' \in [fwd : Nat, back : Nat],
           jumped'.fwd >= jumped.fwd, jumped'.back >= jumped.back,
           real' + jumped'.fwd - jumped'.back = real + jumped.fwd - jumped.back + x,
           mono' >= mono + (IF due' THEN Poll ELSE 0), real' >= real + (IF due' THEN Poll ELSE 0)
    PROVE  ClocksInv'
<1>1. /\ Settled(daemon) /\ ClocksRead /\ TimeAccounted /\ BreakAccounted /\ RestAccounted
  BY DEF ClocksInv
<1>2. /\ real \in Nat /\ mono \in Nat /\ jumped \in [fwd : Nat, back : Nat]
      /\ daemon.now = real + jumped.fwd - jumped.back /\ Poll = 1
  BY <1>1 DEF ClocksRead, Poll
<1>3. DOMAIN daemon = DaemonFields /\ daemon.now \in Int /\ daemon.sched \in Schedulers
  BY <1>1 DEF Settled, Coherent, Agreed, SoundScheduler
<1>4. /\ DOMAIN daemon' = DaemonFields /\ daemon'.now = daemon.now + x
      /\ daemon'.sched = daemon.sched /\ daemon'.current = daemon.current
      /\ daemon'.disable = daemon.disable /\ daemon'.idleTime = daemon.idleTime
      /\ daemon'.budget = daemon.budget /\ daemon'.avail = daemon.avail
      /\ daemon'.status = daemon.status /\ daemon'.cmds = daemon.cmds
      /\ daemon'.up = daemon.up /\ daemon'.running = daemon.running
  BY <1>3 DEF DaemonFields
<1>5. daemon'.now \in Int
  BY <1>3, <1>4
<1>6. Settled(daemon')
  BY <1>1, <1>4, <1>5 DEF Settled, Coherent, Agreed, StatusRight
<1>7. ClocksRead'
  <2>1. daemon'.now = real' + jumped'.fwd - jumped'.back
    BY <1>2, <1>4
  <2>2. QED
    BY <2>1 DEF ClocksRead
<1>8. TimeAccounted'
  <2> DEFINE A == ActiveTime(daemon.sched)
  <2>1. A \in Nat /\ A <= mono
    <3>1. A \in Nat
      BY <1>3, LessTime
    <3>2. A + 0 <= mono
      BY <1>1 DEF TimeAccounted
    <3> HIDE DEF A
    <3>3. QED
      BY <1>2, <3>1, <3>2
  <2>2. ActiveTime(daemon'.sched) = A
    BY <1>4
  <2> HIDE DEF A
  <2>3. A + (IF due' THEN Poll ELSE 0) <= mono'
    BY <1>2, <2>1
  <2>4. QED
    BY <2>2, <2>3 DEF TimeAccounted
<1>9. BreakAccounted'
  <2>1. /\ active' = active /\ started' = started /\ disabled' = disabled
        /\ daemon'.current = daemon.current
    BY <1>4 DEF Still
  <2>2. \A m : Begun(m) => Begun(m)'
    <3>1. ASSUME NEW m, Begun(m)
          PROVE  /\ m \in Marks
                 /\ m.real <= real' /\ m.fwd <= jumped'.fwd /\ m.back <= jumped'.back
      <4>1. /\ m \in Marks /\ m.real \in Nat /\ m.fwd \in Nat /\ m.back \in Nat
            /\ m.real <= real /\ m.fwd <= jumped.fwd /\ m.back <= jumped.back
        BY <3>1 DEF Begun, Marks
      <4>2. real' >= real
        BY <1>2
      <4>3. jumped.fwd \in Nat /\ jumped.back \in Nat /\ jumped'.fwd \in Nat /\ jumped'.back \in Nat
        BY <1>2
      <4>4. QED
        BY <1>2, <4>1, <4>2, <4>3
    <3>2. QED
      BY <3>1 DEF Begun
  <2>3. Begun(started)' /\ Begun(disabled)'
    <3>1. Begun(started) /\ Begun(disabled)
      BY <1>1 DEF BreakAccounted
    <3>2. QED
      BY <2>1, <2>2, <3>1 DEF Begun
  <2>4. mono <= mono'
    BY <1>2
  <2>5. ASSUME NEW a \in active', NEW c \in daemon'.current
        PROVE  /\ active' = {a} /\ daemon'.current = {c} /\ c.name \in Rules
               /\ a.deadline = Deadline(ReadAt(started'), Duration[c.name])
               /\ DOMAIN a = {"deadline", "seen"} /\ a.seen \in Nat /\ a.seen <= mono'
    <3>1. /\ active = {a} /\ daemon.current = {c} /\ c.name \in Rules
          /\ a.deadline = Deadline(ReadAt(started), Duration[c.name])
          /\ DOMAIN a = {"deadline", "seen"} /\ a.seen \in Nat /\ a.seen <= mono
      BY <1>1, <2>1, <2>5 DEF BreakAccounted
    <3>2. a.seen <= mono'
      BY <1>2, <2>4, <3>1
    <3>3. QED
      BY <2>1, <3>1, <3>2
  <2>6. active' = {} <=> daemon'.current = {}
    BY <1>1, <2>1 DEF BreakAccounted
  <2>7. QED
    BY <2>3, <2>5, <2>6 DEF BreakAccounted
<1>10. RestAccounted'
  <2>1. last' = last /\ rested' = rested
    BY DEF Still
  <2>2. Resting(daemon')
    BY <1>1, <1>4 DEF RestAccounted, Resting
  <2>3. \A y : Covers(daemon, y) => Covers(daemon', y)
    BY <1>4 DEF Covers
  <2>4. Steady' => Steady
    <3>1. ASSUME Steady' PROVE Steady
      <4>1. jumped'.fwd = 0 /\ jumped'.back = 0
        BY <3>1 DEF Steady
      <4>2. jumped.fwd \in Nat /\ jumped.back \in Nat
        BY <1>2
      <4>3. jumped.fwd = 0 /\ jumped.back = 0
        BY <4>1, <4>2
      <4>4. QED
        BY <1>2, <4>3 DEF Steady
    <3>2. QED
      BY <3>1
  <2>5. ASSUME NEW l \in last', NEW r \in rested'
        PROVE  /\ last' = {l} /\ rested' = {r} /\ l \in Int /\ r \in Int
               /\ Steady' => /\ l + (IF due' THEN Poll ELSE 0) <= real'
                             /\ Covers(daemon', l - r)
    <3>1. /\ last = {l} /\ rested = {r} /\ l \in Int /\ r \in Int
          /\ Steady => /\ l + 0 <= real
                       /\ Covers(daemon, l - r)
      BY <1>1, <2>1, <2>5 DEF RestAccounted
    <3>2. Steady => l + (IF due' THEN Poll ELSE 0) <= real'
      BY <1>2, <3>1
    <3>3. QED
      BY <2>1, <2>3, <2>4, <3>1, <3>2
  <2>6. last' = {} <=> rested' = {}
    BY <1>1, <2>1 DEF RestAccounted
  <2>7. QED
    BY <2>2, <2>5, <2>6 DEF RestAccounted
<1>11. QED
  BY <1>6, <1>7, <1>8, <1>9, <1>10 DEF ClocksInv

LEMMA TickKeeps ==
    ASSUME ClocksInv, Tick
    PROVE  ClocksInv'
<1>1. /\ ~due /\ due' = TRUE /\ mono' = mono + 1 /\ real' = real + 1 /\ jumped' = jumped
      /\ daemon' = [daemon EXCEPT !.now = @ + 1] /\ Still
  BY DEF Tick
<1>2. /\ real \in Nat /\ mono \in Nat /\ jumped \in [fwd : Nat, back : Nat] /\ Poll = 1
  BY DEF ClocksInv, ClocksRead, Poll
<1>3. jumped.fwd \in Nat /\ jumped.back \in Nat
  BY <1>2
<1>4. /\ real' \in Nat /\ mono' \in Nat /\ due' \in BOOLEAN
      /\ jumped' \in [fwd : Nat, back : Nat]
      /\ jumped'.fwd >= jumped.fwd /\ jumped'.back >= jumped.back
      /\ real' + jumped'.fwd - jumped'.back = real + jumped.fwd - jumped.back + 1
      /\ mono' >= mono + (IF due' THEN Poll ELSE 0)
      /\ real' >= real + (IF due' THEN Poll ELSE 0)
  BY <1>1, <1>2, <1>3
<1>5. 1 \in Int
  OBVIOUS
<1>6. QED
  BY <1>1, <1>4, <1>5, TimeKeeps

LEMMA SleepKeeps ==
    ASSUME ClocksInv, NEW t \in SleepTimes, Sleep(t)
    PROVE  ClocksInv'
<1>1. /\ ~due /\ due' = due /\ mono' = mono /\ real' = real + t /\ jumped' = jumped
      /\ daemon' = [daemon EXCEPT !.now = @ + t] /\ Still
  BY DEF Sleep
<1>2. /\ real \in Nat /\ mono \in Nat /\ jumped \in [fwd : Nat, back : Nat] /\ due \in BOOLEAN
      /\ t \in Nat
  BY ClocksAssumption DEF ClocksInv, ClocksRead
<1>3. jumped.fwd \in Nat /\ jumped.back \in Nat
  BY <1>2
<1>4. /\ real' \in Nat /\ mono' \in Nat /\ due' \in BOOLEAN
      /\ jumped' \in [fwd : Nat, back : Nat]
      /\ jumped'.fwd >= jumped.fwd /\ jumped'.back >= jumped.back
      /\ real' + jumped'.fwd - jumped'.back = real + jumped.fwd - jumped.back + t
      /\ mono' >= mono + (IF due' THEN Poll ELSE 0)
      /\ real' >= real + (IF due' THEN Poll ELSE 0)
  BY <1>1, <1>2, <1>3
<1>5. t \in Int
  BY <1>2
<1>6. QED
  BY <1>1, <1>4, <1>5, TimeKeeps

LEMMA SetClockKeeps ==
    ASSUME ClocksInv, NEW j \in Jumps, SetClock(j)
    PROVE  ClocksInv'
<1>1. /\ ~due /\ due' = due /\ mono' = mono /\ real' = real
      /\ jumped' = [fwd |-> jumped.fwd + LaterOf(j, 0), back |-> jumped.back + LaterOf(-j, 0)]
      /\ daemon' = [daemon EXCEPT !.now = @ + j] /\ Still
  BY DEF SetClock
<1>2. /\ real \in Nat /\ mono \in Nat /\ jumped \in [fwd : Nat, back : Nat] /\ due \in BOOLEAN
      /\ j \in Int
  BY ClocksAssumption DEF ClocksInv, ClocksRead
<1>3. jumped.fwd \in Nat /\ jumped.back \in Nat
  BY <1>2
<1>4. LaterOf(j, 0) \in Nat /\ LaterOf(-j, 0) \in Nat /\ LaterOf(j, 0) - LaterOf(-j, 0) = j
  BY <1>2 DEF LaterOf
<1>5. jumped'.fwd = jumped.fwd + LaterOf(j, 0) /\ jumped'.back = jumped.back + LaterOf(-j, 0)
  BY <1>1
<1>6. /\ jumped' \in [fwd : Nat, back : Nat]
      /\ jumped'.fwd >= jumped.fwd /\ jumped'.back >= jumped.back
  BY <1>1, <1>3, <1>4
<1>7. real' + jumped'.fwd - jumped'.back = real + jumped.fwd - jumped.back + j
  BY <1>1, <1>2, <1>3, <1>4, <1>5
<1>8. /\ real' \in Nat /\ mono' \in Nat /\ due' \in BOOLEAN
      /\ mono' >= mono + (IF due' THEN Poll ELSE 0)
      /\ real' >= real + (IF due' THEN Poll ELSE 0)
  BY <1>1, <1>2
<1>9. QED
  BY <1>1, <1>2, <1>6, <1>7, <1>8, TimeKeeps

-----------------------------------------------------------------------------
(* The invariant *)

LEMMA InitKeeps == Init => ClocksInv
<1> SUFFICES ASSUME Init PROVE ClocksInv
  OBVIOUS
<1> DEFINE n == NewDaemon(1)
<1>1. /\ daemon = UpdateStatus(n) /\ mono = 0 /\ last = {} /\ active = {} /\ due = FALSE
      /\ real = 0 /\ jumped = [fwd |-> 0, back |-> 0] /\ rested = {}
      /\ started = NoMark /\ disabled = NoMark
  BY DEF Init
<1>2. SoundScheduler(NewScheduler) /\ NewScheduler.phase = "Ready" /\ NewScheduler.mode = "Active"
  BY AfterActiveAssumption
     DEF NewScheduler, SoundScheduler, Schedulers, Modes, WireValid
<1>3. NewScheduler.slot = 0 /\ NewScheduler.elapsed = 0
  BY DEF NewScheduler
<1>4. /\ DOMAIN n = DaemonFields /\ n.sched = NewScheduler /\ n.disable = Enabled
      /\ n.current = {} /\ n.cmds = <<>> /\ n.up = TRUE /\ n.running = TRUE
      /\ n.now = 0 /\ n.budget = 0 /\ n.idleTime = NotIdle
  BY DEF NewDaemon, DaemonFields
<1> HIDE DEF n
<1>5. Agreed(n)
  BY <1>2, <1>4 DEF Agreed, Enabled
<1>6. Coherent(daemon)
  BY <1>1, <1>4, <1>5, UpdateStatusShows
<1>7. /\ daemon.sched = NewScheduler /\ daemon.current = {} /\ daemon.cmds = <<>>
      /\ daemon.up /\ daemon.running /\ daemon.now = 0 /\ daemon.idleTime = NotIdle
  <2> DEFINE u == UpdateStatus(n)
  <2>1. Does(n, n, {}, <<>>)
    BY <1>4 DEF Does
  <2>2. Does(n, u, {}, <<>>)
    BY <2>1, OutputsDo
  <2>3. Unmoved(n, u)
    BY <1>4, OutputsUnmoved
  <2> HIDE DEF u
  <2>4. QED
    <3>1. u.current = {} /\ u.cmds = <<>> /\ u.up = n.up /\ u.running = n.running
      BY <1>4, <2>2 DEF Does
    <3>2. u.sched = n.sched /\ u.now = n.now /\ u.idleTime = n.idleTime
      BY <2>3 DEF Unmoved
    <3>3. daemon = u
      BY <1>1 DEF u
    <3>4. QED
      BY <1>4, <3>1, <3>2, <3>3
<1>8. ClocksRead
  <2>1. jumped \in [fwd : Nat, back : Nat] /\ jumped.fwd = 0 /\ jumped.back = 0
    BY <1>1
  <2>2. real \in Nat /\ mono \in Nat /\ daemon.now = real + jumped.fwd - jumped.back
    BY <1>1, <1>7, <2>1
  <2>3. due \in BOOLEAN
    BY <1>1
  <2>4. QED
    BY <2>1, <2>2, <2>3 DEF ClocksRead
<1>9. TimeAccounted
  <2>1. AfterActive * 0 = 0
    BY AfterActiveAssumption
  <2>2. ActiveTime(daemon.sched) = 0
    BY <1>3, <1>7, <2>1 DEF ActiveTime
  <2>3. QED
    BY <1>1, <2>2 DEF TimeAccounted
<1>10. BreakAccounted
  BY <1>1, <1>7, <1>8, MarksBegun DEF BreakAccounted
<1>11. Resting(daemon)
  BY <1>3, <1>7, DurationsAssumption DEF Resting, IdleResets, NotIdle
<1>12. QED
  BY <1>1, <1>6, <1>7, <1>8, <1>9, <1>10, <1>11 DEF ClocksInv, Settled, RestAccounted

LEMMA StepKeeps == ClocksInv /\ [Next]_vars => ClocksInv'
<1> SUFFICES ASSUME ClocksInv, [Next]_vars PROVE ClocksInv'
  OBVIOUS
<1>1. ASSUME NEW b \in BOOLEAN, SampleActivity(b) PROVE ClocksInv'
  BY <1>1, PollKeeps
<1>2. CASE SampleOverlay
  BY <1>2, OverlayKeeps
<1>3. ASSUME NEW name \in Names, StartByHand(name) PROVE ClocksInv'
  BY <1>3, StartByHandKeeps
<1>4. ASSUME NEW t \in DisableTimes, DisableForATime(t) PROVE ClocksInv'
  BY <1>4, DisableKeeps
<1>5. CASE EnableByHand
  BY <1>5, EnableKeeps
<1>6. CASE Tick
  BY <1>6, TickKeeps
<1>7. ASSUME NEW t \in SleepTimes, Sleep(t) PROVE ClocksInv'
  BY <1>7, SleepKeeps
<1>8. ASSUME NEW j \in Jumps, SetClock(j) PROVE ClocksInv'
  BY <1>8, SetClockKeeps
<1>9. CASE UNCHANGED vars
  BY <1>9 DEF vars, ClocksInv, Settled, ClocksRead, TimeAccounted, BreakAccounted,
              RestAccounted, Begun, Steady
<1>10. QED
  BY <1>1, <1>2, <1>3, <1>4, <1>5, <1>6, <1>7, <1>8, <1>9 DEF Next

\* Whatever was slept through or slept in, however the system clock was set: what
\* the clocks read, what they amount to and what they have begun fit together.
THEOREM ClocksAccounted == Spec => []ClocksInv
BY InitKeeps, StepKeeps, PTL DEF Spec

\* What a step does while a sample is due: it is that sample.
LEMMA DueIsSampled ==
    ASSUME Next, due
    PROVE  \/ active = {} /\ \E b \in BOOLEAN : SampleActivity(b)
           \/ active # {} /\ SampleOverlay
BY DEF Next, SampleActivity, SampleOverlay, StartByHand, DisableForATime, EnableByHand,
       Tick, Sleep, SetClock

-----------------------------------------------------------------------------

\* A break, a sleep and every other gap between two samples is not active time: the
\* scheduler never has more of it than the machine was awake without a break.
THEOREM OnlyAwakeTimeCounts == Spec => []ActiveTimeIsAwake
<1>1. ASSUME ClocksInv PROVE ActiveTimeIsAwake
  <2>1. daemon.sched \in Schedulers /\ mono \in Nat /\ Poll = 1 /\ TimeAccounted
    BY <1>1 DEF ClocksInv, Settled, Coherent, Agreed, SoundScheduler, ClocksRead, Poll
  <2> DEFINE A == ActiveTime(daemon.sched)
  <2>2. A \in Nat /\ A + (IF due THEN Poll ELSE 0) <= mono
    BY <2>1, LessTime DEF TimeAccounted
  <2> HIDE DEF A
  <2>3. A <= mono
    BY <2>1, <2>2
  <2>4. QED
    BY <2>3 DEF A, ActiveTime, ActiveTimeIsAwake
<1>2. QED
  BY <1>1, ClocksAccounted, PTL

\* The clocks and the marks as numbers.
LEMMA ReadingsOfMarks ==
    ASSUME ClocksInv, NEW m, Begun(m)
    PROVE  /\ real \in Int /\ jumped.fwd \in Int /\ jumped.back \in Int
           /\ m.real \in Int /\ m.fwd \in Int /\ m.back \in Int
           /\ m.real <= real /\ m.fwd <= jumped.fwd /\ m.back <= jumped.back
           /\ daemon.now = real + jumped.fwd - jumped.back
           /\ ReadAt(m) = m.real + m.fwd - m.back
           /\ ReadAt(m) \in Int /\ daemon.now \in Int
<1>1. /\ real \in Nat /\ jumped.fwd \in Nat /\ jumped.back \in Nat
      /\ daemon.now = real + jumped.fwd - jumped.back
  BY DEF ClocksInv, ClocksRead
<1>2. /\ m.real \in Nat /\ m.fwd \in Nat /\ m.back \in Nat
      /\ m.real <= real /\ m.fwd <= jumped.fwd /\ m.back <= jumped.back
  BY DEF Begun, Marks
<1>3. ReadAt(m) = m.real + m.fwd - m.back
  BY DEF ReadAt
<1>4. QED
  BY <1>1, <1>2, <1>3

\* How far off the end is of what began at a mark, and what is shown of it.
Off(m) == ReadAt(m) + Length - daemon.now
Shown(off, length) == IF off <= 0 THEN 0 ELSE IF off > length THEN length ELSE off

\* The break that is shown: how long it lasts, and what is left of it.
LEMMA BreakShown ==
    ASSUME ClocksInv, NEW a \in active
    PROVE  /\ Length \in Nat \ {0} /\ active = {a}
           /\ RemainingAt(a.deadline, daemon.now) = Shown(Off(started), Length)
<1>1. BreakAccounted
  BY DEF ClocksInv
<1>2. PICK c \in daemon.current : TRUE
  BY <1>1 DEF BreakAccounted
<1>3. /\ active = {a} /\ daemon.current = {c} /\ c.name \in Rules
      /\ a.deadline = Deadline(ReadAt(started), Duration[c.name])
  BY <1>1, <1>2 DEF BreakAccounted
<1>4. Length = Duration[c.name] /\ Length \in Nat \ {0}
  <2>1. (CHOOSE d \in daemon.current : TRUE) = c
    BY <1>3
  <2>2. Length = Duration[c.name]
    BY <2>1 DEF Length
  <2>3. QED
    BY <1>3, <2>2, DurationsAssumption
<1>5. a.deadline = [ends |-> ReadAt(started) + Length, duration |-> Length]
  BY <1>3, <1>4 DEF Deadline
<1> DEFINE at == ReadAt(started)
           dl == a.deadline
<1>6. dl.ends = at + Length /\ dl.duration = Length
  BY <1>5
<1>7. at \in Int /\ daemon.now \in Int
  BY <1>1, ReadingsOfMarks DEF BreakAccounted
<1> HIDE DEF Length, at, dl
<1> DEFINE left == RemainingAt(dl, daemon.now)
           off == at + Length - daemon.now
<1>8. /\ daemon.now >= dl.ends => left = 0
      /\ ~(daemon.now >= dl.ends) /\ dl.ends - daemon.now > dl.duration => left = dl.duration
      /\ ~(daemon.now >= dl.ends) /\ ~(dl.ends - daemon.now > dl.duration)
             => left = dl.ends - daemon.now
  <2>1. dl.ends \in Int /\ dl.duration \in Nat /\ daemon.now \in Int
    BY <1>4, <1>6, <1>7
  <2>2. CASE daemon.now >= dl.ends
    BY <2>1, <2>2 DEF RemainingAt
  <2>3. CASE ~(daemon.now >= dl.ends)
    BY <2>1, <2>3 DEF RemainingAt
  <2>4. QED
    BY <2>2, <2>3
<1> HIDE DEF left
<1>9. left = Shown(off, Length)
  BY <1>4, <1>6, <1>7, <1>8 DEF Shown
<1>10. off = Off(started)
  BY DEF Off, at
<1> HIDE DEF off
<1>11. QED
  BY <1>3, <1>4, <1>5, <1>9, <1>10 DEF left, dl

\* However the system clock is set, the countdown a break shows (remaining_at,
\* src/activity.rs) is off what is really left of it by no more than that, and never
\* above the break's length.
THEOREM CountdownsAreHonest == Spec => []CountdownIsHonest
<1>1. ASSUME ClocksInv PROVE CountdownIsHonest
  <2> SUFFICES ASSUME NEW a \in active
               PROVE  LET left == RemainingAt(a.deadline, daemon.now)
                          truly == Length - (real - started.real)
                      IN  /\ left <= Length
                          /\ left <= LaterOf(truly + jumped.back - started.back, 0)
                          /\ left >= EarlierOf(truly - (jumped.fwd - started.fwd), Length)
    BY DEF CountdownIsHonest
  <2> DEFINE left == RemainingAt(a.deadline, daemon.now)
             truly == Length - (real - started.real)
             above == truly + jumped.back - started.back
             below == truly - (jumped.fwd - started.fwd)
             off == Off(started)
  <2>1. Length \in Nat \ {0} /\ left = Shown(off, Length)
    BY <1>1, BreakShown
  <2>2. Begun(started)
    BY <1>1 DEF ClocksInv, BreakAccounted
  <2>3. /\ real \in Int /\ jumped.fwd \in Int /\ jumped.back \in Int
        /\ started.real \in Int /\ started.fwd \in Int /\ started.back \in Int
        /\ started.real <= real /\ started.fwd <= jumped.fwd /\ started.back <= jumped.back
        /\ daemon.now = real + jumped.fwd - jumped.back
        /\ ReadAt(started) = started.real + started.fwd - started.back
    BY <1>1, <2>2, ReadingsOfMarks
  <2>4. /\ above \in Int /\ below \in Int /\ off \in Int
        /\ below <= off /\ off <= above
    BY <2>1, <2>3 DEF Off
  <2> HIDE DEF left, truly, Length, above, below, off
  <2>5. left <= Length /\ left <= LaterOf(above, 0) /\ left >= EarlierOf(below, Length)
    BY <2>1, <2>4 DEF Shown, LaterOf, EarlierOf
  <2>6. QED
    BY <2>5 DEF left, truly, above, below
<1>2. QED
  BY <1>1, ClocksAccounted, PTL

\* What a sample that is due does to a break (sample_overlay_once,
\* src/x11_activity.rs and src/macos_activity.rs): past the clock's jumps it goes on
\* through a sleep, and with the first sample after its time it is over.
THEOREM BreaksEndOnTime == Spec => BreakOnTime
<1> DEFINE Ends == /\ due /\ active # {} /\ active' # {} => NotLate(started, Length)
                   /\ due /\ active # {} /\ active' = {} => NotEarly(started, Length)
<1>1. ASSUME ClocksInv, [Next]_vars PROVE [Ends]_vars
  <2> SUFFICES ASSUME Next, due, NEW a \in active PROVE Ends
    BY <1>1
  <2>1. SampleOverlay
    BY DueIsSampled
  <2> DEFINE over == active' = {}
             left == RemainingAt(a.deadline, daemon.now)
             off == Off(started)
  <2>2. over <=> left = 0
    BY <1>1, <2>1, OverlayKeeps
  <2>3. Length \in Nat \ {0} /\ left = Shown(off, Length)
    BY <1>1, BreakShown
  <2>4. Begun(started)
    BY <1>1 DEF ClocksInv, BreakAccounted
  <2>5. /\ real \in Int /\ jumped.fwd \in Int /\ jumped.back \in Int
        /\ started.real \in Int /\ started.fwd \in Int /\ started.back \in Int
        /\ started.real <= real /\ started.fwd <= jumped.fwd /\ started.back <= jumped.back
        /\ daemon.now = real + jumped.fwd - jumped.back
        /\ ReadAt(started) = started.real + started.fwd - started.back
    BY <1>1, <2>4, ReadingsOfMarks
  <2>6. /\ off \in Int
        /\ off > 0 => NotLate(started, Length)
        /\ off <= 0 => NotEarly(started, Length)
    BY <2>3, <2>5 DEF Off, NotLate, NotEarly
  <2> HIDE DEF left, off, over
  <2>7. left = 0 <=> off <= 0
    BY <2>3, <2>6 DEF Shown
  <2>8. QED
    BY <2>2, <2>6, <2>7 DEF over
<1>2. QED
  BY <1>1, ClocksAccounted, PTL DEF Spec, BreakOnTime

\* A timed disable (advance_wall_clock, src/runtime.rs) ends with the first sample
\* after its time, in a break or out of one, and not before, past the clock's jumps.
THEOREM DisablesEndOnTime == Spec => DisableOnTime
<1> DEFINE Ends == \A t \in DisableTimes :
                     daemon.disable = DisabledUntil(disabled.real + disabled.fwd - disabled.back + t) =>
                         /\ due /\ daemon'.disable = daemon.disable => NotLate(disabled, t)
                         /\ due /\ daemon'.disable # daemon.disable => NotEarly(disabled, t)
<1>1. ASSUME ClocksInv, [Next]_vars PROVE [Ends]_vars
  <2> DEFINE until == disabled.real + disabled.fwd - disabled.back
  <2> SUFFICES ASSUME Next, due, NEW t \in DisableTimes,
                      daemon.disable = DisabledUntil(until + t)
               PROVE  /\ daemon'.disable = daemon.disable => NotLate(disabled, t)
                      /\ daemon'.disable # daemon.disable => NotEarly(disabled, t)
    BY <1>1
  <2>1. daemon'.disable = IF /\ daemon.disable.kind = "Timed"
                             /\ daemon.now >= daemon.disable.until
                          THEN Enabled ELSE daemon.disable
    BY <1>1, DueIsSampled, OverlayKeeps, PollKeeps
  <2>2. daemon.disable.kind = "Timed" /\ daemon.disable.until = until + t
    BY DEF DisabledUntil
  <2>3. Enabled # daemon.disable
    BY <2>2 DEF Enabled
  <2>4. daemon'.disable = daemon.disable <=> ~(daemon.now >= until + t)
    BY <2>1, <2>2, <2>3
  <2>5. Begun(disabled) /\ t \in Nat
    BY <1>1, ClocksAssumption DEF ClocksInv, BreakAccounted
  <2>6. /\ real \in Int /\ jumped.fwd \in Int /\ jumped.back \in Int
        /\ disabled.real \in Int /\ disabled.fwd \in Int /\ disabled.back \in Int
        /\ disabled.real <= real /\ disabled.fwd <= jumped.fwd /\ disabled.back <= jumped.back
        /\ daemon.now = real + jumped.fwd - jumped.back
    BY <1>1, <2>5, ReadingsOfMarks
  <2>7. /\ ~(daemon.now >= until + t) => NotLate(disabled, t)
        /\ daemon.now >= until + t => NotEarly(disabled, t)
    BY <2>5, <2>6 DEF NotLate, NotEarly
  <2>8. QED
    BY <2>4, <2>7
<1>2. QED
  BY <1>1, ClocksAccounted, PTL DEF Spec, DisableOnTime

\* A rest resets the active time with the first sample after it, whether it was
\* sampled as idle, went by in a break or was slept through (queue_sample_at,
\* src/activity.rs, with advance_idle, src/runtime.rs), as long as the clock was not set.
THEOREM RestsReset == Spec => RestResets
<1> DEFINE Resets == \A t \in ResetAfterIdle : \A r \in rested :
             Steady /\ due /\ active = {} /\ ~due' =>
                 /\ rested' = {real} /\ real - Poll - r >= t => daemon'.sched.elapsed <= Poll
                 /\ rested' # {real} /\ real - r >= t => daemon'.sched.elapsed = 0
<1>1. ASSUME ClocksInv, [Next]_vars PROVE [Resets]_vars
  <2> SUFFICES ASSUME Next, due, active = {} PROVE Resets
    BY <1>1
  <2>1. PICK b \in BOOLEAN : SampleActivity(b)
    BY DueIsSampled
  <2>2. QED
    BY <1>1, <2>1, PollKeeps
<1>2. QED
  BY <1>1, ClocksAccounted, PTL DEF Spec, RestResets
=============================================================================
