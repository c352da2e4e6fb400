------------------------ MODULE DaemonRuntimeProofs -------------------------
(***************************************************************************)
(* The invariants of the daemon runtime, for every schedule and every event *)
(* of the backend, the tray and the peers: first what follows from the      *)
(* coherence that every handler keeps, then what the handlers leave alone, *)
(* and that events do not circulate among peers, the wall clock bounds the *)
(* active time that is counted, and a lock asked for is kept.              *)
(***************************************************************************)
EXTENDS DaemonRuntime, OperatorProofs

-----------------------------------------------------------------------------
(* The actions *)

\* Once its output is taken away a coherent daemon is still coherent.
LEMMA HandleCoherent ==
    ASSUME NEW d, Coherent(d), Handle(d)
    PROVE  Coherent(daemon')
BY DEF Handle, Coherent, StatusRight, Agreed, DaemonFields
\* A step handles an event, the handler's result coherent, or is one of the two
\* that are no event.
LEMMA StepIsHandled ==
    ASSUME Coherent(daemon), [Next]_vars
    PROVE  (\E d : Coherent(d) /\ Handle(d)) \/ BackendEnds \/ Tick \/ UNCHANGED vars
<1> DEFINE Handled == \E d : Coherent(d) /\ Handle(d)
<1> USE EventsAssumption
<1>1. CASE FromBackend
  <2>1. ASSUME NEW e \in ActiveTimes, ActiveTime(e) PROVE Handled
    BY <2>1, LocalEventCoherent DEF ActiveTime, OnLocal
  <2>2. ASSUME NEW e \in IdleTimes, IdleTime(e) PROVE Handled
    BY <2>2, LocalEventCoherent DEF IdleTime, OnLocal
  <2>3. ASSUME NEW e \in WallTimes, WallClockSample(e) PROVE Handled
    BY <2>3, LocalEventCoherent DEF WallClockSample, OnLocal
  <2>4. CASE StartFailed
    BY <2>4, LocalEventCoherent DEF StartFailed, OnLocal
  <2>5. CASE Finished
    BY <2>5, LocalEventCoherent DEF Finished, OnLocal
  <2>6. CASE LockRequested
    BY <2>6, LocalEventCoherent DEF LockRequested, OnLocal
  <2>7. CASE Shutdown
    BY <2>7, LocalEventCoherent DEF Shutdown, OnLocal
  <2>8. QED
    BY <1>1, <2>1, <2>2, <2>3, <2>4, <2>5, <2>6, <2>7 DEF FromBackend
<1>2. CASE FromTray
  <2>1. ASSUME NEW name \in Names, StartByHand(name) PROVE Handled
    BY <2>1, LocalEventCoherent DEF StartByHand, OnLocal
  <2>2. ASSUME NEW t \in DisableTimes, DisableForATime(t) PROVE Handled
    BY <2>2, LocalEventCoherent DEF DisableForATime, OnLocal
  <2>3. CASE DisableForGood
    BY <2>3, LocalEventCoherent DEF DisableForGood, OnLocal
  <2>4. CASE EnableByHand
    BY <2>4, LocalEventCoherent DEF EnableByHand, OnLocal
  <2>5. QED
    BY <1>2, <2>1, <2>2, <2>3, <2>4 DEF FromTray
<1>3. CASE FromTransport
  <2>1. ASSUME NEW p \in Peers, NEW e \in PeerEvents, FromPeer(p, e) PROVE Handled
    BY <2>1, PeerEventsAssumption, SyncEventCoherent DEF FromPeer
  <2>2. ASSUME NEW p \in Peers, PeerAuthenticated(p) PROVE Handled
    BY <2>2, OutputsCoherent DEF PeerAuthenticated, SendSchedulerState
  <2>3. ASSUME NEW p \in Strangers, RejectPeer(p) PROVE Handled
    <3>1. Coherent(PeerRejected(daemon, p))
      BY DEF PeerRejected, Coherent, StatusRight, Agreed, DaemonFields
    <3>2. QED
      BY <2>3, <3>1 DEF RejectPeer
  <2>4. QED
    BY <1>3, <2>1, <2>2, <2>3 DEF FromTransport
<1>4. QED
  BY <1>1, <1>2, <1>3 DEF Next

\* Every step takes a coherent daemon to a coherent one.
LEMMA StepCoherent ==
    ASSUME Coherent(daemon), [Next]_vars
    PROVE  Coherent(daemon')
<1>1. CASE \E d : Coherent(d) /\ Handle(d)
  BY <1>1, HandleCoherent
<1>2. CASE BackendEnds
  BY <1>2 DEF BackendEnds, Coherent, StatusRight, Agreed, DaemonFields
<1>3. CASE Tick
  BY <1>3 DEF Tick, Coherent, StatusRight, Agreed, DaemonFields
<1>4. CASE UNCHANGED vars
  BY <1>4 DEF vars
<1>5. QED
  BY <1>1, <1>2, <1>3, <1>4, StepIsHandled

\* A daemon starts coherent.
LEMMA InitCoherent == Init => Coherent(daemon)
<1>1. SoundScheduler(NewScheduler) /\ NewScheduler.phase = "Ready" /\ NewScheduler.mode = "Active"
  BY AfterActiveAssumption
     DEF NewScheduler, SoundScheduler, Schedulers, Modes, WireValid
<1>2. Agreed(NewDaemon(Self))
  BY <1>1 DEF NewDaemon, Agreed, DaemonFields, Enabled
<1>3. Coherent(UpdateStatus(NewDaemon(Self)))
  BY <1>2, UpdateStatusShows DEF Agreed
<1>4. QED
  BY <1>3 DEF Init

-----------------------------------------------------------------------------

\* The runtime has a current break exactly while the scheduler is pending: no
\* overlay outlives its break in the runtime's books and no schedule stops
\* behind a break that is over, whatever events come in whatever order, whether
\* or not the backend still takes commands.
THEOREM BreakRecordsAgree == Spec => []CurrentIffPending
<1>1. Init => Coherent(daemon)
  BY InitCoherent
<1>2. Coherent(daemon) /\ [Next]_vars => Coherent(daemon)'
  BY StepCoherent
<1>3. Coherent(daemon) => CurrentIffPending
  BY DEF Coherent, Agreed, CurrentIffPending
<1>4. QED
  BY <1>1, <1>2, <1>3, PTL DEF Spec

\* The tray's disable mode and the scheduler's never part, through breaks,
\* expiring timers and peers' enables and disables.
THEOREM DisableRecordsAgree == Spec => []DisabledTogether
<1>1. Init => Coherent(daemon)
  BY InitCoherent
<1>2. Coherent(daemon) /\ [Next]_vars => Coherent(daemon)'
  BY StepCoherent
<1>3. Coherent(daemon) => DisabledTogether
  BY DEF Coherent, Agreed, DisabledTogether
<1>4. QED
  BY <1>1, <1>2, <1>3, PTL DEF Spec

\* The breaks the tray offers are those that would start: every handler that
\* changes what is due next refreshes them, and the ones that do not refresh
\* change nothing that shows.
THEOREM TrayOffersWhatStarts == Spec => []AvailabilityShown
<1>1. Init => Coherent(daemon)
  BY InitCoherent
<1>2. Coherent(daemon) /\ [Next]_vars => Coherent(daemon)'
  BY StepCoherent
<1>3. Coherent(daemon) => AvailabilityShown
  BY DEF Coherent, AvailabilityShown
<1>4. QED
  BY <1>1, <1>2, <1>3, PTL DEF Spec

\* While a break is counted down to, the tray names the one that will start and
\* never promises it later than it comes, after every event, the peers' included:
\* a handler that brings the break nearer refreshes the status, and one that does
\* not can only have put it off.
THEOREM TrayNamesNextBreak == Spec => []StatusNamesNextBreak
<1>1. Init => Coherent(daemon)
  BY InitCoherent
<1>2. Coherent(daemon) /\ [Next]_vars => Coherent(daemon)'
  BY StepCoherent
<1>3. Coherent(daemon) => StatusNamesNextBreak
  BY DEF Coherent, StatusRight, StatusNamesNextBreak
<1>4. QED
  BY <1>1, <1>2, <1>3, PTL DEF Spec

-----------------------------------------------------------------------------
(* What the handlers leave alone *)

\* f is a daemon with d's account of combined activity.
SameAccount(d, f) ==
    /\ DOMAIN f = DaemonFields
    /\ f.seen = d.seen /\ f.budget = d.budget

\* Moreover nothing has been sent since d.
Quiet(d, f) == SameAccount(d, f) /\ f.sent = d.sent

\* What a BreakStarted of a scheduled break looks like on its way out.
AnnouncesScheduled(m) ==
    m.event.kind = "BreakStarted" /\ m.event.start.origin.kind = "Scheduled"

\* Between d and f nothing was sent, or one announcement of a scheduled break.
AnnouncesAtMost(d, f) ==
    \/ f.sent = d.sent
    \/ \E m : AnnouncesScheduled(m) /\ f.sent = Append(d.sent, m)

-----------------------------------------------------------------------------
(* Steps the handlers are made of *)

LEMMA EffectsChain ==
    ASSUME NEW d, NEW f
    PROVE  /\ Quiet(d, f) => SameAccount(d, f) /\ AnnouncesAtMost(d, f)
           /\ \A g : SameAccount(d, f) /\ SameAccount(f, g) => SameAccount(d, g)
           /\ \A g : Quiet(d, f) /\ Quiet(f, g) => Quiet(d, g)
           /\ \A g : Quiet(d, f) /\ AnnouncesAtMost(f, g) => AnnouncesAtMost(d, g)
BY DEF Quiet, SameAccount, AnnouncesAtMost

\* Commands, notifications and the display send nothing; a broadcast does only if
\* it is asked for.
LEMMA OutputsQuiet ==
    ASSUME NEW d, DOMAIN d = DaemonFields
    PROVE  /\ Quiet(d, d)
           /\ \A c : Quiet(d, Command(d, c))
           /\ Quiet(d, ClearNotice(d))
           /\ Quiet(d, NotifyUpcoming(d))
           /\ Quiet(d, UpdateStatus(d))
           /\ \A e : Quiet(d, BroadcastIf(d, FALSE, e))
           /\ \A b, e : SameAccount(d, BroadcastIf(d, b, e))
           /\ \A x : Quiet(d, [d EXCEPT !.sched = x])
           /\ \A x : Quiet(d, [d EXCEPT !.current = x])
<1>1. \A c : Quiet(d, Command(d, c))
  BY DEF Quiet, SameAccount, Command, DaemonFields
<1>2. Quiet(d, ClearNotice(d)) /\ Quiet(d, NotifyUpcoming(d))
  BY DEF Quiet, SameAccount, ClearNotice, NotifyUpcoming, DaemonFields
<1>3. Quiet(d, UpdateStatus(d))
  BY DEF Quiet, SameAccount, UpdateStatus, DaemonFields
<1>4. Quiet(d, d)
  BY DEF Quiet, SameAccount
<1>5. \A e : Quiet(d, BroadcastIf(d, FALSE, e))
  BY <1>4 DEF BroadcastIf
<1>6. ASSUME NEW b, NEW e PROVE SameAccount(d, BroadcastIf(d, b, e))
  <2>1. SameAccount(d, Send(d, e, {}))
    BY DEF SameAccount, Send, DaemonFields
  <2>2. QED
    BY <1>4, <2>1 DEF BroadcastIf, Quiet
<1>7. /\ \A x : Quiet(d, [d EXCEPT !.sched = x])
      /\ \A x : Quiet(d, [d EXCEPT !.current = x])
  BY DEF Quiet, SameAccount, DaemonFields
<1>8. QED
  BY <1>1, <1>2, <1>3, <1>4, <1>5, <1>6, <1>7

\* finish_break of the scheduler with its refresh.
LEMMA FinishSchedulerQuiet ==
    ASSUME NEW d, DOMAIN d = DaemonFields
    PROVE  Quiet(d, FinishScheduler(d))
<1> DEFINE f == [d EXCEPT !.sched = FinishBreak(@)]
<1>1. Quiet(d, f)
  BY DEF Quiet, SameAccount, DaemonFields
<1>2. FinishScheduler(d) \in {f, UpdateStatus(f)}
  BY DEF FinishScheduler
<1> HIDE DEF f
<1>3. Quiet(f, UpdateStatus(f))
  BY <1>1, OutputsQuiet DEF Quiet, SameAccount
<1>4. QED
  BY <1>1, <1>2, <1>3, EffectsChain

\* start_break_at tells the peers only if it is asked to, and then of the break.
LEMMA StartBreakAtEffects ==
    ASSUME NEW d, DOMAIN d = DaemonFields, NEW b, NEW lock, NEW at
    PROVE  /\ \A propagate : SameAccount(d, StartBreakAt(d, b, lock, at, propagate))
           /\ Quiet(d, StartBreakAt(d, b, lock, at, FALSE))
           /\ \A propagate : b.origin.kind = "Scheduled" =>
                  AnnouncesAtMost(d, StartBreakAt(d, b, lock, at, propagate))
<1> DEFINE c == ClearNotice(d)
           f == [c EXCEPT !.current = {CurrentBreak(b, lock, at)}]
           g == Command(f, [kind |-> "StartBreak", lock |-> lock,
                            remaining |-> Remaining(d, at, b.name)])
           m == BreakStarted(d, b, at)
<1>1. CASE Remaining(d, at, b.name) = 0
  BY <1>1, FinishSchedulerQuiet, EffectsChain DEF StartBreakAt
<1>2. CASE Remaining(d, at, b.name) # 0
  <2>1. \A propagate : StartBreakAt(d, b, lock, at, propagate) = BroadcastIf(g, propagate, m)
    BY <1>2 DEF StartBreakAt
  <2>2. Quiet(d, c)
    BY OutputsQuiet
  <2> HIDE DEF c
  <2>3. Quiet(c, f)
    BY <2>2, OutputsQuiet DEF Quiet, SameAccount
  <2> HIDE DEF f
  <2>4. Quiet(f, g)
    BY <2>3, OutputsQuiet DEF Quiet, SameAccount
  <2> HIDE DEF g
  <2>5. Quiet(d, g) /\ DOMAIN g = DaemonFields
    BY <2>2, <2>3, <2>4, EffectsChain DEF Quiet, SameAccount
  <2>6. /\ Quiet(d, BroadcastIf(g, FALSE, m))
        /\ \A propagate : SameAccount(d, BroadcastIf(g, propagate, m))
    <3>1. /\ Quiet(g, BroadcastIf(g, FALSE, m))
          /\ \A propagate : SameAccount(g, BroadcastIf(g, propagate, m))
      BY <2>5, OutputsQuiet
    <3>2. QED
      BY <2>5, <3>1, EffectsChain
  <2>7. ASSUME b.origin.kind = "Scheduled", NEW propagate
        PROVE  AnnouncesAtMost(g, BroadcastIf(g, propagate, m))
    <3>1. AnnouncesScheduled([event |-> m, to |-> {}])
      BY <2>7 DEF AnnouncesScheduled, BreakStarted, BreakStart
    <3>2. Send(g, m, {}).sent = Append(g.sent, [event |-> m, to |-> {}])
      BY <2>5 DEF Send, DaemonFields
    <3>3. AnnouncesAtMost(g, Send(g, m, {}))
      BY <3>1, <3>2 DEF AnnouncesAtMost
    <3>4. QED
      BY <3>3 DEF BroadcastIf, AnnouncesAtMost
  <2>8. \A propagate : b.origin.kind = "Scheduled" =>
            AnnouncesAtMost(d, BroadcastIf(g, propagate, m))
    BY <2>5, <2>7, EffectsChain
  <2>9. QED
    BY <2>1, <2>6, <2>8
<1>3. QED
  BY <1>1, <1>2

\* The same, carried on from a daemon f that d has become.
LEMMA QuietOutputs ==
    ASSUME NEW d, NEW f, Quiet(d, f)
    PROVE  /\ \A c : Quiet(d, Command(f, c))
           /\ Quiet(d, ClearNotice(f))
           /\ Quiet(d, NotifyUpcoming(f))
           /\ Quiet(d, UpdateStatus(f))
           /\ Quiet(d, FinishScheduler(f))
           /\ \A e : Quiet(d, BroadcastIf(f, FALSE, e))
           /\ \A b, e : SameAccount(d, BroadcastIf(f, b, e))
           /\ \A x : Quiet(d, [f EXCEPT !.sched = x])
           /\ \A x : Quiet(d, [f EXCEPT !.current = x])
<1>1. DOMAIN f = DaemonFields /\ SameAccount(d, f)
  BY DEF Quiet, SameAccount
<1>2. /\ \A c : Quiet(f, Command(f, c))
      /\ Quiet(f, ClearNotice(f)) /\ Quiet(f, NotifyUpcoming(f)) /\ Quiet(f, UpdateStatus(f))
      /\ Quiet(f, FinishScheduler(f))
      /\ \A e : Quiet(f, BroadcastIf(f, FALSE, e))
      /\ \A x : Quiet(f, [f EXCEPT !.sched = x])
      /\ \A x : Quiet(f, [f EXCEPT !.current = x])
  BY <1>1, OutputsQuiet, FinishSchedulerQuiet
<1>3. \A b, e : SameAccount(f, BroadcastIf(f, b, e))
  BY <1>1, OutputsQuiet
<1>4. \A g : Quiet(f, g) => Quiet(d, g)
  BY EffectsChain
<1>5. \A g : SameAccount(f, g) => SameAccount(d, g)
  BY <1>1, EffectsChain
<1>6. QED
  BY <1>2, <1>3, <1>4, <1>5

-----------------------------------------------------------------------------
(* The handlers of breaks, resets and disabling *)

\* start_manual_break
LEMMA StartManualEffects ==
    ASSUME NEW d, DOMAIN d = DaemonFields, NEW name, NEW propagate
    PROVE  SameAccount(d, StartManual(d, name, propagate))
<1> DEFINE f == [d EXCEPT !.sched = AfterManualBreak(@, name)]
           g == UpdateStatus(f)
<1>1. Quiet(d, d)
  BY OutputsQuiet
<1>2. StartManual(d, name, propagate) \in
          {d, StartBreakAt(g, Break(name, Manual), Autolock[name], d.now, propagate)}
  BY DEF StartManual
<1>3. Quiet(d, f)
  BY <1>1, QuietOutputs
<1> HIDE DEF f
<1>4. Quiet(d, g)
  BY <1>3, QuietOutputs
<1> HIDE DEF g
<1>5. SameAccount(g, StartBreakAt(g, Break(name, Manual), Autolock[name], d.now, propagate))
  <2>1. DOMAIN g = DaemonFields
    BY <1>4 DEF Quiet, SameAccount
  <2>2. QED
    BY <2>1, StartBreakAtEffects
<1>6. SameAccount(d, d) /\ SameAccount(d, g)
  BY <1>1, <1>4 DEF Quiet
<1>7. QED
  BY <1>2, <1>5, <1>6, EffectsChain

\* break_start_failed and finish_break
LEMMA BreakEndsQuiet ==
    ASSUME NEW d, DOMAIN d = DaemonFields
    PROVE  Quiet(d, BreakStartFailed(d)) /\ Quiet(d, BreakFinished(d))
<1> DEFINE c == ClearNotice(d)
           f == [c EXCEPT !.current = {}]
           g == FinishScheduler(f)
<1>1. Quiet(d, c)
  BY OutputsQuiet
<1> HIDE DEF c
<1>2. Quiet(d, f)
  BY <1>1, QuietOutputs
<1> HIDE DEF f
<1>3. Quiet(d, g)
  BY <1>2, QuietOutputs
<1> HIDE DEF g
<1>4. \A m : Quiet(d, Command(g, m))
  BY <1>3, QuietOutputs
<1>5. QED
  BY <1>1, <1>3, <1>4 DEF BreakStartFailed, BreakFinished, c, f, g

\* request_lock_after_current_break
LEMMA RequestLockEffects ==
    ASSUME NEW d, DOMAIN d = DaemonFields
    PROVE  /\ \A propagate : SameAccount(d, RequestLock(d, propagate))
           /\ Quiet(d, RequestLock(d, FALSE))
<1> DEFINE f == [d EXCEPT !.current = {[c EXCEPT !.lock = TRUE] : c \in d.current}]
           g == Command(f, [kind |-> "RequestLock"])
           e == [kind |-> "LockAfterCurrentBreak"]
<1>1. \A propagate : RequestLock(d, propagate) \in {d, BroadcastIf(g, propagate, e)}
  BY DEF RequestLock
<1>2. Quiet(d, d)
  BY OutputsQuiet
<1>3. Quiet(d, f)
  BY <1>2, QuietOutputs
<1> HIDE DEF f
<1>4. Quiet(d, g)
  BY <1>3, QuietOutputs
<1> HIDE DEF g
<1>5. \A propagate : SameAccount(d, BroadcastIf(g, propagate, e))
  BY <1>4, QuietOutputs
<1>6. Quiet(d, BroadcastIf(g, FALSE, e))
  BY <1>4, QuietOutputs
<1>7. SameAccount(d, d)
  BY <1>2 DEF Quiet
<1> HIDE DEF e
<1>8. QED
  BY <1>1, <1>2, <1>5, <1>6, <1>7

\* apply_scheduler_reset
LEMMA SchedulerResetEffects ==
    ASSUME NEW d, DOMAIN d = DaemonFields
    PROVE  /\ \A propagate : SameAccount(d, SchedulerReset(d, propagate))
           /\ Quiet(d, SchedulerReset(d, FALSE))
<1> DEFINE f == [d EXCEPT !.idleTime.triggered = TRUE, !.idleCount.triggered = TRUE,
                          !.sched = ResetPosition(@)]
           g == UpdateStatus(ClearNotice(f))
           e == [kind |-> "SchedulerReset"]
           b == Position(f.sched) # Position(d.sched)
<1>1. \A propagate : SchedulerReset(d, propagate) = BroadcastIf(g, propagate /\ b, e)
  BY DEF SchedulerReset
<1>2. Quiet(d, f)
  BY DEF Quiet, SameAccount, DaemonFields
<1> HIDE DEF b, f
<1>3. Quiet(d, g)
  BY <1>2, QuietOutputs
<1> HIDE DEF g
<1>4. \A propagate : SameAccount(d, BroadcastIf(g, propagate /\ b, e))
  BY <1>3, QuietOutputs
<1>5. Quiet(d, BroadcastIf(g, FALSE /\ b, e))
  BY <1>3 DEF BroadcastIf
<1>6. QED
  BY <1>1, <1>4, <1>5

\* advance_idle
LEMMA AdvanceIdleEffects ==
    ASSUME NEW d, DOMAIN d = DaemonFields, NEW e
    PROVE  SameAccount(d, AdvanceIdle(d, e))
<1> DEFINE f == [d EXCEPT !.idleTime = IdleAdvance(@, ResetAfterIdle, e),
                          !.idleCount = IdleAdvance(@, ResetCountAfterIdle, e)]
           g == [f EXCEPT !.sched = ResetActiveTime(@)]
           h == UpdateStatus(ClearNotice(g))
<1>1. AdvanceIdle(d, e) \in {SchedulerReset(f, TRUE), h, f}
  BY DEF AdvanceIdle
<1>2. Quiet(d, f)
  BY DEF Quiet, SameAccount, DaemonFields
<1> HIDE DEF f
<1>3. Quiet(d, g)
  BY <1>2, QuietOutputs
<1> HIDE DEF g
<1>4. Quiet(d, h)
  BY <1>3, QuietOutputs
<1> HIDE DEF h
<1>5. SameAccount(f, SchedulerReset(f, TRUE))
  BY <1>2, SchedulerResetEffects DEF Quiet, SameAccount
<1>6. SameAccount(d, f) /\ SameAccount(d, h)
  BY <1>2, <1>4 DEF Quiet
<1>7. QED
  BY <1>1, <1>5, <1>6, EffectsChain

\* enable
LEMMA EnableEffects ==
    ASSUME NEW d, DOMAIN d = DaemonFields
    PROVE  /\ \A propagate : SameAccount(d, EnableBreaks(d, propagate))
           /\ Quiet(d, EnableBreaks(d, FALSE))
<1> DEFINE f == [d EXCEPT !.sched = Enable(@), !.disable = Enabled]
<1>1. Quiet(d, f)
  BY DEF Quiet, SameAccount, DaemonFields
<1>2. \A propagate :
          EnableBreaks(d, propagate) = BroadcastIf(UpdateStatus(f), propagate, [kind |-> "Enable"])
  BY DEF EnableBreaks
<1> HIDE DEF f
<1>3. Quiet(d, UpdateStatus(f))
  BY <1>1, QuietOutputs
<1>4. /\ \A b, e : SameAccount(d, BroadcastIf(UpdateStatus(f), b, e))
      /\ \A e : Quiet(d, BroadcastIf(UpdateStatus(f), FALSE, e))
  BY <1>3, QuietOutputs
<1>5. QED
  BY <1>2, <1>4

\* disable_scheduler and its callers
LEMMA DisableEffects ==
    ASSUME NEW d, DOMAIN d = DaemonFields
    PROVE  /\ \A t, propagate : SameAccount(d, DisableFor(d, t, propagate))
           /\ \A t : Quiet(d, DisableFor(d, t, FALSE))
           /\ \A propagate : SameAccount(d, DisableUntilRestart(d, propagate))
           /\ Quiet(d, DisableUntilRestart(d, FALSE))
<1>1. ASSUME NEW m PROVE Quiet(d, DisableBreaks([d EXCEPT !.disable = m]))
  <2> DEFINE g == [d EXCEPT !.disable = m]
             f == [g EXCEPT !.current = {}, !.sched = Disable(@)]
             h == UpdateStatus(ClearNotice(f))
  <2>1. DisableBreaks(g) \in {h, Command(h, [kind |-> "ClearBreak"])}
    BY DEF DisableBreaks
  <2>2. Quiet(d, g)
    BY DEF Quiet, SameAccount, DaemonFields
  <2> HIDE DEF g
  <2>3. Quiet(d, f)
    BY <2>2 DEF Quiet, SameAccount, DaemonFields
  <2> HIDE DEF f
  <2>4. Quiet(d, h)
    BY <2>3, QuietOutputs
  <2> HIDE DEF h
  <2>5. Quiet(d, Command(h, [kind |-> "ClearBreak"]))
    BY <2>4, QuietOutputs
  <2>6. QED
    BY <2>1, <2>4, <2>5 DEF g
<1>2. \A m, b, e :
          SameAccount(d, BroadcastIf(DisableBreaks([d EXCEPT !.disable = m]), b, e))
  BY <1>1, QuietOutputs
<1>3. \A m, e : Quiet(d, BroadcastIf(DisableBreaks([d EXCEPT !.disable = m]), FALSE, e))
  BY <1>1, QuietOutputs
<1>4. QED
  BY <1>2, <1>3 DEF DisableFor, DisableUntilRestart

\* advance_wall_clock: the budget is the sample's.
LEMMA WallClockEffects ==
    ASSUME NEW d, DOMAIN d = DaemonFields, NEW e
    PROVE  WallClock(d, e).seen = TRUE /\ WallClock(d, e).budget = e
<1> DEFINE f == [d EXCEPT !.seen = TRUE, !.budget = e]
           g == IF d.disable.kind = "Timed" /\ d.now >= d.disable.until
                THEN EnableBreaks(f, FALSE) ELSE f
<1>1. DOMAIN f = DaemonFields /\ f.seen = TRUE /\ f.budget = e
  BY DEF DaemonFields
<1>2. WallClock(d, e) = UpdateStatus(g)
  BY DEF WallClock
<1> HIDE DEF f
<1>3. Quiet(f, f) /\ Quiet(f, EnableBreaks(f, FALSE))
  BY <1>1, EnableEffects, OutputsQuiet
<1>4. Quiet(f, g)
  BY <1>3
<1> HIDE DEF g
<1>5. Quiet(f, UpdateStatus(g))
  BY <1>4, QuietOutputs
<1>6. QED
  BY <1>1, <1>2, <1>5 DEF Quiet, SameAccount

-----------------------------------------------------------------------------
(* Active time *)

\* The active time a scheduler stands for is a number.
LEMMA ActiveTimeType ==
    ASSUME NEW s \in Schedulers
    PROVE  ActiveTimeOf(s) \in Nat
<1>1. s.slot \in Nat /\ s.elapsed \in Nat
  BY DEF Schedulers
<1>2. AfterActive * s.slot \in Nat
  BY <1>1, AfterActiveAssumption
<1>3. QED
  BY <1>1, <1>2 DEF ActiveTimeOf

\* The scheduler never takes more active time than it is given.
LEMMA AdvanceActiveTakes ==
    ASSUME NEW s, SoundScheduler(s), NEW e \in Nat
    PROVE  ActiveTimeOf(AdvanceActive(s, e)) <= ActiveTimeOf(s) + e
<1> DEFINE t == AdvanceActive(s, e)
           k == SlotsCrossed(s, e)
<1>1. s \in Schedulers /\ s.slot \in Nat /\ s.elapsed \in Nat
  BY DEF SoundScheduler, Schedulers
<1>2. /\ s.elapsed + e = (AfterActive * k) + ((s.elapsed + e) % AfterActive)
      /\ k \in Nat /\ (s.elapsed + e) % AfterActive \in Nat
  BY <1>1, SlotsOfTime DEF SlotsCrossed
<1>3. AfterActive * (s.slot + k) = (AfterActive * s.slot) + (AfterActive * k)
  BY <1>1, <1>2, AfterActiveAssumption
<1>4. AfterActive * s.slot \in Nat /\ AfterActive * k \in Nat
  BY <1>1, <1>2, AfterActiveAssumption
<1>5. CASE ~IsActive(s)
  <2>1. t = s
    BY <1>5 DEF AdvanceActive
  <2>2. ActiveTimeOf(s) \in Nat
    BY <1>1, ActiveTimeType
  <2> HIDE DEF t
  <2>3. QED
    BY <2>1, <2>2 DEF t
<1>6. CASE IsActive(s) /\ SlotsWithBreak(s, e) = {}
  <2>1. t.slot = s.slot + k /\ t.elapsed = (s.elapsed + e) % AfterActive
    BY <1>1, <1>6, AdvanceActiveQuietly
  <2>2. ActiveTimeOf(t) = (AfterActive * (s.slot + k)) + ((s.elapsed + e) % AfterActive)
    BY <2>1 DEF ActiveTimeOf
  <2> DEFINE A == AfterActive * s.slot
             B == AfterActive * k
             m == (s.elapsed + e) % AfterActive
  <2>3. ActiveTimeOf(t) = A + B + m /\ s.elapsed + e = B + m
        /\ A \in Nat /\ B \in Nat /\ m \in Nat
    BY <1>2, <1>3, <1>4, <2>2
  <2>4. ActiveTimeOf(s) = A + s.elapsed
    BY DEF ActiveTimeOf
  <2> HIDE DEF A, B, m, t, k
  <2>5. ActiveTimeOf(t) <= ActiveTimeOf(s) + e
    BY <1>1, <2>3, <2>4
  <2>6. QED
    BY <2>5 DEF t
<1>7. CASE IsActive(s) /\ SlotsWithBreak(s, e) # {}
  <2> DEFINE n == Least(SlotsWithBreak(s, e))
             A == AfterActive * s.slot
             B == AfterActive * k
  <2>1. t.slot = n /\ t.elapsed = 0
    BY <1>1, <1>7, AdvanceActiveToBreak
  <2>2. n \in Nat /\ n <= s.slot + k
    <3>1. SlotsWithBreak(s, e) \subseteq Nat
      BY <1>1, <1>2 DEF SlotsWithBreak
    <3>2. n \in SlotsWithBreak(s, e)
      BY <1>7, <3>1, LeastOf
    <3>3. QED
      BY <1>1, <1>2, <3>1, <3>2 DEF SlotsWithBreak
  <2> HIDE DEF n
  <2>3. AfterActive * n <= A + B
    <3>1. AfterActive * n <= AfterActive * (s.slot + k)
      BY <1>1, <1>2, <2>2, AfterActiveAssumption
    <3>2. QED
      BY <1>3, <3>1
  <2>4. AfterActive * n \in Nat
    BY <2>2, AfterActiveAssumption
  <2>5. ActiveTimeOf(t) = AfterActive * n
    BY <2>1, <2>4 DEF ActiveTimeOf
  <2>6. ActiveTimeOf(s) = A + s.elapsed /\ A \in Nat /\ B \in Nat /\ B <= s.elapsed + e
    BY <1>1, <1>2, <1>4 DEF ActiveTimeOf
  <2> HIDE DEF A, B, t
  <2>7. ActiveTimeOf(t) <= ActiveTimeOf(s) + e
    BY <1>1, <2>3, <2>4, <2>5, <2>6
  <2>8. QED
    BY <2>7 DEF t
<1>8. QED
  BY <1>5, <1>6, <1>7

\* What happens to the scheduler once a break is shown or found over.
LEMMA StartBreakAtScheduler ==
    ASSUME NEW d, DOMAIN d = DaemonFields, NEW b, NEW lock, NEW at, NEW propagate
    PROVE  StartBreakAt(d, b, lock, at, propagate).sched \in {d.sched, FinishBreak(d.sched)}
<1> DEFINE c == ClearNotice(d)
           f == [c EXCEPT !.current = {CurrentBreak(b, lock, at)}]
           g == Command(f, [kind |-> "StartBreak", lock |-> lock,
                            remaining |-> Remaining(d, at, b.name)])
           i == [d EXCEPT !.sched = FinishBreak(@)]
<1>1. CASE Remaining(d, at, b.name) = 0
  <2>1. StartBreakAt(d, b, lock, at, propagate) \in {i, UpdateStatus(i)}
    BY <1>1 DEF StartBreakAt, FinishScheduler
  <2>2. DOMAIN i = DaemonFields /\ i.sched = FinishBreak(d.sched)
    BY DEF DaemonFields
  <2> HIDE DEF i
  <2>3. UpdateStatus(i).sched = i.sched
    BY <2>2, UpdateStatusShows
  <2>4. QED
    BY <2>1, <2>2, <2>3
<1>2. CASE Remaining(d, at, b.name) # 0
  <2>1. StartBreakAt(d, b, lock, at, propagate) = BroadcastIf(g, propagate, BreakStarted(d, b, at))
    BY <1>2 DEF StartBreakAt
  <2>2. DOMAIN c = DaemonFields /\ c.sched = d.sched
    BY OutputsAlike DEF Alike
  <2> HIDE DEF c
  <2>3. DOMAIN f = DaemonFields /\ f.sched = d.sched
    BY <2>2 DEF DaemonFields
  <2> HIDE DEF f
  <2>4. DOMAIN g = DaemonFields /\ g.sched = d.sched
    BY <2>3, OutputsAlike DEF Alike
  <2> HIDE DEF g
  <2>5. BroadcastIf(g, propagate, BreakStarted(d, b, at)).sched = g.sched
    BY <2>4, OutputsAlike DEF Alike
  <2>6. QED
    BY <2>1, <2>4, <2>5
<1>3. QED
  BY <1>1, <1>2

\* A break that active time starts is a scheduled one.
LEMMA StartedByTimeIsScheduled ==
    ASSUME NEW s, NEW e, NEW b \in AdvanceActiveBreak(s, e)
    PROVE  b.origin.kind = "Scheduled"
BY DEF AdvanceActiveBreak, DueBreak, Break, Scheduled

\* advance_active of the scheduler with what the runtime does about its result.
LEMMA AdvanceSchedulerEffects ==
    ASSUME NEW d, DOMAIN d = DaemonFields, SoundScheduler(d.sched), NEW e \in Nat
    PROVE  LET f == AdvanceScheduler(d, e)
           IN  /\ SameAccount(d, f) /\ AnnouncesAtMost(d, f)
               /\ ActiveTimeOf(f.sched) <= ActiveTimeOf(d.sched) + e
<1> DEFINE S == AdvanceActive(d.sched, e)
           started == AdvanceActiveBreak(d.sched, e)
           f == [d EXCEPT !.sched = AdvanceActive(@, e)]
           b == CHOOSE b \in started : TRUE
           g == UpdateStatus(ClearNotice(f))
           h == StartBreakAt(g, b, Autolock[b.name], d.now, TRUE)
           k == NotifyUpcoming(UpdateStatus(f))
<1>1. SoundScheduler(S) /\ ActiveTimeOf(S) <= ActiveTimeOf(d.sched) + e
  BY AdvanceActiveTakes, AdvanceActiveSound DEF SoundScheduler
<1>2. f.sched = S /\ Quiet(d, f) /\ DOMAIN f = DaemonFields
  BY DEF Quiet, SameAccount, DaemonFields
<1>3. AdvanceScheduler(d, e) = IF started = {} THEN k ELSE h
  BY DEF AdvanceScheduler
<1> HIDE DEF f
<1>4. Quiet(d, k) /\ k.sched = S
  <2>1. Quiet(d, UpdateStatus(f)) /\ DOMAIN UpdateStatus(f) = DaemonFields
        /\ UpdateStatus(f).sched = S
    BY <1>2, QuietOutputs, UpdateStatusShows
  <2>2. Quiet(d, k)
    BY <2>1, QuietOutputs
  <2>3. QED
    BY <2>1, <2>2, OutputsAlike DEF Alike
<1>5. Quiet(d, g) /\ g.sched = S /\ DOMAIN g = DaemonFields
  <2>1. /\ Quiet(d, ClearNotice(f)) /\ DOMAIN ClearNotice(f) = DaemonFields
        /\ ClearNotice(f).sched = S
    BY <1>2, QuietOutputs, OutputsAlike DEF Alike
  <2>2. Quiet(d, g)
    BY <2>1, QuietOutputs
  <2>3. QED
    BY <2>1, <2>2, UpdateStatusShows
<1> HIDE DEF S, g, k
<1>6. CASE started = {}
  <2>1. SameAccount(d, k) /\ AnnouncesAtMost(d, k)
    BY <1>4, EffectsChain
  <2>2. QED
    BY <1>1, <1>3, <1>4, <1>6, <2>1
<1>7. CASE started # {}
  <2>1. b.origin.kind = "Scheduled"
    BY <1>7, StartedByTimeIsScheduled
  <2> HIDE DEF b
  <2>2. SameAccount(g, h) /\ AnnouncesAtMost(g, h)
    BY <1>5, <2>1, StartBreakAtEffects
  <2>3. h.sched \in {S, FinishBreak(S)}
    BY <1>5, StartBreakAtScheduler
  <2> HIDE DEF h
  <2>4. SameAccount(d, h) /\ AnnouncesAtMost(d, h)
    BY <1>5, <2>2, EffectsChain
  <2>5. ActiveTimeOf(h.sched) <= ActiveTimeOf(S)
    <3>1. S \in Schedulers /\ ActiveTimeOf(S) \in Nat /\ S.elapsed \in Nat
      BY <1>1, ActiveTimeType DEF SoundScheduler, Schedulers
    <3>2. FinishBreak(S).slot = S.slot /\ FinishBreak(S).elapsed = 0
      BY <3>1 DEF FinishBreak, Schedulers
    <3>3. AfterActive * S.slot \in Nat
      BY <3>1, AfterActiveAssumption DEF Schedulers
    <3>4. ActiveTimeOf(FinishBreak(S)) <= ActiveTimeOf(S)
      BY <3>1, <3>2, <3>3 DEF ActiveTimeOf
    <3>5. QED
      BY <2>3, <3>1, <3>4
  <2>6. ActiveTimeOf(h.sched) <= ActiveTimeOf(d.sched) + e
    <3>1. h.sched \in Schedulers /\ S \in Schedulers /\ d.sched \in Schedulers
      BY <1>1, <2>3, ResetsSound DEF SoundScheduler
    <3>2. /\ ActiveTimeOf(h.sched) \in Nat /\ ActiveTimeOf(S) \in Nat
          /\ ActiveTimeOf(d.sched) \in Nat
      BY <3>1, ActiveTimeType
    <3>3. QED
      BY <1>1, <2>5, <3>2
  <2>7. QED
    BY <1>3, <1>7, <2>4, <2>6
<1>8. QED
  BY <1>6, <1>7

\* observe_active: the scheduler takes no more than is taken off the budget, and a
\* peer's active time makes the daemon announce at most a scheduled break.
LEMMA ObserveActiveEffects ==
    ASSUME NEW d, Coherent(d), NEW e \in Nat
    PROVE  /\ \A propagate :
                  LET f == ObserveActive(d, e, propagate)
                  IN  /\ f.seen = d.seen
                      /\ f.budget = IF d.seen THEN d.budget - Counted(d, e) ELSE d.budget
                      /\ ActiveTimeOf(f.sched) <= ActiveTimeOf(d.sched) + Counted(d, e)
           /\ AnnouncesAtMost(d, ObserveActive(d, e, FALSE))
           /\ Counted(d, e) \in Nat
           /\ d.seen => Counted(d, e) <= d.budget
<1> DEFINE i == [d EXCEPT !.idleTime = NotIdle, !.idleCount = NotIdle]
           f(p) == BroadcastIf(i, p, [kind |-> "ActiveTimeElapsed", elapsed |-> e])
           n == IF d.seen THEN d.budget - Counted(d, e) ELSE d.budget
           g(p) == [f(p) EXCEPT !.budget = n]
<1>1. Counted(d, e) \in Nat /\ (d.seen => Counted(d, e) <= d.budget)
  BY DEF Counted, EarlierOf, Coherent, Agreed
<1>2. /\ Quiet(d, i) /\ i.sched = d.sched /\ DOMAIN i = DaemonFields
      /\ SoundScheduler(d.sched)
  BY DEF Coherent, Agreed, Quiet, SameAccount, DaemonFields
<1> HIDE DEF i
<1>3. \A p : SameAccount(d, f(p)) /\ f(p).sched = d.sched
  <2>1. \A p : SameAccount(d, f(p))
    BY <1>2, QuietOutputs
  <2>2. \A p : f(p).sched = d.sched
    BY <1>2, OutputsAlike DEF Alike
  <2>3. QED
    BY <2>1, <2>2
<1>4. Quiet(d, f(FALSE))
  BY <1>2, QuietOutputs
<1>5. \A p : ObserveActive(d, e, p) =
          IF Counted(d, e) = 0 THEN g(p) ELSE AdvanceScheduler(g(p), Counted(d, e))
  <2>1. \A p : g(p) = [f(p) EXCEPT !.budget = IF d.seen THEN @ - Counted(d, e) ELSE @]
    BY <1>3 DEF SameAccount
  <2>2. QED
    BY <2>1 DEF ObserveActive, i
<1> HIDE DEF f, n
<1>6. \A p : /\ DOMAIN g(p) = DaemonFields /\ g(p).seen = d.seen /\ g(p).budget = n
             /\ g(p).sched = d.sched /\ g(p).sent = f(p).sent
  BY <1>3 DEF SameAccount, DaemonFields
<1> HIDE DEF g
<1>7. ASSUME NEW p
      PROVE  LET h == ObserveActive(d, e, p)
             IN  /\ h.seen = d.seen /\ h.budget = n
                 /\ ActiveTimeOf(h.sched) <= ActiveTimeOf(d.sched) + Counted(d, e)
                 /\ AnnouncesAtMost(g(p), h)
  <2>1. CASE Counted(d, e) = 0
    <3>1. ActiveTimeOf(d.sched) \in Nat
      BY <1>2, ActiveTimeType DEF SoundScheduler
    <3>2. ObserveActive(d, e, p) = g(p)
      BY <1>5, <2>1
    <3>3. QED
      BY <1>1, <1>6, <3>1, <3>2 DEF AnnouncesAtMost
  <2>2. CASE Counted(d, e) # 0
    <3>1. ObserveActive(d, e, p) = AdvanceScheduler(g(p), Counted(d, e))
      BY <1>5, <2>2
    <3>2. QED
      BY <1>1, <1>2, <1>6, <3>1, AdvanceSchedulerEffects DEF SameAccount
  <2>3. QED
    BY <2>1, <2>2
<1>8. AnnouncesAtMost(d, ObserveActive(d, e, FALSE))
  <2>1. g(FALSE).sent = d.sent
    BY <1>4, <1>6 DEF Quiet
  <2>2. QED
    BY <1>7, <2>1 DEF AnnouncesAtMost
<1>9. QED
  BY <1>1, <1>7, <1>8 DEF n

-----------------------------------------------------------------------------
(* Peers' events *)

\* Merging, joining and replacing send nothing.
LEMMA SyncedBreaksQuiet ==
    ASSUME NEW d, DOMAIN d = DaemonFields, NEW p
    PROVE  /\ Quiet(d, MergeAndShow(d, p))
           /\ \A start : Quiet(d, JoinBreak(d, start, p))
           /\ \A c, start : Quiet(d, ReplaceBreak(d, c, start, p))
<1>1. Quiet(d, d)
  BY OutputsQuiet
<1>2. Quiet(d, MergeAndShow(d, p))
  <2> DEFINE f == [d EXCEPT !.sched = MergePosition(@, p)]
  <2>1. Quiet(d, f)
    BY <1>1, QuietOutputs
  <2>2. MergeAndShow(d, p) \in {f, UpdateStatus(f)}
    BY DEF MergeAndShow
  <2> HIDE DEF f
  <2>3. Quiet(d, UpdateStatus(f))
    BY <2>1, QuietOutputs
  <2>4. QED
    BY <2>1, <2>2, <2>3
<1>3. ASSUME NEW start PROVE Quiet(d, JoinBreak(d, start, p))
  <2> DEFINE joined == AfterSyncedBreak(d.sched, start.name, start.origin)
             f == [d EXCEPT !.sched = MergePosition(joined, p)]
             g == UpdateStatus(f)
             lock == IF start.lock = {} THEN Autolock[start.name] ELSE TRUE \in start.lock
             b == Break(start.name, start.origin)
             h == StartBreakAt(g, b, lock, start.at, FALSE)
  <2>1. JoinBreak(d, start, p) \in {d, h}
    BY DEF JoinBreak
  <2> HIDE DEF b, lock
  <2>2. Quiet(d, f)
    BY <1>1, QuietOutputs
  <2> HIDE DEF f
  <2>3. Quiet(d, g)
    BY <2>2, QuietOutputs
  <2> HIDE DEF g
  <2>4. DOMAIN g = DaemonFields
    BY <2>3 DEF Quiet, SameAccount
  <2>5. Quiet(g, h)
    BY <2>4, StartBreakAtEffects
  <2> HIDE DEF h
  <2>6. Quiet(d, h)
    BY <2>3, <2>5, EffectsChain
  <2>7. QED
    BY <1>1, <2>1, <2>6
<1>4. ASSUME NEW c, NEW start PROVE Quiet(d, ReplaceBreak(d, c, start, p))
  <2> DEFINE S == MergePosition(AfterReplacement(d.sched, start.name, start.origin), p)
             lock == IF start.lock = {} THEN Autolock[start.name] \/ c.lock
                     ELSE TRUE \in start.lock
             f == [d EXCEPT !.sched = S]
             x == {CurrentBreak(Break(start.name, start.origin), lock, start.at)}
             g == [f EXCEPT !.current = {}]
             h == [f EXCEPT !.current = x]
  <2>1. \/ ReplaceBreak(d, c, start, p) = d
        \/ \E m : ReplaceBreak(d, c, start, p) = Command(FinishScheduler(g), m)
        \/ \E m : ReplaceBreak(d, c, start, p) = Command(h, m)
    BY DEF ReplaceBreak
  <2> HIDE DEF S, x
  <2>2. Quiet(d, f)
    BY <1>1, QuietOutputs
  <2> HIDE DEF f
  <2>3. Quiet(d, g) /\ Quiet(d, h)
    BY <2>2, QuietOutputs
  <2> HIDE DEF g, h
  <2>4. Quiet(d, FinishScheduler(g))
    BY <2>3, QuietOutputs
  <2>5. \A m : Quiet(d, Command(FinishScheduler(g), m))
    BY <2>4, QuietOutputs
  <2>6. \A m : Quiet(d, Command(h, m))
    BY <2>3, QuietOutputs
  <2>7. QED
    BY <1>1, <2>1, <2>5, <2>6
<1>5. QED
  BY <1>2, <1>3, <1>4

\* apply_synced_break_start and apply_synced_scheduler_state
LEMMA SyncedStateQuiet ==
    ASSUME NEW d, DOMAIN d = DaemonFields, NEW peer, NEW p
    PROVE  /\ \A start : Quiet(d, SyncedBreakStart(d, peer, start, p))
           /\ \A active : Quiet(d, SyncedSchedulerState(d, peer, p, active))
<1>1. Quiet(d, d)
  BY OutputsQuiet
<1>2. ASSUME NEW start PROVE Quiet(d, SyncedBreakStart(d, peer, start, p))
  <2> DEFINE c == CHOOSE c \in d.current : TRUE
  <2>1. SyncedBreakStart(d, peer, start, p) \in
            {d, JoinBreak(d, start, p), ReplaceBreak(d, c, start, p), MergeAndShow(d, p)}
    BY DEF SyncedBreakStart
  <2> HIDE DEF c
  <2>2. QED
    BY <1>1, <2>1, SyncedBreaksQuiet
<1>3. ASSUME NEW active PROVE Quiet(d, SyncedSchedulerState(d, peer, p, active))
  <2> DEFINE a == CHOOSE a \in active : TRUE
             f == IF active = {} THEN d ELSE SyncedBreakStart(d, peer, a, p)
  <2>1. SyncedSchedulerState(d, peer, p, active) \in {MergeAndShow(f, p), f}
    BY DEF SyncedSchedulerState
  <2> HIDE DEF a
  <2>2. Quiet(d, f)
    BY <1>1, <1>2
  <2> HIDE DEF f
  <2>3. Quiet(f, MergeAndShow(f, p))
    BY <2>2, SyncedBreaksQuiet DEF Quiet, SameAccount
  <2>4. QED
    BY <2>1, <2>2, <2>3, EffectsChain
<1>4. QED
  BY <1>2, <1>3

\* handle_sync_event: only active time may make the daemon send anything, and only
\* active time goes into the account.
LEMMA SyncEventEffects ==
    ASSUME NEW d, DOMAIN d = DaemonFields, NEW peer, NEW e \in PeerEvents,
           e.kind # "ActiveTimeElapsed"
    PROVE  Quiet(d, SyncEvent(d, peer, e))
<1>1. CASE e.kind = "BreakStarted"
  BY <1>1, SyncedStateQuiet DEF SyncEvent
<1>2. CASE e.kind = "SchedulerState"
  BY <1>2, SyncedStateQuiet DEF SyncEvent
<1>3. CASE e.kind = "SchedulerReset"
  BY <1>3, SchedulerResetEffects DEF SyncEvent
<1>4. CASE e.kind = "DisableFor"
  BY <1>4, DisableEffects DEF SyncEvent
<1>5. CASE e.kind = "DisableUntilRestart"
  BY <1>5, DisableEffects DEF SyncEvent
<1>6. CASE e.kind = "Enable"
  BY <1>6, EnableEffects DEF SyncEvent
<1>7. CASE e.kind = "LockAfterCurrentBreak"
  BY <1>7, RequestLockEffects DEF SyncEvent
<1>8. QED
  BY <1>1, <1>2, <1>3, <1>4, <1>5, <1>6, <1>7, PeerEventsAssumption DEF SoundPeerEvent

-----------------------------------------------------------------------------
(* Events do not circulate *)

\* A daemon's outputs are taken away before its next event.
LEMMA StepTakesOutput ==
    ASSUME Coherent(daemon), daemon.sent = <<>>, [Next]_vars
    PROVE  daemon'.sent = <<>>
<1>1. CASE \E d : Coherent(d) /\ Handle(d)
  BY <1>1 DEF Handle, Coherent, Agreed, DaemonFields
<1>2. CASE BackendEnds
  BY <1>2 DEF BackendEnds, Coherent, Agreed, DaemonFields
<1>3. CASE Tick
  BY <1>3 DEF Tick, Coherent, Agreed, DaemonFields
<1>4. CASE UNCHANGED vars
  BY <1>4 DEF vars
<1>5. QED
  BY <1>1, <1>2, <1>3, <1>4, StepIsHandled

\* Applying a peer's event sends nothing out but the announcement of a scheduled
\* break that its active time starts: what one daemon is told does not come back
\* to it, or go round, through the others.
THEOREM EventsDoNotCirculate == Spec => []NothingIsPassedOn
<1> DEFINE Inv == Coherent(daemon) /\ daemon.sent = <<>>
<1>1. Init => Inv
  <2>1. NewDaemon(Self).sent = <<>> /\ DOMAIN NewDaemon(Self) = DaemonFields
    BY DEF NewDaemon, DaemonFields
  <2>2. UpdateStatus(NewDaemon(Self)).sent = <<>>
    BY <2>1, OutputsQuiet DEF Quiet
  <2>3. QED
    BY <2>2, InitCoherent DEF Init
<1>2. Inv /\ [Next]_vars => Inv'
  BY StepCoherent, StepTakesOutput
<1>3. Inv => NothingIsPassedOn
  <2> SUFFICES ASSUME Inv, NEW p \in Peers, NEW e \in PeerEvents,
                      NEW i \in DOMAIN SyncEvent(daemon, p, e).sent
               PROVE  /\ e.kind = "ActiveTimeElapsed"
                      /\ AnnouncesScheduled(SyncEvent(daemon, p, e).sent[i])
    BY DEF NothingIsPassedOn, AnnouncesScheduled
  <2> DEFINE f == SyncEvent(daemon, p, e)
  <2>1. DOMAIN daemon = DaemonFields
    BY DEF Coherent, Agreed
  <2>2. f.sent # <<>>
    OBVIOUS
  <2>3. e.kind = "ActiveTimeElapsed"
    BY <2>1, <2>2, SyncEventEffects DEF Quiet
  <2>4. AnnouncesAtMost(daemon, f)
    <3>1. e.elapsed \in Nat
      BY <2>3, PeerEventsAssumption DEF SoundPeerEvent
    <3>2. f = ObserveActive(daemon, e.elapsed, FALSE)
      BY <2>3 DEF SyncEvent
    <3> HIDE DEF f
    <3>3. QED
      BY <3>1, <3>2, ObserveActiveEffects
  <2>5. PICK m : AnnouncesScheduled(m) /\ f.sent = Append(<<>>, m)
    BY <2>2, <2>4 DEF AnnouncesAtMost
  <2>6. f.sent[i] = m
    <3> HIDE DEF f
    <3>1. f.sent = <<m>>
      BY <2>5
    <3>2. i \in DOMAIN f.sent
      BY DEF f
    <3>3. QED
      BY <3>1, <3>2
  <2>7. QED
    BY <2>3, <2>5, <2>6
<1>4. QED
  BY <1>1, <1>2, <1>3, PTL DEF Spec

-----------------------------------------------------------------------------
(* The wall clock bounds active time *)

\* The inductive invariant: what was counted since the last sample of the wall
\* clock and what may still be counted make no more than the sample.
WithinSample ==
    counted \in Nat /\ ActivityWithinWallClock

\* The events that have nothing to do with active time leave the account alone.
LEMMA LocalEventAccount ==
    ASSUME NEW d, DOMAIN d = DaemonFields
    PROVE  /\ \A n : SameAccount(d, LocalEvent(d, [kind |-> "IdleTimeElapsed", elapsed |-> n]))
           /\ \A n : SameAccount(d, LocalEvent(d, [kind |-> "DisableFor", duration |-> n]))
           /\ \A n : SameAccount(d, LocalEvent(d, [kind |-> "StartManualBreak", name |-> n]))
           /\ \A k \in {"BreakStartFailed", "BreakFinished", "LockAfterCurrentBreak",
                        "DisableUntilRestart", "Enable", "Shutdown"} :
                  SameAccount(d, LocalEvent(d, [kind |-> k]))
<1>1. \A n : SameAccount(d, LocalEvent(d, [kind |-> "IdleTimeElapsed", elapsed |-> n]))
  BY AdvanceIdleEffects DEF LocalEvent
<1>2. \A n : SameAccount(d, LocalEvent(d, [kind |-> "DisableFor", duration |-> n]))
  BY DisableEffects DEF LocalEvent
<1>3. \A n : SameAccount(d, LocalEvent(d, [kind |-> "StartManualBreak", name |-> n]))
  BY StartManualEffects DEF LocalEvent
<1>4. /\ SameAccount(d, LocalEvent(d, [kind |-> "BreakStartFailed"]))
      /\ SameAccount(d, LocalEvent(d, [kind |-> "BreakFinished"]))
  BY BreakEndsQuiet DEF LocalEvent, Quiet
<1>5. SameAccount(d, LocalEvent(d, [kind |-> "LockAfterCurrentBreak"]))
  BY RequestLockEffects DEF LocalEvent
<1>6. SameAccount(d, LocalEvent(d, [kind |-> "DisableUntilRestart"]))
  BY DisableEffects DEF LocalEvent
<1>7. SameAccount(d, LocalEvent(d, [kind |-> "Enable"]))
  BY EnableEffects DEF LocalEvent
<1>8. SameAccount(d, LocalEvent(d, [kind |-> "Shutdown"]))
  BY DEF LocalEvent, SameAccount, ClearNotice, DaemonFields
<1>9. QED
  BY <1>1, <1>2, <1>3, <1>4, <1>5, <1>6, <1>7, <1>8

\* What a handler's result becomes of.
LEMMA HandledFields ==
    ASSUME NEW d, DOMAIN d = DaemonFields, Handle(d)
    PROVE  /\ daemon'.seen = d.seen /\ daemon'.budget = d.budget
           /\ daemon'.sched = d.sched /\ daemon'.current = d.current
BY DEF Handle, DaemonFields

\* Active time, this computer's or a peer's, moves from the budget to the count.
LEMMA ActiveTimeWithinSample ==
    ASSUME Coherent(daemon), WithinSample, NEW e \in Nat, NEW propagate,
           Handle(ObserveActive(daemon, e, propagate)), CountActive
    PROVE  WithinSample'
<1> DEFINE f == ObserveActive(daemon, e, propagate)
           c == Counted(daemon, e)
           T == ActiveTimeOf(daemon.sched)
           U == ActiveTimeOf(daemon'.sched)
<1>1. Coherent(f)
  BY ObserveActiveCoherent
<1>2. /\ f.seen = daemon.seen
      /\ f.budget = IF daemon.seen THEN daemon.budget - c ELSE daemon.budget
      /\ ActiveTimeOf(f.sched) <= T + c
      /\ c \in Nat
  BY ObserveActiveEffects
<1>3. daemon'.seen = f.seen /\ daemon'.budget = f.budget /\ daemon'.sched = f.sched
  BY <1>1, HandledFields DEF Coherent, Agreed
<1>4. T \in Nat /\ U \in Nat
  BY <1>1, <1>3, ActiveTimeType DEF Coherent, Agreed, SoundScheduler
<1>5. counted' = IF daemon.seen THEN counted + LaterOf(U - T, 0) ELSE 0
  BY DEF CountActive
<1>6. U <= T + c /\ daemon.budget \in Nat /\ counted \in Nat
  BY <1>2, <1>3 DEF Coherent, Agreed, WithinSample
<1> HIDE DEF f, c, T, U
<1>7. LaterOf(U - T, 0) \in Nat /\ LaterOf(U - T, 0) <= c
  BY <1>2, <1>4, <1>6 DEF LaterOf
<1>8. counted' \in Nat
  BY <1>5, <1>6, <1>7
<1>9. ASSUME daemon'.seen PROVE \E w \in WallTimes : counted' + daemon'.budget <= w
  <2>1. daemon.seen /\ daemon'.budget = daemon.budget - c
    BY <1>2, <1>3, <1>9
  <2>2. PICK w \in WallTimes : counted + daemon.budget <= w
    BY <2>1 DEF WithinSample, ActivityWithinWallClock
  <2>3. w \in Nat
    BY EventsAssumption
  <2>4. counted' = counted + LaterOf(U - T, 0)
    BY <1>5, <2>1
  <2>5. counted' + daemon'.budget <= w
    BY <1>2, <1>6, <1>7, <2>1, <2>2, <2>3, <2>4
  <2>6. QED
    BY <2>5
<1>10. QED
  BY <1>8, <1>9 DEF WithinSample, ActivityWithinWallClock

\* A step that leaves the account and the count alone.
LEMMA SameAccountWithinSample ==
    ASSUME WithinSample, NEW d, SameAccount(daemon, d), Handle(d), UNCHANGED counted
    PROVE  WithinSample'
<1>1. daemon'.seen = daemon.seen /\ daemon'.budget = daemon.budget
  BY HandledFields DEF SameAccount
<1>2. QED
  BY <1>1 DEF WithinSample, ActivityWithinWallClock

LEMMA StepWithinSample ==
    ASSUME Coherent(daemon), WithinSample, [Next]_vars
    PROVE  WithinSample'
<1> USE EventsAssumption
<1>1. DOMAIN daemon = DaemonFields
  BY DEF Coherent, Agreed
<1>2. CASE FromBackend
  <2>1. ASSUME NEW e \in ActiveTimes, ActiveTime(e) PROVE WithinSample'
    <3>1. Handle(ObserveActive(daemon, e, TRUE)) /\ CountActive /\ e \in Nat
      BY <2>1 DEF ActiveTime, OnLocal, LocalEvent
    <3>2. QED
      BY <3>1, ActiveTimeWithinSample
  <2>2. ASSUME NEW e \in IdleTimes, IdleTime(e) PROVE WithinSample'
    BY <1>1, <2>2, LocalEventAccount, SameAccountWithinSample DEF IdleTime, OnLocal
  <2>3. ASSUME NEW e \in WallTimes, WallClockSample(e) PROVE WithinSample'
    <3> DEFINE f == WallClock(daemon, e)
    <3>1. Handle(f) /\ counted' = 0 /\ e \in Nat
      BY <2>3 DEF WallClockSample, OnLocal, LocalEvent
    <3>2. f.seen = TRUE /\ f.budget = e /\ Coherent(f)
      BY <1>1, <3>1, WallClockEffects, WallClockCoherent
    <3> HIDE DEF f
    <3>3. daemon'.budget = e
      BY <3>1, <3>2, HandledFields DEF Coherent, Agreed
    <3>4. counted' + daemon'.budget <= e
      BY <3>1, <3>3
    <3>5. QED
      BY <3>1, <3>4 DEF WithinSample, ActivityWithinWallClock
  <2>4. CASE StartFailed
    BY <1>1, <2>4, LocalEventAccount, SameAccountWithinSample DEF StartFailed, OnLocal
  <2>5. CASE Finished
    BY <1>1, <2>5, LocalEventAccount, SameAccountWithinSample DEF Finished, OnLocal
  <2>6. CASE LockRequested
    BY <1>1, <2>6, LocalEventAccount, SameAccountWithinSample DEF LockRequested, OnLocal
  <2>7. CASE Shutdown
    BY <1>1, <2>7, LocalEventAccount, SameAccountWithinSample DEF Shutdown, OnLocal
  <2>8. CASE BackendEnds
    BY <1>1, <2>8 DEF BackendEnds, WithinSample, ActivityWithinWallClock, DaemonFields
  <2>9. QED
    BY <1>2, <2>1, <2>2, <2>3, <2>4, <2>5, <2>6, <2>7, <2>8 DEF FromBackend
<1>3. CASE FromTray
  <2>1. ASSUME NEW name \in Names, StartByHand(name) PROVE WithinSample'
    BY <1>1, <2>1, LocalEventAccount, SameAccountWithinSample DEF StartByHand, OnLocal
  <2>2. ASSUME NEW t \in DisableTimes, DisableForATime(t) PROVE WithinSample'
    BY <1>1, <2>2, LocalEventAccount, SameAccountWithinSample DEF DisableForATime, OnLocal
  <2>3. CASE DisableForGood
    BY <1>1, <2>3, LocalEventAccount, SameAccountWithinSample DEF DisableForGood, OnLocal
  <2>4. CASE EnableByHand
    BY <1>1, <2>4, LocalEventAccount, SameAccountWithinSample DEF EnableByHand, OnLocal
  <2>5. QED
    BY <1>3, <2>1, <2>2, <2>3, <2>4 DEF FromTray
<1>4. CASE FromTransport
  <2>1. ASSUME NEW p \in Peers, NEW e \in PeerEvents, FromPeer(p, e) PROVE WithinSample'
    <3>1. CASE e.kind = "ActiveTimeElapsed"
      <4>1. Handle(ObserveActive(daemon, e.elapsed, FALSE)) /\ CountActive
        BY <2>1, <3>1 DEF FromPeer, SyncEvent
      <4>2. e.elapsed \in Nat
        BY <3>1, PeerEventsAssumption DEF SoundPeerEvent
      <4>3. QED
        BY <4>1, <4>2, ActiveTimeWithinSample
    <3>2. CASE e.kind # "ActiveTimeElapsed"
      <4>1. SameAccount(daemon, SyncEvent(daemon, p, e))
        BY <1>1, <3>2, SyncEventEffects DEF Quiet
      <4>2. Handle(SyncEvent(daemon, p, e)) /\ UNCHANGED counted
        BY <2>1, <3>2 DEF FromPeer
      <4>3. QED
        BY <4>1, <4>2, SameAccountWithinSample
    <3>3. QED
      BY <3>1, <3>2
  <2>2. ASSUME NEW p \in Peers, PeerAuthenticated(p) PROVE WithinSample'
    <3>1. SameAccount(daemon, SendSchedulerState(daemon, p))
      BY <1>1 DEF SameAccount, SendSchedulerState, Send, DaemonFields
    <3>2. QED
      BY <2>2, <3>1, SameAccountWithinSample DEF PeerAuthenticated
  <2>3. ASSUME NEW p \in Strangers, RejectPeer(p) PROVE WithinSample'
    <3>1. SameAccount(daemon, PeerRejected(daemon, p))
      BY <1>1 DEF SameAccount, PeerRejected, DaemonFields
    <3>2. QED
      BY <2>3, <3>1, SameAccountWithinSample DEF RejectPeer
  <2>4. QED
    BY <1>4, <2>1, <2>2, <2>3 DEF FromTransport
<1>5. CASE Tick
  BY <1>1, <1>5 DEF Tick, WithinSample, ActivityWithinWallClock, DaemonFields
<1>6. CASE UNCHANGED vars
  BY <1>6 DEF vars, WithinSample, ActivityWithinWallClock
<1>7. QED
  BY <1>2, <1>3, <1>4, <1>5, <1>6 DEF Next

\* Between two samples of the wall clock the scheduler takes no more active time
\* than the sample, whatever this computer and any number of peers report, and in
\* whatever order their reports arrive.
THEOREM WallClockBoundsActivity == Spec => []ActivityWithinWallClock
<1> DEFINE Inv == Coherent(daemon) /\ WithinSample
<1>1. Init => Inv
  <2>1. NewDaemon(Self).seen = FALSE /\ DOMAIN NewDaemon(Self) = DaemonFields
    BY DEF NewDaemon, DaemonFields
  <2>2. UpdateStatus(NewDaemon(Self)).seen = FALSE
    BY <2>1, OutputsQuiet DEF Quiet, SameAccount
  <2>3. QED
    BY <2>2, InitCoherent DEF Init, WithinSample, ActivityWithinWallClock
<1>2. Inv /\ [Next]_vars => Inv'
  BY StepCoherent, StepWithinSample
<1>3. Inv => ActivityWithinWallClock
  BY DEF WithinSample
<1>4. QED
  BY <1>1, <1>2, <1>3, PTL DEF Spec

-----------------------------------------------------------------------------
(* A lock asked for *)

\* f has d's current break.
SameCurrent(d, f) == DOMAIN f = DaemonFields /\ f.current = d.current

\* What a peer says of a break does not take its lock back.
KeepsLock(start) == start.lock = {} \/ TRUE \in start.lock

\* Every current break of d locks the session when it ends.
Locks(d) == \A b \in d.current : b.lock

\* Steps that leave the current break alone, from a daemon f that d has become.
LEMMA CurrentOutputs ==
    ASSUME NEW d, NEW f, SameCurrent(d, f)
    PROVE  /\ \A c : SameCurrent(d, Command(f, c))
           /\ \A b, e : SameCurrent(d, BroadcastIf(f, b, e))
           /\ SameCurrent(d, ClearNotice(f))
           /\ SameCurrent(d, NotifyUpcoming(f))
           /\ SameCurrent(d, UpdateStatus(f))
           /\ \A x : SameCurrent(d, [f EXCEPT !.sched = x])
<1>1. DOMAIN f = DaemonFields /\ f.current = d.current
  BY DEF SameCurrent
<1>2. \A g : Alike(f, g) => SameCurrent(d, g)
  BY <1>1 DEF Alike, SameCurrent
<1>3. /\ \A c : SameCurrent(d, Command(f, c))
      /\ \A b, e : SameCurrent(d, BroadcastIf(f, b, e))
      /\ SameCurrent(d, ClearNotice(f))
      /\ SameCurrent(d, NotifyUpcoming(f))
  BY <1>1, <1>2, OutputsAlike
<1>4. SameCurrent(d, UpdateStatus(f))
  BY <1>1, UpdateStatusShows DEF SameCurrent
<1>5. \A x : SameCurrent(d, [f EXCEPT !.sched = x])
  BY <1>1 DEF SameCurrent, DaemonFields
<1>6. QED
  BY <1>3, <1>4, <1>5

\* Active time does not touch a break: there is none to start during one.
LEMMA ObserveActiveDuringBreak ==
    ASSUME NEW d, Coherent(d), d.current # {}, NEW e \in Nat
    PROVE  SameCurrent(d, ObserveActive(d, e, FALSE))
<1> DEFINE i == [d EXCEPT !.idleTime = NotIdle, !.idleCount = NotIdle]
           f == BroadcastIf(i, FALSE, [kind |-> "ActiveTimeElapsed", elapsed |-> e])
           g == [f EXCEPT !.budget = IF d.seen THEN @ - Counted(d, e) ELSE @]
           c == Counted(d, e)
           k == [g EXCEPT !.sched = AdvanceActive(@, c)]
<1>1. d.sched.phase = "Pending"
  BY DEF Coherent, Agreed
<1>2. ObserveActive(d, e, FALSE) = IF c = 0 THEN g ELSE AdvanceScheduler(g, c)
  BY DEF ObserveActive
<1>3. SameCurrent(d, g) /\ g.sched = d.sched
  <2>1. f = i
    BY DEF BroadcastIf
  <2>2. DOMAIN d = DaemonFields
    BY DEF Coherent, Agreed
  <2>3. SameCurrent(d, i) /\ i.sched = d.sched
    BY <2>2 DEF SameCurrent, DaemonFields
  <2> HIDE DEF i, f
  <2>4. QED
    BY <2>1, <2>3 DEF SameCurrent, DaemonFields
<1> HIDE DEF g, c
<1>4. AdvanceScheduler(g, c) = NotifyUpcoming(UpdateStatus(k))
  BY <1>1, <1>3 DEF AdvanceScheduler, AdvanceActiveBreak, IsActive
<1>5. SameCurrent(d, k)
  BY <1>3, CurrentOutputs
<1> HIDE DEF k
<1>6. SameCurrent(d, UpdateStatus(k))
  BY <1>5, CurrentOutputs
<1>7. SameCurrent(d, NotifyUpcoming(UpdateStatus(k)))
  BY <1>6, CurrentOutputs
<1>8. QED
  BY <1>2, <1>3, <1>4, <1>7

\* merge_synced_position does not touch the break.
LEMMA MergeKeepsCurrent ==
    ASSUME NEW d, DOMAIN d = DaemonFields, NEW p
    PROVE  SameCurrent(d, MergeAndShow(d, p))
<1> DEFINE f == [d EXCEPT !.sched = MergePosition(@, p)]
<1>1. SameCurrent(d, f)
  BY DEF SameCurrent, DaemonFields
<1>2. MergeAndShow(d, p) \in {f, UpdateStatus(f)}
  BY DEF MergeAndShow
<1> HIDE DEF f
<1>3. QED
  BY <1>1, <1>2, CurrentOutputs

\* A replacement of a break that locks locks as well, unless the peer says not.
LEMMA ReplacementLocks ==
    ASSUME NEW d, DOMAIN d = DaemonFields, Locks(d), NEW c \in d.current,
           NEW start, KeepsLock(start), NEW p
    PROVE  Locks(ReplaceBreak(d, c, start, p))
<1> DEFINE S == MergePosition(AfterReplacement(d.sched, start.name, start.origin), p)
           lock == IF start.lock = {} THEN Autolock[start.name] \/ c.lock
                   ELSE TRUE \in start.lock
           f == [d EXCEPT !.sched = S]
           b == CurrentBreak(Break(start.name, start.origin), lock, start.at)
           g == [f EXCEPT !.current = {}]
           h == [f EXCEPT !.current = {b}]
<1>1. \/ ReplaceBreak(d, c, start, p) = d
      \/ \E m : ReplaceBreak(d, c, start, p) = Command(FinishScheduler(g), m)
      \/ \E m : ReplaceBreak(d, c, start, p) = Command(h, m)
  BY DEF ReplaceBreak
<1>2. lock
  BY DEF Locks, KeepsLock
<1>3. b.lock
  BY <1>2 DEF CurrentBreak
<1> HIDE DEF S, lock, b
<1>4. DOMAIN f = DaemonFields
  BY DEF DaemonFields
<1> HIDE DEF f
<1>5. /\ DOMAIN g = DaemonFields /\ g.current = {}
      /\ DOMAIN h = DaemonFields /\ h.current = {b}
  BY <1>4 DEF DaemonFields
<1> HIDE DEF g, h
<1>6. DOMAIN FinishScheduler(g) = DaemonFields /\ FinishScheduler(g).current = {}
  <2> DEFINE i == [g EXCEPT !.sched = FinishBreak(@)]
  <2>1. SameCurrent(g, i)
    BY <1>5 DEF SameCurrent, DaemonFields
  <2>2. FinishScheduler(g) \in {i, UpdateStatus(i)}
    BY DEF FinishScheduler
  <2> HIDE DEF i
  <2>3. SameCurrent(g, UpdateStatus(i))
    BY <2>1, CurrentOutputs
  <2>4. QED
    BY <1>5, <2>1, <2>2, <2>3 DEF SameCurrent
<1>7. \A m : Command(FinishScheduler(g), m).current = {}
  BY <1>6, OutputsAlike DEF Alike
<1>8. \A m : Command(h, m).current = {b}
  <2>1. \A m : Alike(h, Command(h, m))
    BY <1>5, OutputsAlike
  <2>2. QED
    BY <1>5, <2>1 DEF Alike
<1>9. QED
  BY <1>1, <1>3, <1>7, <1>8 DEF Locks

\* apply_synced_break_start keeps a lock asked for.
LEMMA SyncedStartLocks ==
    ASSUME NEW d, DOMAIN d = DaemonFields, Locks(d), d.current # {},
           NEW start, KeepsLock(start), NEW p, NEW peer
    PROVE  Locks(SyncedBreakStart(d, peer, start, p))
<1> DEFINE c == CHOOSE c \in d.current : TRUE
<1>1. SyncedBreakStart(d, peer, start, p) \in
          {d, ReplaceBreak(d, c, start, p), MergeAndShow(d, p)}
  BY DEF SyncedBreakStart
<1>2. c \in d.current
  OBVIOUS
<1> HIDE DEF c
<1>3. \A x \in d.current : Locks(ReplaceBreak(d, x, start, p))
  BY ReplacementLocks
<1>4. Locks(MergeAndShow(d, p))
  BY MergeKeepsCurrent DEF SameCurrent, Locks
<1>5. QED
  BY <1>1, <1>2, <1>3, <1>4

\* Disabling takes the break away; a reset, an enable and a lock request leave it.
LEMMA OtherEventsLock ==
    ASSUME NEW d, DOMAIN d = DaemonFields, Locks(d)
    PROVE  /\ Locks(SchedulerReset(d, FALSE))
           /\ Locks(EnableBreaks(d, FALSE))
           /\ Locks(RequestLock(d, FALSE))
           /\ Locks(DisableUntilRestart(d, FALSE))
           /\ \A t : Locks(DisableFor(d, t, FALSE))
<1>1. Locks(SchedulerReset(d, FALSE))
  <2> DEFINE f == [d EXCEPT !.idleTime.triggered = TRUE, !.idleCount.triggered = TRUE,
                            !.sched = ResetPosition(@)]
  <2>1. SchedulerReset(d, FALSE) = UpdateStatus(ClearNotice(f))
    BY DEF SchedulerReset, BroadcastIf
  <2>2. SameCurrent(d, f)
    BY DEF SameCurrent, DaemonFields
  <2> HIDE DEF f
  <2>3. SameCurrent(d, ClearNotice(f))
    BY <2>2, CurrentOutputs
  <2>4. SameCurrent(d, UpdateStatus(ClearNotice(f)))
    BY <2>3, CurrentOutputs
  <2>5. QED
    BY <2>1, <2>4 DEF SameCurrent, Locks
<1>2. Locks(EnableBreaks(d, FALSE))
  <2> DEFINE f == [d EXCEPT !.sched = Enable(@), !.disable = Enabled]
  <2>1. EnableBreaks(d, FALSE) = UpdateStatus(f)
    BY DEF EnableBreaks, BroadcastIf
  <2>2. SameCurrent(d, f)
    BY DEF SameCurrent, DaemonFields
  <2> HIDE DEF f
  <2>3. SameCurrent(d, UpdateStatus(f))
    BY <2>2, CurrentOutputs
  <2>4. QED
    BY <2>1, <2>3 DEF SameCurrent, Locks
<1>3. Locks(RequestLock(d, FALSE))
  BY DEF RequestLock, Locks
<1>4. ASSUME NEW m PROVE Locks(DisableBreaks([d EXCEPT !.disable = m]))
  <2> DEFINE g == [d EXCEPT !.disable = m]
             f == [g EXCEPT !.current = {}, !.sched = Disable(@)]
             h == UpdateStatus(ClearNotice(f))
  <2>1. DisableBreaks(g) \in {h, Command(h, [kind |-> "ClearBreak"])}
    BY DEF DisableBreaks
  <2>2. DOMAIN f = DaemonFields /\ f.current = {}
    BY DEF DaemonFields
  <2> HIDE DEF f, g
  <2>3. SameCurrent(f, f)
    BY <2>2 DEF SameCurrent
  <2>4. SameCurrent(f, ClearNotice(f))
    BY <2>3, CurrentOutputs
  <2>5. SameCurrent(f, h)
    BY <2>4, CurrentOutputs
  <2> HIDE DEF h
  <2>6. SameCurrent(f, Command(h, [kind |-> "ClearBreak"]))
    BY <2>5, CurrentOutputs
  <2>7. DisableBreaks(g).current = {}
    BY <2>1, <2>2, <2>5, <2>6 DEF SameCurrent
  <2>8. QED
    BY <2>7 DEF Locks, g
<1>5. \A m, e : Locks(BroadcastIf(DisableBreaks([d EXCEPT !.disable = m]), FALSE, e))
  BY <1>4 DEF BroadcastIf
<1>6. QED
  BY <1>1, <1>2, <1>3, <1>5 DEF DisableFor, DisableUntilRestart

\* handle_sync_event keeps a lock asked for, unless the peer says there is none.
LEMMA SyncEventLocks ==
    ASSUME NEW d, Coherent(d), Locks(d), d.current # {},
           NEW peer, NEW e \in PeerEvents, ~SaysNoLock(e)
    PROVE  Locks(SyncEvent(d, peer, e))
<1>1. DOMAIN d = DaemonFields
  BY DEF Coherent, Agreed
<1>2. CASE e.kind = "ActiveTimeElapsed"
  <2>1. SameCurrent(d, ObserveActive(d, e.elapsed, FALSE))
    BY <1>2, ObserveActiveDuringBreak, PeerEventsAssumption DEF SoundPeerEvent
  <2>2. QED
    BY <1>2, <2>1 DEF SyncEvent, SameCurrent, Locks
<1>3. CASE e.kind = "BreakStarted"
  <2>1. KeepsLock(e.start)
    BY <1>3, PeerEventsAssumption DEF KeepsLock, SoundPeerEvent
  <2>2. Locks(SyncedBreakStart(d, peer, e.start, e.position))
    BY <1>1, <2>1, SyncedStartLocks
  <2>3. QED
    BY <1>3, <2>2 DEF SyncEvent
<1>4. CASE e.kind = "SchedulerState"
  <2> DEFINE a == CHOOSE a \in e.active : TRUE
             f == IF e.active = {} THEN d ELSE SyncedBreakStart(d, peer, a, e.position)
  <2>1. SyncEvent(d, peer, e) \in {MergeAndShow(f, e.position), f}
    BY <1>4 DEF SyncEvent, SyncedSchedulerState
  <2>2. e.active # {} => KeepsLock(a)
    <3>1. ASSUME NEW x \in e.active PROVE KeepsLock(x)
      <4>1. FALSE \notin x.lock
        BY <1>4 DEF SaysNoLock
      <4>2. x.lock = {TRUE} \/ x.lock = {FALSE}
        BY <1>4, PeerEventsAssumption DEF SoundPeerEvent
      <4>3. QED
        BY <4>1, <4>2 DEF KeepsLock
    <3>2. QED
      BY <3>1
  <2> HIDE DEF a
  <2>3. Locks(f) /\ DOMAIN f = DaemonFields
    <3>1. Locks(f)
      BY <1>1, <2>2, SyncedStartLocks
    <3>2. e.active # {} => Quiet(d, SyncedBreakStart(d, peer, a, e.position))
      BY <1>1, SyncedStateQuiet
    <3>3. QED
      BY <1>1, <3>1, <3>2 DEF Quiet, SameAccount
  <2> HIDE DEF f
  <2>4. Locks(MergeAndShow(f, e.position))
    BY <2>3, MergeKeepsCurrent DEF SameCurrent, Locks
  <2>5. QED
    BY <2>1, <2>3, <2>4
<1>5. CASE e.kind = "SchedulerReset"
  BY <1>1, <1>5, OtherEventsLock DEF SyncEvent
<1>6. CASE e.kind = "DisableFor"
  BY <1>1, <1>6, OtherEventsLock DEF SyncEvent
<1>7. CASE e.kind = "DisableUntilRestart"
  BY <1>1, <1>7, OtherEventsLock DEF SyncEvent
<1>8. CASE e.kind = "Enable"
  BY <1>1, <1>8, OtherEventsLock DEF SyncEvent
<1>9. CASE e.kind = "LockAfterCurrentBreak"
  BY <1>1, <1>9, OtherEventsLock DEF SyncEvent
<1>10. QED
  BY <1>2, <1>3, <1>4, <1>5, <1>6, <1>7, <1>8, <1>9, PeerEventsAssumption DEF SoundPeerEvent

\* A lock asked for outlives every peer's event that a break of this daemon does,
\* a replacement of the break by the peer's included; only a peer that states of
\* the break it knows that it ends without a lock takes it back.
THEOREM LocksSurvivePeers == Spec => []LockSurvives
<1>1. Init => Coherent(daemon)
  BY InitCoherent
<1>2. Coherent(daemon) /\ [Next]_vars => Coherent(daemon)'
  BY StepCoherent
<1>3. Coherent(daemon) => LockSurvives
  <2> SUFFICES ASSUME Coherent(daemon), NEW c \in daemon.current, c.lock,
                      NEW p \in Peers, NEW e \in PeerEvents, ~SaysNoLock(e)
               PROVE  Locks(SyncEvent(daemon, p, e))
    BY DEF LockSurvives, Locks
  <2>1. Locks(daemon)
    BY DEF Coherent, Agreed, Locks
  <2>2. daemon.current # {}
    OBVIOUS
  <2>3. QED
    BY <2>1, <2>2, SyncEventLocks
<1>4. QED
  BY <1>1, <1>2, <1>3, PTL DEF Spec

-----------------------------------------------------------------------------
(* The notification, on a computer without peers *)

\* In cadence, slots that pass without a break leave the announced break as it is.
LEMMA QuietSlotsKeepUpcoming ==
    ASSUME NEW s, SoundScheduler(s), InCadence(s), NEW e \in Nat,
           AdvanceActiveBreak(s, e) = {}
    PROVE  Upcoming(AdvanceActive(s, e)) = Upcoming(s)
<1> DEFINE t == AdvanceActive(s, e)
<1>1. s \in Schedulers
  BY DEF SoundScheduler
<1>2. CASE ~IsActive(s)
  BY <1>2 DEF AdvanceActive
<1>3. CASE IsActive(s)
  <2>1. SlotsWithBreak(s, e) = {}
    BY <1>1, <1>3, AdvanceActiveToBreak
  <2>2. t.lss = s.lss /\ t.phase = s.phase /\ t.mode = s.mode
    BY <1>1, <1>3, <2>1, AdvanceActiveQuietly
  <2>3. InCadence(t) /\ t \in Schedulers
    BY <1>1, AdvanceActiveInCadence, AdvanceActiveSound DEF SoundScheduler
  <2> HIDE DEF t
  <2>4. \A r \in Rules : /\ s.slot - s.lss[r] < Interval[r] /\ t.slot - t.lss[r] < Interval[r]
                        /\ s.slot \in Nat /\ t.slot \in Nat /\ s.lss[r] \in Nat
                        /\ Interval[r] \in Nat
    BY <1>1, <2>3, RulesAssumption DEF InCadence, Schedulers
  <2>5. \A r \in Rules : NextDueSlot(t, r) = NextDueSlot(s, r)
    BY <2>2, <2>4 DEF NextDueSlot
  <2>6. UpcomingSlot(t) = UpcomingSlot(s)
    BY <2>5 DEF UpcomingSlot
  <2>7. QED
    BY <2>2, <2>6 DEF Upcoming, IsActive, t
<1>4. QED
  BY <1>2, <1>3

\* A notification on display announces the break that is next.
NoticeRight(d) == \A n \in d.notice : Upcoming(d.sched) = {Break(n.name, Scheduled(n.slot))}

\* The inductive invariant, of a schedule that no peer moves.
OnSchedule(d) == Coherent(d) /\ InCadence(d.sched) /\ NoticeRight(d)

\* f has d's scheduler and d's notification.
SamePlan(d, f) == DOMAIN f = DaemonFields /\ f.sched = d.sched /\ f.notice = d.notice

LEMMA PlanOutputs ==
    ASSUME NEW d, NEW f, SamePlan(d, f)
    PROVE  /\ \A c : SamePlan(d, Command(f, c))
           /\ \A b, e : SamePlan(d, BroadcastIf(f, b, e))
           /\ SamePlan(d, UpdateStatus(f))
           /\ OnSchedule(d) /\ Coherent(f) => OnSchedule(f)
<1>1. DOMAIN f = DaemonFields
  BY DEF SamePlan
<1>2. \A c : SamePlan(d, Command(f, c))
  BY DEF SamePlan, Command, DaemonFields
<1>3. \A b, e : SamePlan(d, BroadcastIf(f, b, e))
  BY DEF SamePlan, BroadcastIf, Send, DaemonFields
<1>4. SamePlan(d, UpdateStatus(f))
  BY DEF SamePlan, UpdateStatus, DaemonFields
<1>5. OnSchedule(d) /\ Coherent(f) => OnSchedule(f)
  BY DEF SamePlan, OnSchedule, NoticeRight
<1>6. QED
  BY <1>2, <1>3, <1>4, <1>5

\* Without a notification there is nothing to be wrong about.
LEMMA NoNotice ==
    ASSUME NEW d, Coherent(d), InCadence(d.sched), d.notice = {}
    PROVE  OnSchedule(d)
BY DEF OnSchedule, NoticeRight

\* Taking the notification away.
LEMMA ClearNoticeFields ==
    ASSUME NEW d, DOMAIN d = DaemonFields
    PROVE  LET f == ClearNotice(d)
           IN  DOMAIN f = DaemonFields /\ f.sched = d.sched /\ f.notice = {} /\ f.now = d.now
BY DEF ClearNotice, DaemonFields

\* finish_break of the scheduler with its refresh.
LEMMA FinishSchedulerFields ==
    ASSUME NEW d, DOMAIN d = DaemonFields
    PROVE  LET f == FinishScheduler(d)
           IN  DOMAIN f = DaemonFields /\ f.sched = FinishBreak(d.sched) /\ f.notice = d.notice
<1> DEFINE i == [d EXCEPT !.sched = FinishBreak(@)]
<1>1. DOMAIN i = DaemonFields /\ i.sched = FinishBreak(d.sched) /\ i.notice = d.notice
  BY DEF DaemonFields
<1>2. FinishScheduler(d) \in {i, UpdateStatus(i)}
  BY DEF FinishScheduler
<1> HIDE DEF i
<1>3. SamePlan(i, i) /\ SamePlan(i, UpdateStatus(i))
  BY <1>1, PlanOutputs DEF SamePlan
<1>4. QED
  BY <1>1, <1>2, <1>3 DEF SamePlan

\* A break that is shown takes the notification away.
LEMMA StartBreakAtNotice ==
    ASSUME NEW d, DOMAIN d = DaemonFields, NEW b, NEW lock, NEW at, NEW propagate,
           d.notice = {} \/ Remaining(d, at, b.name) # 0
    PROVE  StartBreakAt(d, b, lock, at, propagate).notice = {}
<1> DEFINE c == ClearNotice(d)
           f == [c EXCEPT !.current = {CurrentBreak(b, lock, at)}]
           g == Command(f, [kind |-> "StartBreak", lock |-> lock,
                            remaining |-> Remaining(d, at, b.name)])
           h == BroadcastIf(g, propagate, BreakStarted(d, b, at))
<1>1. CASE Remaining(d, at, b.name) = 0
  BY <1>1, FinishSchedulerFields DEF StartBreakAt
<1>2. CASE Remaining(d, at, b.name) # 0
  <2>1. StartBreakAt(d, b, lock, at, propagate) = h
    BY <1>2 DEF StartBreakAt
  <2>2. DOMAIN c = DaemonFields /\ c.notice = {}
    BY ClearNoticeFields
  <2> HIDE DEF c
  <2>3. SamePlan(c, f)
    BY <2>2 DEF SamePlan, DaemonFields
  <2> HIDE DEF f
  <2>4. SamePlan(c, g)
    BY <2>3, PlanOutputs
  <2> HIDE DEF g
  <2>5. SamePlan(c, h)
    BY <2>4, PlanOutputs
  <2>6. QED
    BY <2>1, <2>2, <2>5 DEF SamePlan
<1>3. QED
  BY <1>1, <1>2

\* start_manual_break
LEMMA StartManualOnSchedule ==
    ASSUME NEW d, OnSchedule(d), NEW name, NEW propagate
    PROVE  OnSchedule(StartManual(d, name, propagate))
<1> DEFINE S == AfterManualBreak(d.sched, name)
           f == [d EXCEPT !.sched = AfterManualBreak(@, name)]
           g == UpdateStatus(f)
           b == Break(name, Manual)
           h == StartBreakAt(g, b, Autolock[name], d.now, propagate)
<1>1. CASE StartManualBreak(d.sched, name) = {}
  BY <1>1 DEF StartManual
<1>2. CASE StartManualBreak(d.sched, name) # {}
  <2>1. StartManual(d, name, propagate) = h
    BY <1>2 DEF StartManual
  <2>2. Coherent(d) /\ SoundScheduler(d.sched) /\ DOMAIN d = DaemonFields /\ d.now \in Int
    BY DEF OnSchedule, Coherent, Agreed
  <2>3. SoundScheduler(S) /\ InCadence(S)
    BY <2>2, ManualBreakSound, ManualBreakInCadence DEF OnSchedule
  <2>4. DOMAIN f = DaemonFields /\ f.sched = S /\ f.now = d.now
    BY <2>2 DEF DaemonFields
  <2> HIDE DEF S, f
  <2>5. DOMAIN g = DaemonFields /\ g.sched = S /\ g.now = d.now
    BY <2>4, UpdateStatusShows
  <2> HIDE DEF g
  <2>6. Remaining(g, d.now, b.name) # 0
    <3>1. b.name \in Rules
      BY <1>2 DEF StartManualBreak, ManualAvailable, Break
    <3>2. Duration[b.name] \in Nat \ {0}
      BY <3>1, DurationsAssumption
    <3>3. QED
      BY <2>2, <2>5, <3>2 DEF Remaining, LaterOf
  <2>7. h.notice = {} /\ h.sched \in {S, FinishBreak(S)}
    BY <2>5, <2>6, StartBreakAtNotice, StartBreakAtScheduler
  <2>8. InCadence(h.sched)
    BY <2>3, <2>7, ResetsInCadence
  <2>9. Coherent(h)
    BY <2>1, <2>2, StartManualCoherent
  <2>10. QED
    BY <2>1, <2>7, <2>8, <2>9, NoNotice
<1>3. QED
  BY <1>1, <1>2

\* break_start_failed, finish_break and request_lock_after_current_break
LEMMA BreakEndsOnSchedule ==
    ASSUME NEW d, OnSchedule(d)
    PROVE  /\ OnSchedule(BreakStartFailed(d)) /\ OnSchedule(BreakFinished(d))
           /\ \A propagate : OnSchedule(RequestLock(d, propagate))
<1> DEFINE c == ClearNotice(d)
           f == [c EXCEPT !.current = {}]
           g == FinishScheduler(f)
<1>1. Coherent(d) /\ DOMAIN d = DaemonFields /\ SoundScheduler(d.sched) /\ InCadence(d.sched)
  BY DEF OnSchedule, Coherent, Agreed
<1>2. DOMAIN c = DaemonFields /\ c.sched = d.sched /\ c.notice = {}
  BY <1>1, ClearNoticeFields
<1> HIDE DEF c
<1>3. DOMAIN f = DaemonFields /\ f.sched = d.sched /\ f.notice = {}
  BY <1>2 DEF DaemonFields
<1> HIDE DEF f
<1>4. DOMAIN g = DaemonFields /\ g.sched = FinishBreak(d.sched) /\ g.notice = {}
  BY <1>3, FinishSchedulerFields
<1> HIDE DEF g
<1>5. \A m : Command(g, m).sched = g.sched /\ Command(g, m).notice = {}
  <2>1. SamePlan(g, g)
    BY <1>4 DEF SamePlan
  <2>2. \A m : SamePlan(g, Command(g, m))
    BY <2>1, PlanOutputs
  <2>3. QED
    BY <1>4, <2>2 DEF SamePlan
<1>6. InCadence(g.sched)
  BY <1>1, <1>4, ResetsInCadence
<1>7. OnSchedule(BreakStartFailed(d))
  <2>1. BreakStartFailed(d) = g
    BY DEF BreakStartFailed, g, f, c
  <2>2. QED
    BY <1>1, <1>4, <1>6, <2>1, BreakEndsCoherent, NoNotice
<1>8. OnSchedule(BreakFinished(d))
  <2>1. BreakFinished(d) = c \/ \E m : BreakFinished(d) = Command(g, m)
    BY DEF BreakFinished, g, f, c
  <2>2. BreakFinished(d).notice = {} /\ InCadence(BreakFinished(d).sched)
    BY <1>1, <1>2, <1>5, <1>6, <2>1
  <2>3. QED
    BY <1>1, <2>2, BreakEndsCoherent, NoNotice
<1>9. ASSUME NEW propagate PROVE OnSchedule(RequestLock(d, propagate))
  <2> DEFINE k == [d EXCEPT !.current = {[x EXCEPT !.lock = TRUE] : x \in d.current}]
             l == Command(k, [kind |-> "RequestLock"])
             m == BroadcastIf(l, propagate, [kind |-> "LockAfterCurrentBreak"])
  <2>1. RequestLock(d, propagate) \in {d, m}
    BY DEF RequestLock
  <2>2. SamePlan(d, k)
    BY <1>1 DEF SamePlan, DaemonFields
  <2> HIDE DEF k
  <2>3. SamePlan(d, l)
    BY <2>2, PlanOutputs
  <2> HIDE DEF l
  <2>4. SamePlan(d, m)
    BY <2>3, PlanOutputs
  <2> HIDE DEF m
  <2>5. Coherent(RequestLock(d, propagate))
    BY <1>1, RequestLockCoherent
  <2>6. QED
    BY <2>1, <2>4, <2>5, PlanOutputs
<1>10. QED
  BY <1>7, <1>8, <1>9

\* A notification that is put up, or left up, announces the next break.
LEMMA NotifyOnSchedule ==
    ASSUME NEW d, OnSchedule(d)
    PROVE  OnSchedule(NotifyUpcoming(d))
<1> DEFINE shown == {b \in Upcoming(d.sched) :
                         StartsAfter(d.sched) <= Lead /\ NoticeIsDue(d, b)}
           N == {[name |-> b.name, slot |-> b.origin.slot, after |-> StartsAfter(d.sched)] :
                     b \in shown}
           f == [d EXCEPT !.notice = N]
<1>1. NotifyUpcoming(d) = IF shown = {} THEN d ELSE f
  BY DEF NotifyUpcoming
<1>2. Coherent(NotifyUpcoming(d))
  BY OutputsCoherent DEF OnSchedule
<1>3. d.sched \in Schedulers /\ DOMAIN d = DaemonFields
  BY DEF OnSchedule, Coherent, Agreed, SoundScheduler
<1>4. ASSUME NEW n \in N PROVE Upcoming(d.sched) = {Break(n.name, Scheduled(n.slot))}
  <2>1. PICK b \in shown : n.name = b.name /\ n.slot = b.origin.slot
    OBVIOUS
  <2>2. IsActive(d.sched)
    BY <2>1 DEF Upcoming
  <2> DEFINE r == Longest(RulesDue(d.sched.lss, UpcomingSlot(d.sched)))
             u == UpcomingSlot(d.sched)
  <2>3. Upcoming(d.sched) = {Break(r, Scheduled(u))}
    BY <1>3, <2>2, UpcomingBreak
  <2> HIDE DEF r, u
  <2>4. b = Break(r, Scheduled(u))
    BY <2>1, <2>3
  <2>5. n.name = r /\ n.slot = u
    BY <2>1, <2>4 DEF Break, Scheduled
  <2>6. QED
    BY <2>3, <2>5
<1> HIDE DEF N
<1>5. CASE shown = {}
  BY <1>1, <1>5
<1>6. CASE shown # {}
  <2>1. f.sched = d.sched /\ f.notice = N
    BY <1>3 DEF DaemonFields
  <2>2. NotifyUpcoming(d) = f
    BY <1>1, <1>6
  <2> HIDE DEF f
  <2>3. NoticeRight(f) /\ InCadence(f.sched)
    BY <1>4, <2>1 DEF NoticeRight, OnSchedule
  <2>4. QED
    BY <1>2, <2>2, <2>3 DEF OnSchedule
<1>7. QED
  BY <1>5, <1>6

\* advance_active with what the runtime does about its result.
LEMMA AdvanceSchedulerOnSchedule ==
    ASSUME NEW d, OnSchedule(d), NEW e \in Nat
    PROVE  OnSchedule(AdvanceScheduler(d, e))
<1> DEFINE S == AdvanceActive(d.sched, e)
           started == AdvanceActiveBreak(d.sched, e)
           f == [d EXCEPT !.sched = AdvanceActive(@, e)]
           k == UpdateStatus(f)
           b == CHOOSE b \in started : TRUE
           g == UpdateStatus(ClearNotice(f))
           h == StartBreakAt(g, b, Autolock[b.name], d.now, TRUE)
<1>1. AdvanceScheduler(d, e) = IF started = {} THEN NotifyUpcoming(k) ELSE h
  BY DEF AdvanceScheduler
<1>2. /\ Coherent(d) /\ DOMAIN d = DaemonFields
      /\ SoundScheduler(d.sched) /\ d.sched \in Schedulers /\ InCadence(d.sched)
  BY DEF OnSchedule, Coherent, Agreed, SoundScheduler
<1>3. SoundScheduler(S) /\ InCadence(S)
  BY <1>2, AdvanceActiveSound, AdvanceActiveInCadence
<1>4. /\ DOMAIN f = DaemonFields /\ f.sched = S /\ f.notice = d.notice
      /\ f.disable = d.disable /\ f.current = d.current
      /\ f.budget = d.budget /\ f.now = d.now
  BY <1>2 DEF DaemonFields
<1>5. CASE started = {}
  <2>1. Upcoming(S) = Upcoming(d.sched)
    BY <1>2, <1>5, QuietSlotsKeepUpcoming
  <2>2. S.mode = d.sched.mode /\ S.phase = d.sched.phase
    BY <1>2, <1>5, AdvanceActivePhase
  <2> HIDE DEF S, f
  <2>3. Agreed(f)
    BY <1>2, <1>3, <1>4, <2>2 DEF Coherent, Agreed
  <2>4. Coherent(k) /\ SamePlan(f, k)
    <3>1. SamePlan(f, f)
      BY <1>4 DEF SamePlan
    <3>2. QED
      BY <1>4, <2>3, <3>1, UpdateStatusShows, PlanOutputs
  <2> HIDE DEF k
  <2>5. OnSchedule(k)
    BY <1>3, <1>4, <2>1, <2>4 DEF OnSchedule, NoticeRight, SamePlan
  <2>6. QED
    BY <1>1, <1>5, <2>5, NotifyOnSchedule
<1>6. CASE started # {}
  <2> HIDE DEF S, f, b
  <2>1. DOMAIN ClearNotice(f) = DaemonFields /\ ClearNotice(f).sched = S
        /\ ClearNotice(f).notice = {}
    BY <1>4, ClearNoticeFields
  <2>2. DOMAIN g = DaemonFields /\ g.sched = S /\ g.notice = {}
    <3>1. SamePlan(ClearNotice(f), ClearNotice(f))
      BY <2>1 DEF SamePlan
    <3>2. SamePlan(ClearNotice(f), g)
      BY <3>1, PlanOutputs
    <3>3. QED
      BY <2>1, <3>2 DEF SamePlan
  <2> HIDE DEF g
  <2>3. h.notice = {} /\ h.sched \in {S, FinishBreak(S)}
    BY <2>2, StartBreakAtNotice, StartBreakAtScheduler
  <2>4. InCadence(h.sched)
    BY <1>3, <2>3, ResetsInCadence
  <2>5. Coherent(AdvanceScheduler(d, e))
    BY <1>2, AdvanceSchedulerCoherent
  <2>6. AdvanceScheduler(d, e) = h
    BY <1>1, <1>6
  <2> HIDE DEF h
  <2>7. QED
    BY <2>3, <2>4, <2>5, <2>6, NoNotice
<1>7. QED
  BY <1>5, <1>6

\* observe_active
LEMMA ObserveActiveOnSchedule ==
    ASSUME NEW d, OnSchedule(d), NEW e \in Nat, NEW propagate
    PROVE  OnSchedule(ObserveActive(d, e, propagate))
<1> DEFINE i == [d EXCEPT !.idleTime = NotIdle, !.idleCount = NotIdle]
           f == BroadcastIf(i, propagate, [kind |-> "ActiveTimeElapsed", elapsed |-> e])
           n == IF d.seen THEN d.budget - Counted(d, e) ELSE d.budget
           g == [f EXCEPT !.budget = n]
<1>1. Counted(d, e) \in Nat /\ n \in Nat
  BY DEF Counted, EarlierOf, OnSchedule, Coherent, Agreed
<1>2. Coherent(i) /\ SamePlan(d, i) /\ i.budget = d.budget
  BY DEF OnSchedule, SamePlan, Coherent, StatusRight, Agreed, DaemonFields
<1> HIDE DEF i
<1>3. Coherent(f) /\ SamePlan(d, f)
  BY <1>2, OutputsCoherent, PlanOutputs
<1>4. f.budget = d.budget
  BY <1>2, OutputsAlike DEF Coherent, Agreed, Alike
<1>5. ObserveActive(d, e, propagate) =
        IF Counted(d, e) = 0 THEN g ELSE AdvanceScheduler(g, Counted(d, e))
  <2>1. g = [f EXCEPT !.budget = IF d.seen THEN @ - Counted(d, e) ELSE @]
    BY <1>4
  <2>2. QED
    BY <2>1 DEF ObserveActive, i
<1> HIDE DEF f, n
<1>6. Coherent(g) /\ SamePlan(d, g)
  BY <1>1, <1>3 DEF SamePlan, Coherent, StatusRight, Agreed, DaemonFields
<1> HIDE DEF g
<1>7. OnSchedule(g)
  BY <1>6, PlanOutputs
<1>8. QED
  BY <1>1, <1>5, <1>7, AdvanceSchedulerOnSchedule

\* apply_scheduler_reset and advance_idle
LEMMA IdleOnSchedule ==
    ASSUME NEW d, OnSchedule(d)
    PROVE  /\ OnSchedule(SchedulerReset(d, TRUE))
           /\ \A e : OnSchedule(AdvanceIdle(d, e))
<1>1. ASSUME NEW c, OnSchedule(c) PROVE OnSchedule(SchedulerReset(c, TRUE))
  <2> DEFINE f == [c EXCEPT !.idleTime.triggered = TRUE, !.idleCount.triggered = TRUE,
                            !.sched = ResetPosition(@)]
             g == UpdateStatus(ClearNotice(f))
             h == BroadcastIf(g, TRUE /\ Position(f.sched) # Position(c.sched),
                              [kind |-> "SchedulerReset"])
  <2>1. Coherent(c) /\ DOMAIN c = DaemonFields /\ SoundScheduler(c.sched) /\ InCadence(c.sched)
    BY <1>1 DEF OnSchedule, Coherent, Agreed
  <2>2. SchedulerReset(c, TRUE) = h
    BY DEF SchedulerReset
  <2>3. DOMAIN f = DaemonFields /\ f.sched = ResetPosition(c.sched)
    BY <2>1 DEF DaemonFields
  <2> HIDE DEF f
  <2>4. /\ SamePlan(ClearNotice(f), ClearNotice(f)) /\ ClearNotice(f).notice = {}
        /\ ClearNotice(f).sched = ResetPosition(c.sched)
    BY <2>3, ClearNoticeFields DEF SamePlan
  <2>5. SamePlan(ClearNotice(f), g)
    BY <2>4, PlanOutputs
  <2> HIDE DEF g
  <2>6. SamePlan(ClearNotice(f), h)
    BY <2>5, PlanOutputs
  <2>7. h.notice = {} /\ InCadence(h.sched)
    BY <2>1, <2>4, <2>6, ResetsInCadence DEF SamePlan
  <2> HIDE DEF h
  <2>8. QED
    BY <2>1, <2>2, <2>7, SchedulerResetCoherent, NoNotice
<1>2. ASSUME NEW e PROVE OnSchedule(AdvanceIdle(d, e))
  <2> DEFINE f == [d EXCEPT !.idleTime = IdleAdvance(@, ResetAfterIdle, e),
                            !.idleCount = IdleAdvance(@, ResetCountAfterIdle, e)]
             g == [f EXCEPT !.sched = ResetActiveTime(@)]
             h == UpdateStatus(ClearNotice(g))
  <2>1. AdvanceIdle(d, e) \in {SchedulerReset(f, TRUE), h, f}
    BY DEF AdvanceIdle
  <2>2. Coherent(f) /\ SamePlan(d, f)
    BY DEF OnSchedule, SamePlan, Coherent, StatusRight, Agreed, DaemonFields
  <2> HIDE DEF f
  <2>3. OnSchedule(f) /\ DOMAIN f = DaemonFields
    BY <2>2, PlanOutputs DEF SamePlan
  <2>4. DOMAIN g = DaemonFields /\ g.sched = ResetActiveTime(f.sched)
    BY <2>3 DEF DaemonFields
  <2> HIDE DEF g
  <2>5. /\ SamePlan(ClearNotice(g), ClearNotice(g)) /\ ClearNotice(g).notice = {}
        /\ ClearNotice(g).sched = ResetActiveTime(f.sched)
    BY <2>4, ClearNoticeFields DEF SamePlan
  <2>6. SamePlan(ClearNotice(g), h)
    BY <2>5, PlanOutputs
  <2> HIDE DEF h
  <2>7. InCadence(ResetActiveTime(f.sched))
    BY <2>3, ResetsInCadence DEF OnSchedule, Coherent, Agreed
  <2>8. h.notice = {} /\ InCadence(h.sched)
    BY <2>5, <2>6, <2>7 DEF SamePlan
  <2>9. Coherent(AdvanceIdle(d, e))
    BY AdvanceIdleCoherent DEF OnSchedule
  <2>10. QED
    BY <1>1, <2>1, <2>3, <2>8, <2>9, NoNotice
<1>3. QED
  BY <1>1, <1>2

\* enable: with a notification on display breaks are enabled already.
LEMMA EnableOnSchedule ==
    ASSUME NEW d, OnSchedule(d), NEW propagate
    PROVE  OnSchedule(EnableBreaks(d, propagate))
<1> DEFINE f == [d EXCEPT !.sched = Enable(@), !.disable = Enabled]
           g == UpdateStatus(f)
           h == BroadcastIf(g, propagate, [kind |-> "Enable"])
<1>1. Coherent(d) /\ DOMAIN d = DaemonFields /\ SoundScheduler(d.sched) /\ InCadence(d.sched)
  BY DEF OnSchedule, Coherent, Agreed
<1>2. EnableBreaks(d, propagate) = h
  BY DEF EnableBreaks
<1>3. DOMAIN f = DaemonFields /\ f.sched = Enable(d.sched) /\ f.notice = d.notice
  BY <1>1 DEF DaemonFields
<1> HIDE DEF f
<1>4. SamePlan(f, h)
  <2>1. SamePlan(f, f)
    BY <1>3 DEF SamePlan
  <2>2. SamePlan(f, g)
    BY <2>1, PlanOutputs
  <2> HIDE DEF g
  <2>3. QED
    BY <2>2, PlanOutputs
<1>5. NoticeRight(f)
  <2> SUFFICES ASSUME NEW n \in d.notice
               PROVE  Upcoming(Enable(d.sched)) = {Break(n.name, Scheduled(n.slot))}
    BY <1>3 DEF NoticeRight
  <2>1. Upcoming(d.sched) = {Break(n.name, Scheduled(n.slot))}
    BY DEF OnSchedule, NoticeRight
  <2>2. IsActive(d.sched)
    BY <2>1 DEF Upcoming
  <2>3. Enable(d.sched) = d.sched
    BY <1>1, <2>2 DEF Enable, IsActive, SoundScheduler, Schedulers
  <2>4. QED
    BY <2>1, <2>3
<1>6. InCadence(f.sched)
  BY <1>1, <1>3, ResetsInCadence
<1>7. Coherent(h)
  BY <1>1, <1>2, EnableCoherent
<1> HIDE DEF h
<1>8. QED
  BY <1>2, <1>4, <1>5, <1>6, <1>7 DEF SamePlan, OnSchedule, NoticeRight

\* advance_wall_clock
LEMMA WallClockOnSchedule ==
    ASSUME NEW d, OnSchedule(d), NEW e \in Nat
    PROVE  OnSchedule(WallClock(d, e))
<1> DEFINE f == [d EXCEPT !.seen = TRUE, !.budget = e]
           g == IF d.disable.kind = "Timed" /\ d.now >= d.disable.until
                THEN EnableBreaks(f, FALSE) ELSE f
<1>1. Coherent(f) /\ SamePlan(d, f)
  BY DEF OnSchedule, SamePlan, Coherent, StatusRight, Agreed, DaemonFields
<1>2. WallClock(d, e) = UpdateStatus(g)
  BY DEF WallClock
<1> HIDE DEF f
<1>3. OnSchedule(f)
  BY <1>1, PlanOutputs
<1>4. OnSchedule(g)
  BY <1>3, EnableOnSchedule
<1> HIDE DEF g
<1>5. SamePlan(g, UpdateStatus(g))
  <2>1. SamePlan(g, g)
    BY <1>4 DEF OnSchedule, Coherent, Agreed, SamePlan
  <2>2. QED
    BY <2>1, PlanOutputs
<1>6. Coherent(UpdateStatus(g))
  BY <1>4, UpdateStatusShows DEF OnSchedule, Coherent, Agreed
<1>7. QED
  BY <1>2, <1>4, <1>5, <1>6, PlanOutputs

\* disable_scheduler and its callers
LEMMA DisableOnSchedule ==
    ASSUME NEW d, OnSchedule(d), NEW propagate
    PROVE  /\ \A t : OnSchedule(DisableFor(d, t, propagate))
           /\ OnSchedule(DisableUntilRestart(d, propagate))
<1>1. Coherent(d) /\ DOMAIN d = DaemonFields /\ SoundScheduler(d.sched) /\ InCadence(d.sched)
  BY DEF OnSchedule, Coherent, Agreed
<1>2. ASSUME NEW m, NEW e
      PROVE  LET k == BroadcastIf(DisableBreaks([d EXCEPT !.disable = m]), propagate, e)
             IN  k.notice = {} /\ InCadence(k.sched)
  <2> DEFINE g == [d EXCEPT !.disable = m]
             f == [g EXCEPT !.current = {}, !.sched = Disable(@)]
             c == ClearNotice(f)
             h == UpdateStatus(c)
             i == DisableBreaks(g)
             k == BroadcastIf(i, propagate, e)
  <2>1. i \in {h, Command(h, [kind |-> "ClearBreak"])}
    BY DEF DisableBreaks
  <2>2. DOMAIN f = DaemonFields /\ f.sched = Disable(d.sched)
    BY <1>1 DEF DaemonFields
  <2> HIDE DEF f
  <2>3. SamePlan(c, c) /\ c.notice = {} /\ c.sched = Disable(d.sched)
    BY <2>2, ClearNoticeFields DEF SamePlan
  <2> HIDE DEF c
  <2>4. SamePlan(c, h)
    BY <2>3, PlanOutputs
  <2> HIDE DEF h
  <2>5. SamePlan(c, i)
    BY <2>1, <2>4, PlanOutputs
  <2> HIDE DEF i
  <2>6. SamePlan(c, k)
    BY <2>5, PlanOutputs
  <2>7. InCadence(Disable(d.sched))
    BY <1>1, ResetsInCadence
  <2> HIDE DEF k
  <2>8. k.notice = {} /\ InCadence(k.sched)
    BY <2>3, <2>6, <2>7 DEF SamePlan
  <2>9. QED
    BY <2>8 DEF k, i, g
<1>3. ASSUME NEW t PROVE OnSchedule(DisableFor(d, t, propagate))
  <2>1. DisableFor(d, t, propagate).notice = {} /\ InCadence(DisableFor(d, t, propagate).sched)
    BY <1>2 DEF DisableFor
  <2>2. QED
    BY <1>1, <2>1, DisableCoherent, NoNotice
<1>4. OnSchedule(DisableUntilRestart(d, propagate))
  <2>1. /\ DisableUntilRestart(d, propagate).notice = {}
        /\ InCadence(DisableUntilRestart(d, propagate).sched)
    BY <1>2 DEF DisableUntilRestart
  <2>2. QED
    BY <1>1, <2>1, DisableCoherent, NoNotice
<1>5. QED
  BY <1>3, <1>4

\* What a handler leaves is still on schedule once its output is taken.
LEMMA HandleOnSchedule ==
    ASSUME NEW d, OnSchedule(d), Handle(d)
    PROVE  OnSchedule(daemon')
<1>1. Coherent(daemon')
  BY HandleCoherent DEF OnSchedule
<1>2. SamePlan(d, daemon')
  BY DEF Handle, SamePlan, OnSchedule, Coherent, Agreed, DaemonFields
<1>3. QED
  BY <1>1, <1>2, PlanOutputs

LEMMA StepOnSchedule ==
    ASSUME Peers = {}, OnSchedule(daemon), [Next]_vars
    PROVE  OnSchedule(daemon')
<1> USE EventsAssumption, HandleOnSchedule
<1>1. CASE FromBackend
  <2>1. ASSUME NEW e \in ActiveTimes, ActiveTime(e) PROVE OnSchedule(daemon')
    BY <2>1, ObserveActiveOnSchedule DEF ActiveTime, OnLocal, LocalEvent
  <2>2. ASSUME NEW e \in IdleTimes, IdleTime(e) PROVE OnSchedule(daemon')
    BY <2>2, IdleOnSchedule DEF IdleTime, OnLocal, LocalEvent
  <2>3. ASSUME NEW e \in WallTimes, WallClockSample(e) PROVE OnSchedule(daemon')
    BY <2>3, WallClockOnSchedule DEF WallClockSample, OnLocal, LocalEvent
  <2>4. CASE StartFailed
    BY <2>4, BreakEndsOnSchedule DEF StartFailed, OnLocal, LocalEvent
  <2>5. CASE Finished
    BY <2>5, BreakEndsOnSchedule DEF Finished, OnLocal, LocalEvent
  <2>6. CASE LockRequested
    BY <2>6, BreakEndsOnSchedule DEF LockRequested, OnLocal, LocalEvent
  <2>7. CASE Shutdown
    <3>1. Handle([ClearNotice(daemon) EXCEPT !.running = FALSE])
      BY <2>7 DEF Shutdown, OnLocal, LocalEvent
    <3>2. Coherent(ClearNotice(daemon)) /\ DOMAIN ClearNotice(daemon) = DaemonFields
          /\ ClearNotice(daemon).sched = daemon.sched /\ ClearNotice(daemon).notice = {}
      BY OutputsCoherent, ClearNoticeFields DEF OnSchedule, Coherent, Agreed
    <3>3. OnSchedule([ClearNotice(daemon) EXCEPT !.running = FALSE])
      BY <3>2 DEF OnSchedule, NoticeRight, Coherent, StatusRight, Agreed, DaemonFields
    <3>4. QED
      BY <3>1, <3>3
  <2>8. CASE BackendEnds
    BY <2>8 DEF BackendEnds, OnSchedule, NoticeRight, Coherent, StatusRight, Agreed, DaemonFields
  <2>9. QED
    BY <1>1, <2>1, <2>2, <2>3, <2>4, <2>5, <2>6, <2>7, <2>8 DEF FromBackend
<1>2. CASE FromTray
  <2>1. ASSUME NEW name \in Names, StartByHand(name) PROVE OnSchedule(daemon')
    BY <2>1, StartManualOnSchedule DEF StartByHand, OnLocal, LocalEvent
  <2>2. ASSUME NEW t \in DisableTimes, DisableForATime(t) PROVE OnSchedule(daemon')
    BY <2>2, DisableOnSchedule DEF DisableForATime, OnLocal, LocalEvent
  <2>3. CASE DisableForGood
    BY <2>3, DisableOnSchedule DEF DisableForGood, OnLocal, LocalEvent
  <2>4. CASE EnableByHand
    BY <2>4, EnableOnSchedule DEF EnableByHand, OnLocal, LocalEvent
  <2>5. QED
    BY <1>2, <2>1, <2>2, <2>3, <2>4 DEF FromTray
<1>3. CASE FromTransport
  <2>1. PICK p \in Strangers : RejectPeer(p)
    BY <1>3 DEF FromTransport
  <2>2. OnSchedule(PeerRejected(daemon, p))
    BY DEF PeerRejected, OnSchedule, NoticeRight, Coherent, StatusRight, Agreed, DaemonFields
  <2>3. QED
    BY <2>1, <2>2 DEF RejectPeer
<1>4. CASE Tick
  BY <1>4 DEF Tick, OnSchedule, NoticeRight, Coherent, StatusRight, Agreed, DaemonFields
<1>5. CASE UNCHANGED vars
  BY <1>5 DEF vars
<1>6. QED
  BY <1>1, <1>2, <1>3, <1>4, <1>5 DEF Next

\* On a computer without peers a notification on display announces the next break
\* and is gone once that break has started.  With peers it is not so
\* (NoticeRemovedOnceStarted): a peer's position may move the schedule past the
\* announced break.
THEOREM NoticesAreTrueWithoutPeers ==
    ASSUME Peers = {}
    PROVE  Spec => []NoticeAnnouncesNextBreak
<1>1. Init => OnSchedule(daemon)
  <2> SUFFICES ASSUME Init PROVE OnSchedule(daemon)
    OBVIOUS
  <2> DEFINE d == NewDaemon(Self)
  <2>1. DOMAIN d = DaemonFields /\ d.sched = NewScheduler /\ d.notice = {}
    BY DEF NewDaemon, DaemonFields
  <2> HIDE DEF d
  <2>2. InCadence(NewScheduler)
    BY RulesAssumption DEF InCadence, NewScheduler
  <2>3. SamePlan(d, UpdateStatus(d))
    BY <2>1, PlanOutputs DEF SamePlan
  <2>4. QED
    BY <2>1, <2>2, <2>3, InitCoherent, NoNotice DEF Init, SamePlan, d
<1>2. OnSchedule(daemon) /\ [Next]_vars => OnSchedule(daemon)'
  BY StepOnSchedule
<1>3. OnSchedule(daemon) => NoticeAnnouncesNextBreak
  BY DEF OnSchedule, NoticeRight, NoticeAnnouncesNextBreak
<1>4. QED
  BY <1>1, <1>2, <1>3, PTL DEF Spec
=============================================================================
