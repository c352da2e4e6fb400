----------------------------- MODULE RuntimeOps -----------------------------
(***************************************************************************)
(* The daemon runtime of src/runtime.rs as operators on a value, one per   *)
(* handler.  A daemon is a record                                          *)
(*   sched      the scheduler (SchedulerOps)                               *)
(*   disable    disable_mode: [kind, until]                                *)
(*   seen, budget                     combined_activity                    *)
(*   idleTime, idleCount              the two IdleResets                   *)
(*   current    current_break, an Option of [name, origin, lock, at]       *)
(*   notice     pre_break_notice, an Option of [name, slot, after]         *)
(*   status     displayed_status, an Option                                *)
(*   avail      the rules displayed as available by hand                   *)
(*   rejected   notified_rejected_peers                                    *)
(*   self       local_peer_id                                              *)
(*   now        what the system clock reads                                *)
(*   up         the backend still receives commands                        *)
(*   running    run() has not returned                                     *)
(*   cmds, sent the backend commands and the sync events of the handler    *)
(*              that ran last, in order                                    *)
(* A broadcast is [event, to] with to = {}; a directed event names its peer *)
(* in to.  Durations and clock readings are in ticks.                      *)
(*                                                                         *)
(* Left out: messages of breaks (chosen at random, passed along with the   *)
(* name), the text of notifications, logging, and failures to reach the    *)
(* tray or a peer, which the runtime only logs.                            *)
(***************************************************************************)
EXTENDS SchedulerOps, Sequences

CONSTANTS
    Duration,           \* Duration[r]: how long a break of type r lasts
    Autolock,           \* Autolock[r]: whether the session locks after it
    ResetAfterIdle,     \* Options: reset_after_idle
    ResetCountAfterIdle,\* and reset_count_after_idle
    NoticeLead,         \* DEFAULT_PRE_BREAK_NOTICE_LEAD
    FinalNoticeLead     \* FINAL_PRE_BREAK_NOTICE_LEAD

\* Breaks::validate (config.rs): durations and idle timeouts are positive.
ASSUME DurationsAssumption ==
    /\ Duration \in [Rules -> Nat \ {0}]
    /\ Autolock \in [Rules -> BOOLEAN]
    /\ ResetAfterIdle \in SUBSET (Nat \ {0})
    /\ ResetCountAfterIdle \in SUBSET (Nat \ {0})
    /\ NoticeLead \in Nat /\ FinalNoticeLead \in Nat

-----------------------------------------------------------------------------
(* Values *)

Enabled == [kind |-> "Enabled", until |-> 0]
DisabledUntil(t) == [kind |-> "Timed", until |-> t]
UntilRestart == [kind |-> "UntilRestart", until |-> 0]

NotIdle == [elapsed |-> 0, triggered |-> FALSE]

NewDaemon(p) ==
    [sched |-> NewScheduler, disable |-> Enabled, seen |-> FALSE, budget |-> 0,
     idleTime |-> NotIdle, idleCount |-> NotIdle, current |-> {}, notice |-> {},
     status |-> {}, avail |-> Availability(NewScheduler), rejected |-> {},
     self |-> p, now |-> 0, up |-> TRUE, running |-> TRUE,
     cmds |-> <<>>, sent |-> <<>>]

\* What a peer says of a break: BreakStarted carries no lock state, the active
\* break of a SchedulerState does (lock is an Option).
BreakStart(name, o, at, lock) == [name |-> name, origin |-> o, at |-> at, lock |-> lock]

-----------------------------------------------------------------------------
(* Output *)

\* handle_command: a command the backend no longer receives ends the runtime.
Command(d, c) ==
    IF d.up THEN [d EXCEPT !.cmds = Append(@, c)] ELSE [d EXCEPT !.running = FALSE]

Send(d, e, to) == [d EXCEPT !.sent = Append(@, [event |-> e, to |-> to])]

\* broadcast_if_needed, after the step before it succeeded.
BroadcastIf(d, propagate, e) == IF propagate /\ d.running THEN Send(d, e, {}) ELSE d

-----------------------------------------------------------------------------
(* What the tray shows *)

CurrentStatus(d) ==
    CASE d.disable.kind = "Enabled" ->
            {[kind |-> "Upcoming", name |-> b.name, after |-> StartsAfter(d.sched)] :
                b \in Upcoming(d.sched)}
      [] d.disable.kind = "Timed" ->
            {[kind |-> "DisabledFor",
              left |-> LaterOf(d.disable.until - d.now, 0)]}
      [] OTHER -> {[kind |-> "DisabledUntilRestart"]}

\* update_status_display keeps the last status when there is none to show.
UpdateStatus(d) ==
    [d EXCEPT !.status = IF CurrentStatus(d) = {} THEN @ ELSE CurrentStatus(d),
              !.avail = Availability(d.sched)]

ClearNotice_Not(d) == d
ClearNotice(d) == [d EXCEPT !.notice = {}]

Lead == EarlierOf(NoticeLead, AfterActive \div 2)

\* next_pre_break_notice_starts_after: a notice of another break is replaced, one
\* of the same break is renewed once, when the final lead is reached.
NoticeIsDue(d, b) ==
    \A n \in d.notice :
        n.name = b.name /\ n.slot = b.origin.slot =>
            n.after > FinalNoticeLead /\ StartsAfter(d.sched) <= FinalNoticeLead

NotifyUpcoming(d) ==
    LET shown == {b \in Upcoming(d.sched) :
                     StartsAfter(d.sched) <= Lead /\ NoticeIsDue(d, b)}
    IN  IF shown = {} THEN d
        ELSE [d EXCEPT !.notice = {[name |-> b.name, slot |-> b.origin.slot,
                                    after |-> StartsAfter(d.sched)] : b \in shown}]

-----------------------------------------------------------------------------
(* Breaks *)

\* finish_break of the scheduler with the refresh its result asks for.
FinishScheduler_NoRefresh(d) == [d EXCEPT !.sched = FinishBreak(@)]
FinishScheduler(d) ==
    LET f == [d EXCEPT !.sched = FinishBreak(@)]
    IN  IF d.sched.phase = "Pending" THEN UpdateStatus(f) ELSE f

\* remaining_break_duration: saturating at both ends.
Remaining(d, at, name) ==
    LaterOf(Duration[name] - LaterOf(d.now - at, 0), 0)

CurrentBreak(b, lock, at) == [name |-> b.name, origin |-> b.origin, lock |-> lock, at |-> at]

BreakStarted(d, b, at) ==
    [kind |-> "BreakStarted", position |-> Position(d.sched),
     start |-> BreakStart(b.name, b.origin, at, {})]

\* start_break_at: a break already over is not shown.
StartBreakAt_OnlyReturns(d, b, lock, at, propagate) ==
    IF Remaining(d, at, b.name) = 0 THEN d
    ELSE BroadcastIf(
             Command([ClearNotice(d) EXCEPT !.current = {CurrentBreak(b, lock, at)}],
                     [kind |-> "StartBreak", lock |-> lock,
                      remaining |-> Remaining(d, at, b.name)]),
             propagate, BreakStarted(d, b, at))
StartBreakAt(d, b, lock, at, propagate) ==
    IF Remaining(d, at, b.name) = 0 THEN FinishScheduler(d)
    ELSE BroadcastIf(
             Command([ClearNotice(d) EXCEPT !.current = {CurrentBreak(b, lock, at)}],
                     [kind |-> "StartBreak", lock |-> lock,
                      remaining |-> Remaining(d, at, b.name)]),
             propagate, BreakStarted(d, b, at))

\* start_manual_break
StartManual(d, name, propagate) ==
    IF StartManualBreak(d.sched, name) = {} THEN d
    ELSE StartBreakAt(UpdateStatus([d EXCEPT !.sched = AfterManualBreak(@, name)]),
                      Break(name, Manual), Autolock[name], d.now, propagate)

\* break_start_failed
BreakStartFailed_KeepsBreak(d) == FinishScheduler(ClearNotice(d))
BreakStartFailed(d) == FinishScheduler([ClearNotice(d) EXCEPT !.current = {}])

\* finish_break: nothing, the notice apart, unless a break is current.
BreakFinished(d) ==
    IF d.current = {} THEN ClearNotice(d)
    ELSE Command(FinishScheduler([ClearNotice(d) EXCEPT !.current = {}]),
                 [kind |-> "FinishBreak", lock |-> \E c \in d.current : c.lock])

\* request_lock_after_current_break: once per break.
RequestLock(d, propagate) ==
    IF ~\E c \in d.current : ~c.lock THEN d
    ELSE BroadcastIf(
             Command([d EXCEPT !.current = {[c EXCEPT !.lock = TRUE] : c \in @}],
                     [kind |-> "RequestLock"]),
             propagate, [kind |-> "LockAfterCurrentBreak"])

-----------------------------------------------------------------------------
(* Active, idle and wall-clock time *)

\* advance_active: a break it starts is told to the peers.
AdvanceScheduler_StartsSilently(d, e) ==
    LET started == AdvanceActiveBreak(d.sched, e)
        f == [d EXCEPT !.sched = AdvanceActive(@, e)]
    IN  IF started = {} THEN NotifyUpcoming(UpdateStatus(f))
        ELSE LET b == CHOOSE b \in started : TRUE
             IN  StartBreakAt(UpdateStatus(ClearNotice(f)), b, Autolock[b.name], d.now, FALSE)
AdvanceScheduler(d, e) ==
    LET started == AdvanceActiveBreak(d.sched, e)
        f == [d EXCEPT !.sched = AdvanceActive(@, e)]
    IN  IF started = {} THEN NotifyUpcoming(UpdateStatus(f))
        ELSE LET b == CHOOSE b \in started : TRUE
             IN  StartBreakAt(UpdateStatus(ClearNotice(f)), b, Autolock[b.name], d.now, TRUE)

\* The part of e the wall clock has room for (CombinedActivity::active_elapsed).
Counted(d, e) == IF d.seen THEN EarlierOf(e, d.budget) ELSE e

\* observe_active: a break it starts is always broadcast.
ObserveActive(d, e, propagate) ==
    LET f == BroadcastIf([d EXCEPT !.idleTime = NotIdle, !.idleCount = NotIdle],
                         propagate, [kind |-> "ActiveTimeElapsed", elapsed |-> e])
        g == [f EXCEPT !.budget = IF d.seen THEN @ - Counted(d, e) ELSE @]
    IN  IF Counted(d, e) = 0 THEN g ELSE AdvanceScheduler(g, Counted(d, e))

\* IdleReset::advance, which fires when it turns triggered.
IdleAdvance(r, timeout, e) ==
    IF timeout = {} \/ r.triggered THEN r
    ELSE [elapsed |-> r.elapsed + e, triggered |-> \E t \in timeout : r.elapsed + e >= t]

\* apply_scheduler_reset
SchedulerReset(d, propagate) ==
    LET f == [d EXCEPT !.idleTime.triggered = TRUE, !.idleCount.triggered = TRUE,
                       !.sched = ResetPosition(@)]
    IN  BroadcastIf(UpdateStatus(ClearNotice(f)),
                    propagate /\ Position(f.sched) # Position(d.sched),
                    [kind |-> "SchedulerReset"])

\* advance_idle: the reset of the count includes the one of the active time.
AdvanceIdle(d, e) ==
    LET f == [d EXCEPT !.idleTime = IdleAdvance(@, ResetAfterIdle, e),
                       !.idleCount = IdleAdvance(@, ResetCountAfterIdle, e)]
    IN  IF f.idleCount.triggered /\ ~d.idleCount.triggered THEN SchedulerReset(f, TRUE)
        ELSE IF f.idleTime.triggered /\ ~d.idleTime.triggered
             THEN UpdateStatus(ClearNotice([f EXCEPT !.sched = ResetActiveTime(@)]))
        ELSE f

\* enable
EnableBreaks_ModeOnly(d, propagate) ==
    BroadcastIf(UpdateStatus([d EXCEPT !.disable = Enabled]),
                propagate, [kind |-> "Enable"])
EnableBreaks(d, propagate) ==
    BroadcastIf(UpdateStatus([d EXCEPT !.sched = Enable(@), !.disable = Enabled]),
                propagate, [kind |-> "Enable"])

\* advance_wall_clock: the budget is the last sample, not a sum.
WallClock_Accumulates(d, e) ==
    LET f == [d EXCEPT !.seen = TRUE, !.budget = @ + e]
    IN  UpdateStatus(IF d.disable.kind = "Timed" /\ d.now >= d.disable.until
                     THEN EnableBreaks(f, FALSE) ELSE f)
WallClock_NotDuringBreak(d, e) ==
    LET f == [d EXCEPT !.seen = TRUE, !.budget = e]
    IN  UpdateStatus(IF d.disable.kind = "Timed" /\ d.now >= d.disable.until /\ d.current = {}
                     THEN EnableBreaks(f, FALSE) ELSE f)
WallClock(d, e) ==
    LET f == [d EXCEPT !.seen = TRUE, !.budget = e]
    IN  UpdateStatus(IF d.disable.kind = "Timed" /\ d.now >= d.disable.until
                     THEN EnableBreaks(f, FALSE) ELSE f)

\* disable_scheduler: the overlay is cleared only if a break was pending.
DisableBreaks(d) ==
    LET f == UpdateStatus(ClearNotice([d EXCEPT !.current = {}, !.sched = Disable(@)]))
    IN  IF d.sched.phase = "Pending" THEN Command(f, [kind |-> "ClearBreak"]) ELSE f
DisableFor(d, t, propagate) ==
    BroadcastIf(DisableBreaks([d EXCEPT !.disable = DisabledUntil(d.now + t)]),
                propagate, [kind |-> "DisableFor", duration |-> t])
DisableUntilRestart(d, propagate) ==
    BroadcastIf(DisableBreaks([d EXCEPT !.disable = UntilRestart]),
                propagate, [kind |-> "DisableUntilRestart"])

-----------------------------------------------------------------------------
(* Peers *)

\* merge_synced_position with the refresh its result asks for.
MergeAndShow_NoRefresh(d, p) == [d EXCEPT !.sched = MergePosition(@, p)]
MergeAndShow(d, p) ==
    LET f == [d EXCEPT !.sched = MergePosition(@, p)]
    IN  IF f.sched # d.sched THEN UpdateStatus(f) ELSE f

\* start_synced_break: without a current break the peer's is joined, if the
\* scheduler takes it, and only then its position.
JoinBreak(d, start, p) ==
    LET joined == AfterSyncedBreak(d.sched, start.name, start.origin)
        lock == IF start.lock = {} THEN Autolock[start.name] ELSE TRUE \in start.lock
    IN  IF StartSyncedBreak(d.sched, start.name, start.origin) = {} THEN d
        ELSE StartBreakAt(UpdateStatus([d EXCEPT !.sched = MergePosition(joined, p)]),
                          Break(start.name, start.origin), lock, start.at, FALSE)

\* synced_break_replaces_current
Replaces_LaterWins(d, c, peer, start) ==
    IF start.origin.kind = "Scheduled" /\ c.origin.kind = "Scheduled"
         /\ start.origin.slot # c.origin.slot
    THEN start.origin.slot > c.origin.slot
    ELSE start.at > c.at \/ (start.at = c.at /\ peer < d.self)
Replaces(d, c, peer, start) ==
    IF start.origin.kind = "Scheduled" /\ c.origin.kind = "Scheduled"
         /\ start.origin.slot # c.origin.slot
    THEN start.origin.slot > c.origin.slot
    ELSE start.at < c.at \/ (start.at = c.at /\ peer < d.self)

\* The replacement branch of apply_synced_break_start with
\* replace_current_break: an adopted break keeps a lock already asked for unless
\* the peer states its own.
ReplaceBreak_DropsLock(d, c, start, p) ==
    LET adopted == AfterReplacement(d.sched, start.name, start.origin)
        lock == IF start.lock = {} THEN Autolock[start.name]
                ELSE TRUE \in start.lock
        f == [d EXCEPT !.sched = MergePosition(adopted, p)]
        left == Remaining(d, start.at, start.name)
    IN  IF ReplacementBreak(d.sched, start.name, start.origin) = {} THEN d
        ELSE IF left = 0
             THEN Command(FinishScheduler([f EXCEPT !.current = {}]), [kind |-> "ClearBreak"])
             ELSE Command([f EXCEPT !.current =
                              {CurrentBreak(Break(start.name, start.origin), lock, start.at)}],
                          [kind |-> "ReplaceActiveBreak", remaining |-> left, lock |-> lock])
ReplaceBreak(d, c, start, p) ==
    LET adopted == AfterReplacement(d.sched, start.name, start.origin)
        lock == IF start.lock = {} THEN Autolock[start.name] \/ c.lock
                ELSE TRUE \in start.lock
        f == [d EXCEPT !.sched = MergePosition(adopted, p)]
        left == Remaining(d, start.at, start.name)
    IN  IF ReplacementBreak(d.sched, start.name, start.origin) = {} THEN d
        ELSE IF left = 0
             THEN Command(FinishScheduler([f EXCEPT !.current = {}]), [kind |-> "ClearBreak"])
             ELSE Command([f EXCEPT !.current =
                              {CurrentBreak(Break(start.name, start.origin), lock, start.at)}],
                          [kind |-> "ReplaceActiveBreak", remaining |-> left, lock |-> lock])

\* apply_synced_break_start: unknown names and slot 0 are dropped, position and
\* all.
SyncedBreakStart(d, peer, start, p) ==
    IF start.name \notin Rules \/ (start.origin.kind = "Scheduled" /\ start.origin.slot = 0)
    THEN d
    ELSE IF d.current = {} THEN JoinBreak(d, start, p)
    ELSE LET c == CHOOSE c \in d.current : TRUE
         IN  IF Replaces(d, c, peer, start) THEN ReplaceBreak(d, c, start, p)
             ELSE MergeAndShow(d, p)

\* apply_synced_scheduler_state
SyncedSchedulerState(d, peer, p, active) ==
    LET f == IF active = {} THEN d
             ELSE SyncedBreakStart(d, peer, CHOOSE a \in active : TRUE, p)
    IN  IF f.running THEN MergeAndShow(f, p) ELSE f

\* scheduler_state_event, sent to a peer that has just been authenticated.
SchedulerState(d) ==
    [kind |-> "SchedulerState", position |-> Position(d.sched),
     active |-> {BreakStart(c.name, c.origin, c.at, {c.lock}) : c \in d.current}]
SendSchedulerState(d, peer) == Send(d, SchedulerState(d), {peer})

\* What arrives from a peer.  SyncEvent::validate checks it, but for the active time
\* being below the threshold: that is what the schedulers of the peers, which
\* have the same configuration, keep (ElapsedBelowThreshold, BreakScheduler).
SoundPeerEvent(e) ==
    /\ e.kind \in {"BreakStarted", "SchedulerState"} =>
           e.position \in Positions /\ WireValid(e.position)
               /\ e.position.elapsed < AfterActive
    /\ e.kind = "BreakStarted" =>
           e.start.origin \in Origins /\ e.start.at \in Nat /\ e.start.lock = {}
    /\ e.kind = "SchedulerState" =>
           /\ \A a, b \in e.active : a = b
           /\ \A a \in e.active : a.origin \in Origins /\ a.at \in Nat
                                   /\ a.lock \in {{TRUE}, {FALSE}}
    /\ e.kind = "ActiveTimeElapsed" => e.elapsed \in Nat \ {0}
    /\ e.kind = "DisableFor" => e.duration \in Nat \ {0}
    /\ e.kind \in {"BreakStarted", "SchedulerState", "ActiveTimeElapsed", "DisableFor",
                   "SchedulerReset", "DisableUntilRestart", "Enable",
                   "LockAfterCurrentBreak"}

PeerRejected(d, peer) == [d EXCEPT !.rejected = @ \cup {peer}]

\* handle_sync_event: nothing is passed on, except a break that active time
\* starts.
SyncEvent_Echoes(d, peer, e) ==
    CASE e.kind = "ActiveTimeElapsed"   -> ObserveActive(d, e.elapsed, FALSE)
      [] e.kind = "BreakStarted"        -> SyncedBreakStart(d, peer, e.start, e.position)
      [] e.kind = "SchedulerState"      -> SyncedSchedulerState(d, peer, e.position, e.active)
      [] e.kind = "SchedulerReset"      -> SchedulerReset(d, FALSE)
      [] e.kind = "DisableFor"          -> DisableFor(d, e.duration, FALSE)
      [] e.kind = "DisableUntilRestart" -> DisableUntilRestart(d, FALSE)
      [] e.kind = "Enable"              -> EnableBreaks(d, FALSE)
      [] e.kind = "LockAfterCurrentBreak" -> RequestLock(d, TRUE)
SyncEvent(d, peer, e) ==
    CASE e.kind = "ActiveTimeElapsed"   -> ObserveActive(d, e.elapsed, FALSE)
      [] e.kind = "BreakStarted"        -> SyncedBreakStart(d, peer, e.start, e.position)
      [] e.kind = "SchedulerState"      -> SyncedSchedulerState(d, peer, e.position, e.active)
      [] e.kind = "SchedulerReset"      -> SchedulerReset(d, FALSE)
      [] e.kind = "DisableFor"          -> DisableFor(d, e.duration, FALSE)
      [] e.kind = "DisableUntilRestart" -> DisableUntilRestart(d, FALSE)
      [] e.kind = "Enable"              -> EnableBreaks(d, FALSE)
      [] e.kind = "LockAfterCurrentBreak" -> RequestLock(d, FALSE)

\* handle_event, for the events of the backend and of the tray.
LocalEvent(d, e) ==
    CASE e.kind = "ActiveTimeElapsed" -> ObserveActive(d, e.elapsed, TRUE)
      [] e.kind = "IdleTimeElapsed"   -> AdvanceIdle(d, e.elapsed)
      [] e.kind = "WallClockElapsed"  -> WallClock(d, e.elapsed)
      [] e.kind = "BreakStartFailed"  -> BreakStartFailed(d)
      [] e.kind = "BreakFinished"     -> BreakFinished(d)
      [] e.kind = "LockAfterCurrentBreak" -> RequestLock(d, TRUE)
      [] e.kind = "StartManualBreak"  -> StartManual(d, e.name, TRUE)
      [] e.kind = "DisableFor"        -> DisableFor(d, e.duration, TRUE)
      [] e.kind = "DisableUntilRestart" -> DisableUntilRestart(d, TRUE)
      [] e.kind = "Enable"            -> EnableBreaks(d, TRUE)
      [] e.kind = "Shutdown"          -> [ClearNotice(d) EXCEPT !.running = FALSE]
=============================================================================
