# A verification development for RustEyes

RustEyes is a break reminder: a daemon counts the time the user is active, and
every so often covers the screen with an overlay that blocks the input for the
length of a break.  Daemons on one network keep their schedules together.  This
directory holds TLA+ models of its core, the TLC configurations that check them,
and theorems about them that TLAPS proves.  Source paths below are relative to
the repository (`src/scheduler.rs` and so on).

## 1. Inventory

| component | source | state | operations | modelled in |
|---|---|---|---|---|
| break scheduler | `src/scheduler.rs` | `active_elapsed`, `slot`, per rule the last slot it was satisfied at, `state` (Ready or Pending, Active or Disabled) | advance, two resets, manual start, finish, disable, enable; join, replace and merge for peers | `BreakScheduler` |
| daemon runtime | `src/runtime.rs` | the scheduler, `disable_mode`, `current_break`, `pre_break_notice`, displayed status and availability, `CombinedActivity`, two `IdleReset`s, rejected peers | one handler per event of backend, tray and transport | `DaemonRuntime`, `SyncPeers` |
| X11 backend | `src/x11_activity.rs`, `src/x11_overlay.rs` | `active_break` (deadline, last observation, finish reported, lock control), `pending_break` (wait), event queue | start, replace, finish, lock, clear; the samples of activity, overlay and pending break; drop | `X11Daemon` |
| backend actor | `src/backend.rs` | command and event channel, thread | spawn, send, wait, drop | `DaemonProcess`, both backends |
| activity poller, clocks | `src/activity.rs` | last sample, queued events, deadlines | sample, unobserved idle time, remaining time | `DaemonClocks` |
| macOS backend | `src/macos_helper.rs` | `active_break`, deferred finish, session with the helper | as X11's, plus the helper's protocol; it finishes breaks by itself | `MacOSDaemon`, `MacOSHelper` |
| macOS helper | `helpers/macos-helper/.../main.swift` | overlay, event tap, two watchdogs, session lock | the daemon's messages, a click, the watchdogs | `MacOSHelper` |
| sync protocol | `src/sync_protocol.rs` | none | validate, authenticate, encode, fingerprint | in part |
| sync transport | `src/sync_transport*.rs`, `src/sync_transport/` | `ConnectionTracker` (connection, direction, peer, last sequence), outgoing sequence, four threads | dial, hello, collapse duplicates, domain events, close, broadcast, send, shutdown | `SyncTransport`, `DaemonProcess` |
| LAN discovery | `src/sync_discovery.rs` | mDNS browser | resolve a service to a dial, shut down | its effects |
| tray and notifications | `src/ui.rs` | event loop, menu, notification handle | menu actions to runtime events, commands to menu and notification, quit | `DaemonProcess` in part |
| entry point | `src/main.rs`, `src/lib.rs`, `run` in `src/runtime.rs` | none | start and end of all of the above | `DaemonProcess` |
| configuration | `src/config.rs` | none | load, merge, validate | as assumptions |
| lock command, login item, packaging | `src/lock_command.rs`, `src/macos_login_item.rs`, `nix/` | none | process set-up | no |

How they interact: the runtime runs in one thread and takes, from whichever is
ready, an event of the backend, of the tray or of the sync transport.  It sends
commands to the backend and never waits for an answer; an event for the peers it
hands to the transport's worker and waits for the reply.  The backend runs in a
thread of its own, the macOS backend drives a helper process over a pipe.  All
channels are unbounded and in order.  Between daemons the transport keeps one
authenticated connection per pair of peers; on a new one each side sends its
`SchedulerState`.

What is hard, and what must be right:

* *Scheduler.*  One break satisfies several rules; manual, missed, joined and
  merged breaks move slots and satisfied slots separately.  Every rule must get
  its break in time and only in time; what is announced must be what starts;
  positions must stay sendable and merging must not depend on the order.
* *Runtime.*  A dozen handlers with early returns update several records of the
  same thing: current break and Pending, disable mode and scheduler mode, status
  and availability and notice and next break.  They must agree after every event,
  in any order of the three sources.
* *Backend.*  The two threads act on pictures of each other that may be out of
  date.  Every overlay must be released: it holds keyboard and pointer.  A break
  that cannot be shown must be given up.
* *macOS.*  The backend ends breaks by itself and defers the end while the
  session is locked.  Backend and helper each watch the other: whichever hangs or
  dies, the input must come back, and no watchdog may cut a healthy break.
* *Clocks.*  Two clocks, one of which stands still while the machine sleeps and
  the other of which may be set.  Breaks and disables must end on time all the
  same, and time nobody sampled must count as idle.
* *Peers.*  Crossing and relayed starts and states; dials from both sides,
  dropped connections.  Daemons must end in the same break; events must not
  circulate, nor come twice or out of order; active time must count once.
* *Process.*  Seven threads that wait for each other, and joins on the way out.  Every end must be an end.

`PROJECT.json` lists each such hazard at its line.

## 2. Modules

```
SchedulerOps ──> BreakScheduler ──> MCBreakScheduler
   │   │              │  └─ implements ─> Cadence
   │   │              └─> BreakSchedulerProofs
   └──> RuntimeOps ──> DaemonRuntime ──> MCDaemonRuntime
            │                └─────────> DaemonRuntimeProofs
            ├──> SyncPeers ──> MCSyncPeers
            ├────┬──> DaemonClocks ──> MCDaemonClocks
            │    ActivityOps    └─> DaemonClocksProofs
            │    ├── X11Ops
            ├────┼──────┴──> X11Daemon ──> MCX11Daemon
            │    │               └───────> X11DaemonProofs
            │    └── MacOSOps
            └───────────┴──> MacOSDaemon ──> MCMacOSDaemon
                                 └───────> MacOSDaemonProofs

ConnectionOps ──> SyncTransport ──> MCSyncTransport
                        └─────────> SyncTransportProofs
DaemonProcess, MacOSHelper ──> ProcessProofs
```

The lemmas about the operators are in `OperatorProofs`, which extends `RuntimeOps` and
which the proofs about the scheduler, the runtime, the two backends and the clocks
extend.

Scheduler, runtime, backends, poller and connection tracker are values with
operators on them (the `...Ops` modules), one operator per method or handler,
with the names of the source.  State machines compose them.  The operators are
shared, so a change to a handler is a change to every module that contains it.
An `Option` of the source is a set with at most one element.

* **SchedulerOps / BreakScheduler.**  A method that may return a break is two
  operators, the break (`AdvanceActiveBreak`) and the scheduler after it
  (`AdvanceActive`).  The `while` of `advance_active` is written as the least
  slot among those crossed at which something is due.  Slots are natural
  numbers: `usize` and `Duration` do not overflow in the life of a computer.
* **Cadence** is what a schedule promises without slots or active time: every
  break type has an age and is served when it reaches its interval.
  `BreakScheduler` implements it through ages `slot - last satisfied slot`.
* **RuntimeOps / DaemonRuntime.**  A handler is an operator from daemon to
  daemon; it appends its backend commands to `cmds` and its sync events to
  `sent`, which the state machine consumes after each event.  `running` turns
  FALSE where `run()` would return, also when a command finds the backend gone
  (`up`).  The variable `counted` is an observer for one property and influences
  nothing.
* **X11Ops / X11Daemon.**  Commands and events are sequences; the backend takes
  a command or, if there is none, samples.  Whether a grab succeeds and whether a
  request fails is open at each step.  An X error during a sample ends the thread
  (`BackendFails`); one while a command is handled queues Shutdown and the thread
  goes on (`CommandFails`).  The clock is kept relative to the present so that
  the state space is finite: `Tick` takes one off every reading kept.  Readings
  older than two ticks are not told apart; they are only subtracted to report
  idle or wall-clock time, and nothing in these instances depends on how much
  (idle tracking and timed disables are off; `DaemonClocks` has them).  Peers may
  send any event the wire and their schedules allow, and the user may disable breaks,
  in any order with the backend's reports: `requests` bounds how often.  A step that
  replaces or clears a break while the report of its end is still on its way is an
  action of its own (`DisabledOutOfTurn`, `PeerOutOfTurn`): `Spec` has these steps,
  `UndisturbedSpec` has all but these, `OvertakenSpec` has the peers' only.
* **MacOSOps / MacOSDaemon.**  The same composition for macOS: `active_break`
  with its deferred finish, and of the helper what the backend's decisions
  depend on - overlay, event tap, click, lock state.  A request to the helper is
  one step, with an answer: it is done, or refused (a tap, a lock), or lost before it
  takes effect, or done with an answer too late; after all but the first the backend
  queues Shutdown and goes on, while a sample with such a request ends its thread.  Of
  the peers' events only lock requests are taken: starts and states are in `X11Daemon`.
* **MacOSHelper** takes that step apart: requests and answers in the pipe, the
  backend's read timeout, shutdown request, wait and kill on one side; on the
  other the protocol thread, the main thread it waits for, the event tap and the
  two watchdogs.  Time is discrete, and what is due happens before time goes on.
  At most `MaxFaults` of the listed faults strike, at any moment: a thread of
  either process that hangs, a helper that is stopped or dies, a daemon that dies.
* **ActivityOps / DaemonClocks** is about time alone: runtime and backend take
  turns, the machine sleeps, the system clock is set.  `real`, `jumped`,
  `rested`, `started` and `disabled` are observers that tell what really
  happened.
* **ConnectionOps / SyncTransport.**  The tracker's vector of connections is a set
  in which each connection has its place in the vector (`nth`): what the code
  finds by a scan is then the first connection of a set, and removing one moves
  the others up.  A connection is numbered in the order of
  dialling and has an inbox at each end: message-io keeps the order within a
  connection and none between two.  A connection may break with frames under
  way.  The worker handles one item, or the one command its runtime waits for,
  per step; a send to an end that is known to be gone may fail.  A *plan*, chosen
  in the initial state, says who dials whom how often and bounds broadcasts,
  breaking connections and stopping daemons.
* **SyncPeers** is two whole runtimes over what `SyncTransport` shows a pair of
  connected transports to be: a FIFO channel each way.  Each runtime takes its
  own backend's samples and its peer's events from separate channels, so that
  they cross.  Whatever is under way - a sample, a peer's event, the report that a
  break is over - is taken up to `MaxLag` ticks late, by each daemon at a moment of its
  own.  `PunctualSpec` leaves out the steps that start or join a break while the other
  daemon has yet to hear that its last one is over.  `own` is an observer: the break a
  daemon started itself.
* **DaemonProcess** leaves out what events mean and keeps who waits for whom:
  main thread with the tray's loop, UI forwarder, runtime, backend, discovery,
  worker and message-io's node, from a start that may fail at each stage to the
  exit.  Of the UI commands it keeps the notification, the one effect that
  would outlive the process.

Operators whose name ends in `_Something` are variants with a plausible mistake.
No specification uses them; they are there to show that each property notices
its mistake (`mutants` in `PROJECT.json`).

## 3. Runs

| run | shows | bounds |
|---|---|---|
| `scheduler_local` | `NoRuleOverdue`, `AnnouncedBreakIsTheOneStarted`, `PutOffOnlyByALongerBreak`, and `CadenceKept`: the scheduler implements `Cadence` | rules with intervals 2, 3 and 5, so that slots with nothing, one and several rules due occur; 3 ticks to a slot, samples of 1, 2 and 7 so that one sample crosses two slots; 12 slots |
| `scheduler_peers` | `PositionIsWireValid`, `MergeOrderIrrelevant`, `OnlyResetRewinds` | two rules, every position and origin the wire accepts up to slot 3; own slots up to 4, past the peers' |
| `runtime_local` | `StatusNamesNextBreak`, `NoticeAnnouncesNextBreak`, `DisabledTogether` | two rules, a slot of 6 ticks so that notice (3) and final notice (1) both come before the break; both idle resets; two lengths of timed disable; two slots |
| `runtime_peers` | `CurrentIffPending`, `AvailabilityShown`, `ActivityWithinWallClock`, `NothingIsPassedOn`, `LockSurvives` | a peer with a lower and one with a higher id; every event they may send for slots up to 2 and clock readings 0 and 1; one break is longer than the other and locks |
| `x11_undisturbed` | `ThreadsAgree`, `BreakRunsItsCourse`, `OverlayReleased`, `BreakResolved` under `UndisturbedSpec` | a break of one tick, two retries, three events and two commands under way; a peer of a lower and one of a higher id that start or tell of a break, by hand or of a slot, running, locked or over, or ask for the lock; one request of a peer or disable, after breaks of this daemon's own as often as it likes |
| `macos_undisturbed` | `ThreadsAgree`, `NoSecondLock`, `OverlayReleased` for a user who does not disable breaks, with any request that fails | a break of one tick, three events and two commands under way; the session locked and unlocked at will |
| `helper` | `NothingStaysBehind`, `HeartbeatHoldsStill`, `OverlayReleased` under any one fault | two breaks; the timeouts in the order of the code's, zero watchdog <= shutdown < read < heartbeat < break |
| `clocks` | `ActiveTimeIsAwake`, `RestResets`, `BreakOnTime`, `DisableOnTime`, `CountdownIsHonest` | 9 ticks of real time; sleeps of 4, longer than the break (3), the disable (3) and the idle reset (3); the clock set by 2 either way |
| `peers` | `SameBreak`, `BothInBreak`, `SameSlot` under `PunctualSpec` | two rules of which the longer break also supersedes, breaks of 2 and 3 ticks; everything up to one tick late; five ticks, three slots; two events under way each way; once apart, from the start or from a moment of the first tick, until the clock reads 1 at most |
| `transport` | `AnnouncedWhileConnected`, `EventsInOrder`, `EndsAgree`, `StrangersExchangeNothing`, `EventuallyConnected` | two daemons, two connections, in six plans: both dial; one does; one dials twice, with a broadcast or a connection that breaks; one stops; the settings differ |
| `process` | `CleanExit`, `ProcessEnds` | one command for the notification, one request to the worker and one click beside the events of the shutdown itself |
| `x11_disabled` | counterexample to `OverlayReleased` for a user who disables breaks | a break of one tick, one retry |

Why the bounds are enough: the code treats slots only by comparison and by
their distance from satisfied slots, which `Interval` bounds; beyond the largest
interval nothing new happens.  The channel bounds exceed what a handler or a
sample adds in one go, so that stale events and commands meet every other action.
`MaxSlot` in the backends' runs makes the user idle from some point on; the state
is then finite without cutting behaviours off, which the liveness properties need.
Two connections are what two daemons can have to replace one by the other;
sequence numbers are only compared.  One request (`MaxRequests`) in `x11_undisturbed` meets
every state the two threads can be in on their own; that more of them do no harm is
what the theorems add.  In `peers` a lag of one tick lets two starts
that cross be of one moment, so that the smaller id wins, or a tick apart, so that the
earlier one does.  The breaks are longer than the lag, as breaks of seconds are than
a lag of milliseconds: with a lag as long as the shorter break `BothInBreak` fails,
for a start that arrives after its break is over is not joined.  One tick
apart lets each daemon start, end or miss what the other does; five ticks take
one break of each length, a second one after it and the moment between them.

Deadlock checking is off where a run may really end: the runtime stops at
Shutdown, a process exits, and a daemon at its bounds has no further event.

**Fairness.**
`X11Daemon`, `MacOSDaemon`: the runtime taking an event, the backend (a command, a
sample, or its drop) and time; this is what two running threads and blocking
receives with a timeout give.  `MacOSHelper`: the threads that no fault has
stopped, and time.  `SyncTransport`: worker, runtime, and the dial of a service
that has been resolved.  `DaemonProcess`: every thread as long as it can go on.
Nothing is assumed of the user, of the X server's answers, of failures, or of the
network.  Every fairness is weak.

The properties of `x11_undisturbed` are stated for steps that do not overtake the
report of the end, or of the failure, of the break they replace or clear
(`UndisturbedSpec`): `x11_disabled`, `X11DaemonReplaced.cfg` and `X11DaemonCleared.cfg`
show why.  Such a report is on its way for the moment between a sample of the
backend and the runtime's next turn.  `macos_undisturbed` is stated for a user who
does not disable breaks.
`BothInBreak` is stated for breaks that do not meet the other daemon's last one, by
the same kind of moment: `SyncPeersLate.cfg` shows why.
`SameBreak` and `BothInBreak` are stated for daemons that were never apart; when
two meet, one of them in a break, they can stay out of step until it is over.
The shorter rule of `peers` has interval 1 and the other 2, as in the defaults
(`config.rs:18,20`): a break is due at every slot.  Where none is due at some slot,
`SameSlot` and `BothInBreak` are false (`SyncPeersSlots.cfg`, below).
Which of two breaks wins (`synced_break_replaces_current`) is decided pairwise;
three daemons are beyond this instance.

### Configurations beside the runs

The same modules, for questions of the second line; each is checked with `tlc`
like the runs.

| configuration | module | result |
|---|---|---|
| `X11DaemonAny.cfg` | `MCX11Daemon` | `BreakResolved` holds under `Spec`: with peers and a user who disables and enables at any time |
| `DaemonRuntimeDisable.cfg` | `MCDaemonRuntime` | `TypeOK`, `DisabledTogether` and `TimedDisableEnds` hold, with disables by hand and by peers |
| `MacOSHelperKill.cfg` | `MacOSHelper` | `ReleasedByKill` holds: the sum of the timeouts bounds how long the input stays blocked |
| `DaemonRuntimeNotice.cfg`, `SyncTransportDialledTwice.cfg`, `SyncTransportStateLost.cfg`, `X11DaemonReplaced.cfg`, `X11DaemonCleared.cfg`, `SyncPeersLate.cfg`, `SyncPeersCadence.cfg`, `SyncPeersReset.cfg`, `SyncPeersSlots.cfg`, `MacOSDaemonLockLost.cfg`, `MacOSDaemonZeroUpdate.cfg`, `MacOSHelperDeadline.cfg` | | counterexamples, see below |

### Disagreements

Where the code does something else than what is written about it.  The first is
the run `x11_disabled`, the others are the configurations named.

* **A stale start failure ends the wrong break** (`x11_disabled`,
  `runtime.rs:811`).  A `BreakStartFailed` that waits in the channel while the
  user disables, enables and starts another break clears the record of the new
  break without a command; the overlay's own `BreakFinished` is then ignored and
  the input stays grabbed.  The comment at `runtime.rs:827-831` says that the
  overlay is always released.
* **A stale end cuts the next break short** (`X11DaemonReplaced.cfg`,
  `runtime.rs:822`).  The break is over and its `BreakFinished` waits in the channel;
  before the runtime takes it, the `BreakStarted` of a peer's next slot replaces the
  break and a `ReplaceActiveBreak` goes to the backend.  The runtime then takes
  the stale report for the end of the new break, and its `FinishBreak` takes down an
  overlay that has just been put up, while the peer's stays.
  `build-notes/sync-break-message.md:41-43` has the overlay replaced with the
  "remaining time (`duration - (now - started_at_ms)`)".
* **A stale failure after a clear** (`X11DaemonCleared.cfg`, `runtime.rs:811`).  The
  story of `x11_disabled` without a disable: a `BreakStartFailed` waits in the channel,
  a peer's state replaces the break by one that is over, so that the runtime sends
  `ClearBreak`, and the user starts another break; the stale failure clears its record
  and its overlay stays.
* **A notification outlives its break** (`DaemonRuntimeNotice.cfg`,
  `runtime.rs:801`).  Merging a peer's position refreshes the status but leaves a
  notification of a break that is over.
  `build-notes/pre-break-notification-countdown.md:5-6` has it "removed when the
  break starts".
* **A SchedulerState is lost** (`SyncTransportStateLost.cfg`,
  `connections.rs:161`).  When two daemons dial each other, A can authenticate B
  over the connection it is going to collapse, announce B to its runtime and send
  its `SchedulerState` over that connection, which B has collapsed by then.  A's
  other connection authenticates a peer that is known, so nothing is sent over it.
  `build-notes/break-counter-sync.md:15` has the state "sent to each newly
  authenticated peer".  The daemons may go on with different positions until the
  next break.
* **A rediscovered peer is lost** (`SyncTransportDialledTwice.cfg`,
  `connections.rs:181`).  `endpoint_to_keep` takes the first connection of the
  desired direction in the order this daemon saw them.  Of two connections of one
  direction each daemon may keep the other one; both are closed, and none is left
  until discovery resolves the peer once more.
  `build-notes/authenticated-peer-transport.md:24-26` calls the rule
  deterministic.
* **Two peers in one break with two cadences** (`SyncPeersCadence.cfg`,
  `runtime.rs:725`).  A starts a long break by hand while B's scheduler starts
  the short break of the next slot, and the two `BreakStarted` cross.  Both end
  in A's break, but B has satisfied the long rule at its own slot and A one slot
  earlier: the next long break comes at different slots.
  `build-notes/break-counter-sync.md:13-14` has "manual break cadence resets
  converge across peers".
* **A start meets the last break** (`SyncPeersLate.cfg`, `runtime.rs:742`).  Both
  daemons' break is over, one has heard so from its backend and starts a break by hand,
  and its `BreakStarted` comes to the other before that one's backend has reported the
  end: it started later than the current break, so it is ignored, and when
  the report comes, the other is out of the break.
  `build-notes/sync-break-message.md:39` has a daemon not in a break join, and lines 5-7
  promise "one identical break" for breaks that start together.
* **A reset crosses a start** (`SyncPeersReset.cfg`, `runtime.rs:549`).  One
  daemon resets its position and then merges the later one of the break, the
  other is in its break and then resets: in the same break, one at slot 0.
  `build-notes/break-counter-sync.md:5` has the peers "on the same scheduled
  break counter".
* **Active time crosses a start** (`SyncPeersSlots.cfg`, `scheduler.rs:214`).
  With intervals 2 and 3, A's active time ends slot 0; nothing is due at slot 1.
  Its `ActiveTimeElapsed` crosses the `BreakStarted` of B, by hand at slot 0.  A
  joins B's break at slot 1; B, in that break, has no use for the active time: in
  the same break, one at slot 1 and the other at slot 0, against
  `build-notes/break-counter-sync.md:5` again.  When that happens twice, A no
  longer joins a break that B's schedule starts.
* **A lock is lost on macOS** (`MacOSDaemonLockLost.cfg`,
  `macos_helper.rs:175`).  Between the backend ending a break and the runtime
  hearing of it, a peer's lock request is accepted by the runtime and finds no
  break in the backend: this session stays unlocked, the peer's is locked.
  `build-notes/synced-lock-after-break.md:5` has the decision applied "across
  authenticated synced peers".
* **An update of zero in a locked session** (`MacOSDaemonZeroUpdate.cfg`,
  `macos_helper.rs:299`).  A lock request that meets a break whose end is put off
  sends the helper the remaining time, zero, which arms its watchdog.
  `build-notes/macos-locked-break-finish.md:19-20`: "Do not send a zero-duration
  update while locked".
* **A hung helper holds the input for three timeouts** (`MacOSHelperDeadline.cfg`,
  `macos_helper.rs:1073`).  A command that gets no answer only tells the
  runtime, the next poll waits for a timeout of its own, and the shutdown request
  for a third, before the process is killed.
  `build-notes/overlay-stuck-recovery.md:138-139` expects the input back "within
  the deadline + 2s".

## 4. Theorems

All for every value of the constants, under the named assumptions of the modules:
rules with positive intervals, a positive slot length and durations
(what `config.rs` validates), and peers' events that passed the wire validation and
come from peers with the same configuration (`SoundPeerEvent`: that the active time of
a position is below the threshold is not checked by `sync_protocol.rs:283-361`; the
peers' own schedulers keep it, `ElapsedBelowThreshold`).

For the transport they are the shape of the plans only: any finite number of
daemons, connections, broadcasts, failures and stops.

**The scheduler** (`BreakSchedulerProofs`, on the operators' lemmas in
`OperatorProofs`).

* `TypeCorrect` and `SoundPositions` (`PositionIsWireValid` and
  `ElapsedBelowThreshold`) come from the inductive invariant `SoundScheduler`,
  type and both facts together: neither is inductive without the type, and the
  merge preserves the first only because it clips each satisfied slot at the
  merged slot.
* `AnnouncementsHold` and `PeersConverge` (`AnnouncedBreakIsTheOneStarted`,
  `MergeOrderIrrelevant`) follow from `SoundScheduler`; `MergeIsAJoin` is the
  algebra behind the second.
* `NothingElseRewinds` and `ShortBreaksPutNothingOff` are action properties: each
  operation of the scheduler is shown to move no slot and no satisfied slot back,
  and to put no rule off but by a break with at least its interval.
* `NeverOverdue`, for a daemon on its own, is inductive together with
  `SoundScheduler` (`InCadence`); the step that matters is
  `AdvanceActiveInCadence`: at the slots walked over nothing was due, and the
  break at the slot where the walk stops, being the longest due, satisfies
  every other rule due there.
* `ImplementsCadence` is the refinement: with ages `slot - last satisfied slot`,
  every step of a daemon on its own is a step of `Cadence` or a stutter.

**The runtime** (`DaemonRuntimeProofs`, on the lemmas about the handlers in
`OperatorProofs`, which the two daemons use as well).

* `BreakRecordsAgree`, `DisableRecordsAgree`, `TrayOffersWhatStarts` and
  `TrayNamesNextBreak` come from the inductive invariant `Coherent`: current break
  and phase, disable mode and scheduler mode, availability, and the displayed
  status.  It takes all of them: `disable` clears the current break whatever the
  phase, availability and status depend on phase and mode.  There is one lemma per
  handler, in the order in which handlers call each other, and a step per event.
* `EventsDoNotCirculate` and `LocksSurvivePeers` are action properties: lemmas
  named `...Quiet` and `...Effects` say what each handler sends, for any number of
  peers; a lock is followed through each way in which a peer's event can
  replace the current break (`ReplacementLocks`, `SyncedStartLocks`).
* `WallClockBoundsActivity` (`ActivityWithinWallClock`) is inductive with
  the type of the observer (`WithinSample`), over lemmas that say of each handler
  whether the active time it gives the scheduler is taken from what
  `CombinedActivity` has left (`ActiveTimeWithinSample`) or none at all.
* `NoticesAreTrueWithoutPeers` (`NoticeAnnouncesNextBreak`) is proved for
  `Peers = {}`, with the invariant `OnSchedule`: `Coherent`, `InCadence` and what
  a notification on display says.  That no rule is overdue is needed: a walk over
  slots may not start anything before the break announced.  With peers the
  statement is false (`DaemonRuntimeNotice.cfg`).

**The runtime with its backend** (`X11DaemonProofs`, `MacOSDaemonProofs`), but for
the last theorem under `UndisturbedSpec`, as in the runs: for X11, no disable and no
peer's break overtakes the report of the end of the break it takes away; for macOS,
nobody disables breaks.  The queues may be of any length.  For X11 there may be any
peers with any sound events and idle times of any length; for macOS a peer asks for
the lock, and any request may fail.

* Both rest on an inductive invariant `Linked`, which says what the two pictures of
  the break are while commands and reports are under way (`Pictures`).  At most one
  report of an end is under way (`AtMostOne`), and a lock known to one side is known
  to the other or on its way (`SameLock`).
* For X11 the commands may be in any order, since a peer may have a break replaced,
  cleared and started anew before the backend has taken the first of them.  What
  `Pictures` says of them is what the backend will have when it has taken them all:
  a break (`Held`) when the runtime has one, unless the report of its failure is on its
  way, none (`Emptied`) when it has none; with the lock of the last command that
  shows one (`LockOnItsWay`).  While a report of an end is under way nothing is
  but lock requests, and a `FinishBreak` comes first and meets a break whose end was
  reported (`EndsTheShown`): this is where `UndisturbedSpec` is needed.
* For macOS the commands are a finish and then a start, each optional, with lock
  requests only for the break they follow (`Ordered`, `Starting`); once nothing more is
  to start, a current break is one the backend has (`Showing`) or one whose end is on
  its way to the runtime (`Ended`).
* None of it is inductive alone: that a report ends the right break needs that it is
  the only one, and that needs what the commands come to.
* For the runtime's side, `OperatorProofs` says of each handler what it sends to
  the backend and what becomes of the current break (`Does`), whatever it does to
  peers and tray; for the backend's side, there is one lemma per command and per
  sample.
* `ThreadsMeet` (`ThreadsAgree`, in both modules) is `Linked` with empty queues.
* `BreaksRunTheirCourse` (`BreakRunsItsCourse`, X11): while a `FinishBreak` is in the
  channel the break on the overlay is one whose end was reported, hence over.
* `LocksOnce` (`NoSecondLock`, macOS): a `FinishBreak` on its way finds a backend
  without a break, so that only a sample locks; and a sample ends a break that was
  put off without locking.
* `InputComesBack` (`InputBlockedOnlyInBreak`, macOS; TLC agrees on the instance of
  `MacOSDaemon.cfg` with `Spec`, `MaxSlot` 0 and `MaxCommands` 1) holds under `Spec`, also when breaks are disabled: the
  input is blocked only while the backend has a break, or after a request failed and
  Shutdown is queued for it.  It needs no picture of the channels but what they may
  hold (`Guarded`): every command and every sample, in any order, keeps it.

**The two clocks** (`DaemonClocksProofs`), for all schedules, durations, jumps of the
system clock and times asleep, from one inductive invariant, `ClocksInv`.  Between two
turns of the poller the runtime is `Coherent` and has nothing left to send, and four
accounts are kept:

* what the system clock reads is the time that went by and the jumps (`ClocksRead`);
* the active time is no more than the time awake, a sample that is due included
  (`TimeAccounted`): with it `OnlyAwakeTimeCounts` (`ActiveTimeIsAwake`);
* the overlay has a break exactly when the runtime has one, until the time that its
  length comes to from where it began (`BreakAccounted`): with it
  `CountdownsAreHonest` (`CountdownIsHonest`) and the action property
  `BreaksEndOnTime` (`BreakOnTime`);
* the idle time counted covers the user's rest up to the last sample, unless it has
  reset the active time already (`RestAccounted`), which is what a sample, a break
  and a gap in sampling have in common: with it `RestsReset` (`RestResets`).

`DisablesEndOnTime` (`DisableOnTime`) needs the first, and when
the disable began.  Each handler of a sample's
events has a lemma saying what it makes of the active time, the idle time and
the disable mode; `SampleHandled` puts the two or three events of a sample together.

**The transport** (`SyncTransportProofs`), from one inductive invariant,
`TransportInv`:

* `PeersAnnouncedOnce` (`AnnouncedWhileConnected`): between two messages no peer
  has two connections in a tracker (`SoundTracker`), so that closing one endpoint
  is the end of its peer or of nobody.
* `EventsKeepTheirOrder` (`EventsInOrder`): what has been accepted is below the
  tracker's highest number (`Numbered`), which survives the connections.
* `StrangersStayStrangers` (`StrangersExchangeNothing`): what comes over a
  connection was sent by its other end (`OwnEnds`), and a peer is recorded only
  when the settings are the same.
* `NothingStaysHalfOpen` (`EndsAgree`): `EndInv` says how the two ends keep up with
  each other - an end that only one has removed is on its way to the other, a
  tracked connection is open or its end is on its way, and of an open one each side
  has the other's hello, has it to handle, or will be sent it.  With nothing under
  way only the first alternatives are left.

**The process** (`ProcessProofs`): `NothingOutlivesTheProcess` (`CleanExit`)
from `Orderly`: a notification is shown by the tray's loop only, after its first
event and until its last; the listener outlives neither the fourth step of the
shutdown nor a worker nobody has told to stop; a runtime that has ended has dropped
its transport and its backend.  The queues may be of any length.  Of the advertised
service only the goodbye has been queued by then, by the drop of `LanDiscovery`
(`sync_discovery.rs:139-144`): nobody waits for the thread of mDNS that sends it.

**The macOS helper** (`ProcessProofs`), for all timeouts under
`TimeoutsAssumption` (the heartbeat watchdog outlasts two answers that come as
late as they may), any faults and break lengths:

* `WatchdogKeepsStill` (`HeartbeatHoldsStill`) from the inductive invariant `Attended`:
  while nothing has failed, at most one request or answer is under way, and where
  the backend is says how long ago the helper last heard of it - within the tick
  when it has polled, in the tick before between two requests, and otherwise one
  tick more than the request has waited, which is less than the read timeout.  So
  the heartbeat always has a read timeout left.  A helper that is shut down counts:
  its overlay stays until it has read the request.
* `HelperIsReaped` (`NothingStaysBehind`) is part of the same invariant.  It holds
  after any fault; a fault does not befall a helper whose backend is gone, because the
  helper is gone too.

Only model-checked: the liveness properties and everything else under fairness
(the prover has no ENABLED), among them `OverlayReleased` and `BreakResolved` of the
backends and the deadlines of a kill in `MacOSHelper` (`ReleasedByKill`: a sum over
the faults' timeouts, which needs the way to the kill step by step); and the pair of runtimes
(`SyncPeers`), whose properties are no theorems for all values of the constants:
`SyncPeersSlots.cfg` and `SyncPeersReset.cfg` are counterexamples with other intervals
and with a reset of the count, and how late an event may be is bounded by the length
of the breaks.  When a disable or a peer's break overtakes a report, the agreement of
the two threads is not claimed: `x11_disabled` and the configurations beside it show
what happens then.
No `RECURSIVE` operator is used.

## 5. Not modelled, and why

* *Configuration* (`src/config.rs`).  Loading and validating YAML happens once,
  before any thread starts.  What it guarantees of a schedule is the assumptions
  on the constants.
* *Wire formats*: the encoding of frames, the HMACs, the digest of the settings,
  the mDNS record and its parsing.  A frame decodes to what was sent: one that does not
  closes its endpoint (`worker.rs:154-163`), which `SyncTransport` has as a connection
  that breaks.  A peer without the shared secret is not dialled, and its hello closes
  the endpoint as well.  Both are sequential functions with unit tests of their own.
* *Drawing*: windows, fonts, countdown text, the coordinates of a click, the
  menu's items and icons.  No control that other parts depend on.
* *Operating system and libraries*: X server, window server, message-io, mdns-sd,
  the tray's loop.  They are modelled by what the code sees of them - a grab that
  is refused, a connection that breaks - and marked external in `PROJECT.json`.
* *Lock command, login item, logging, packaging.*  Process set-up.  A lock
  command that does not start is an error of the backend (`CommandFails`).
* Failures to reach the tray or a peer are only logged by the runtime.

## 6. Plan

1. A theorem for `ReleasedByKill` of `MacOSHelper`.
2. Three daemons in `SyncPeers`: whether the pairwise choice between breaks
   converges, and what a daemon in the middle of a partition relays.
3. The merge of settings of `config.rs` as operators.
