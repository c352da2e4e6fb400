--------------------------- MODULE DaemonRuntime ----------------------------
(***************************************************************************)
(* The daemon runtime of src/runtime.rs: one action per event it handles.  *)
(* Three sources feed it through independent channels - the backend, the   *)
(* tray and the sync transport - and run() takes whichever is ready, so any *)
(* event may come next: a BreakFinished may be that of a break since       *)
(* cleared, a peer's event may come between any two of the backend's.      *)
(***************************************************************************)
EXTENDS RuntimeOps

CONSTANTS
    ActiveTimes,       \* durations of the active, idle and wall-clock samples
    IdleTimes,
    WallTimes,
    DisableTimes,      \* the disable presets
    Self, Peers,       \* the ids of this daemon and of its peers
    Strangers,         \* peers with another configuration
    PeerEvents,        \* the events peers send; {} without sync
    MaxSlot, MaxNow    \* bounds on the slots and on the clock

\* ActiveTimeElapsed is positive both from the poller (poll_interval) and over
\* the wire; a backend ticks with a positive poll interval.
ASSUME EventsAssumption ==
    /\ ActiveTimes \subseteq Nat \ {0} /\ IdleTimes \subseteq Nat \ {0}
    /\ WallTimes \subseteq Nat /\ DisableTimes \subseteq Nat \ {0}
    /\ Self \in Nat /\ Peers \subseteq Nat \ {Self}
    /\ MaxSlot \in Nat /\ MaxNow \in Nat

ASSUME PeerEventsAssumption == \A e \in PeerEvents : SoundPeerEvent(e)

VARIABLES
    daemon,    \* its outputs left out: what they are is the handler's result
    counted    \* active time the scheduler took since the last wall-clock sample,
               \* once there has been one

vars == <<daemon, counted>>

Init ==
    /\ daemon = UpdateStatus(NewDaemon(Self))
    /\ counted = 0

\* One turn of the loop of run(): the handler's commands and sync events go to
\* their channels, and the loop ends when the handler says so.
Handle(d) ==
    /\ daemon.running
    /\ daemon' = [d EXCEPT !.cmds = <<>>, !.sent = <<>>]
    /\ d.sched.slot <= MaxSlot

OnLocal(e) == Handle(LocalEvent(daemon, e))

ActiveTimeOf(s) == AfterActive * s.slot + s.elapsed
CountActive ==
    counted' = IF daemon.seen
               THEN counted + LaterOf(ActiveTimeOf(daemon'.sched) - ActiveTimeOf(daemon.sched), 0)
               ELSE 0

-----------------------------------------------------------------------------

ActiveTime(e) ==
    /\ OnLocal([kind |-> "ActiveTimeElapsed", elapsed |-> e])
    /\ CountActive

IdleTime(e) ==
    /\ OnLocal([kind |-> "IdleTimeElapsed", elapsed |-> e])
    /\ UNCHANGED counted

WallClockSample(e) ==
    /\ OnLocal([kind |-> "WallClockElapsed", elapsed |-> e])
    /\ counted' = 0

StartFailed == OnLocal([kind |-> "BreakStartFailed"]) /\ UNCHANGED counted
Finished == OnLocal([kind |-> "BreakFinished"]) /\ UNCHANGED counted
LockRequested == OnLocal([kind |-> "LockAfterCurrentBreak"]) /\ UNCHANGED counted

StartByHand(name) ==
    /\ OnLocal([kind |-> "StartManualBreak", name |-> name])
    /\ UNCHANGED counted

DisableForATime(t) ==
    /\ daemon.now + t <= MaxNow
    /\ OnLocal([kind |-> "DisableFor", duration |-> t])
    /\ UNCHANGED counted

DisableForGood == OnLocal([kind |-> "DisableUntilRestart"]) /\ UNCHANGED counted
EnableByHand == OnLocal([kind |-> "Enable"]) /\ UNCHANGED counted
Shutdown == OnLocal([kind |-> "Shutdown"]) /\ UNCHANGED counted

\* handle_sync_transport_event
FromPeer(p, e) ==
    /\ e.kind = "DisableFor" => daemon.now + e.duration <= MaxNow
    /\ Handle(SyncEvent(daemon, p, e))
    /\ IF e.kind = "ActiveTimeElapsed" THEN CountActive ELSE UNCHANGED counted

PeerAuthenticated(p) ==
    /\ Handle(SendSchedulerState(daemon, p))
    /\ UNCHANGED counted

RejectPeer(p) ==
    /\ Handle(PeerRejected(daemon, p))
    /\ UNCHANGED counted

\* The backend's thread ends and drops its end of the command channel; its last
\* event, Shutdown, may still be waiting behind others.
BackendEnds ==
    /\ daemon.running /\ daemon.up
    /\ daemon' = [daemon EXCEPT !.up = FALSE]
    /\ UNCHANGED counted

Tick ==
    /\ daemon.running /\ daemon.now < MaxNow
    /\ daemon' = [daemon EXCEPT !.now = @ + 1]
    /\ UNCHANGED counted

FromBackend ==
    \/ \E e \in ActiveTimes : ActiveTime(e)
    \/ \E e \in IdleTimes : IdleTime(e)
    \/ \E e \in WallTimes : WallClockSample(e)
    \/ StartFailed
    \/ Finished
    \/ LockRequested
    \/ Shutdown
    \/ BackendEnds

FromTray ==
    \/ \E name \in Names : StartByHand(name)
    \/ \E t \in DisableTimes : DisableForATime(t)
    \/ DisableForGood
    \/ EnableByHand

FromTransport ==
    \/ \E p \in Peers : \E e \in PeerEvents : FromPeer(p, e)
    \/ \E p \in Peers : PeerAuthenticated(p)
    \/ \E p \in Strangers : RejectPeer(p)

Next == FromBackend \/ FromTray \/ FromTransport \/ Tick

Spec == Init /\ [][Next]_vars

\* The clock moves on, and a backend that is up samples it every poll interval,
\* during a break as well.
FairSpec ==
    /\ Spec
    /\ WF_vars(Tick)
    /\ WF_vars(daemon.up /\ \E e \in WallTimes : WallClockSample(e))

-----------------------------------------------------------------------------

\* The type of a daemon, its outputs consumed.
CurrentBreaks == [name : Rules, origin : Origins, lock : BOOLEAN, at : Nat]
Notices == [name : Rules, slot : Nat, after : Nat]

TypeOK ==
    /\ daemon.sched \in Schedulers
    /\ daemon.disable \in [kind : {"Enabled", "Timed", "UntilRestart"}, until : Nat]
    /\ daemon.budget \in Nat /\ daemon.seen \in BOOLEAN
    /\ daemon.current \in SUBSET CurrentBreaks /\ Cardinality(daemon.current) <= 1
    /\ daemon.notice \in SUBSET Notices /\ Cardinality(daemon.notice) <= 1
    /\ daemon.avail \subseteq Rules
    /\ daemon.rejected \subseteq Strangers
    /\ daemon.now \in Nat
    /\ counted \in Nat

(***************************************************************************)
(* The two records of a break agree: the runtime has a current break       *)
(* exactly while the scheduler is pending.  They are set and cleared by    *)
(* different calls in a dozen handlers; were they to part, an overlay would *)
(* outlive its break, or the schedule stop for good behind a break that is *)
(* over (build-notes/overlay-stuck-recovery.md).                           *)
(***************************************************************************)
CurrentIffPending == daemon.current # {} <=> daemon.sched.phase = "Pending"

(***************************************************************************)
(* The two records of being disabled agree: the runtime's disable_mode and *)
(* the scheduler's mode, or its resume mode during a break.  Otherwise the *)
(* tray says one thing and the schedule does another.                      *)
(***************************************************************************)
DisabledTogether ==
    daemon.disable.kind = "Enabled" <=> daemon.sched.mode = "Active"

(***************************************************************************)
(* The tray offers by hand exactly the breaks the scheduler would start:   *)
(* the displayed availability is refreshed by every handler that changes   *)
(* what is due next.                                                       *)
(***************************************************************************)
AvailabilityShown == daemon.avail = Availability(daemon.sched)

(***************************************************************************)
(* While a break is being counted down to, the tray names the one that     *)
(* will start and never promises it later than it comes.                   *)
(***************************************************************************)
StatusNamesNextBreak ==
    IsActive(daemon.sched) =>
        \A b \in Upcoming(daemon.sched) : \E t \in daemon.status :
            t.kind = "Upcoming" /\ t.name = b.name /\ t.after <= StartsAfter(daemon.sched)

(***************************************************************************)
(* A pre-break notification on display announces the next break, which is  *)
(* still to come.                                                          *)
(***************************************************************************)
NoticeAnnouncesNextBreak ==
    \A n \in daemon.notice :
        Upcoming(daemon.sched) = {Break(n.name, Scheduled(n.slot))}

(***************************************************************************)
(* A pre-break notification is removed when its break starts, here or on a *)
(* peer whose schedule this daemon has taken over                          *)
(* (build-notes/pre-break-notification-countdown.md).                      *)
(***************************************************************************)
NoticeRemovedOnceStarted == \A n \in daemon.notice : daemon.sched.slot < n.slot

(***************************************************************************)
(* Between two samples of the wall clock the scheduler takes no more active *)
(* time than one sample lasts, wherever it was spent: activity on several  *)
(* computers at once does not bring a break nearer                         *)
(* (build-notes/idle-activity-grace.md).                                   *)
(***************************************************************************)
ActivityWithinWallClock ==
    daemon.seen => \E e \in WallTimes : counted + daemon.budget <= e

(***************************************************************************)
(* Applying a peer's event sends nothing out, except that active time may  *)
(* start a break, which is announced: events do not circulate among peers. *)
(***************************************************************************)
NothingIsPassedOn ==
    \A p \in Peers, e \in PeerEvents :
        \A i \in DOMAIN SyncEvent(daemon, p, e).sent :
            /\ e.kind = "ActiveTimeElapsed"
            /\ SyncEvent(daemon, p, e).sent[i].event.kind = "BreakStarted"
            /\ SyncEvent(daemon, p, e).sent[i].event.start.origin.kind = "Scheduled"

(***************************************************************************)
(* A lock asked for is not lost to a peer's event while a break lasts, or   *)
(* gives way to the peer's: only a peer that says of the break it knows    *)
(* that it ends without one takes it back.                                 *)
(***************************************************************************)
SaysNoLock(e) == e.kind = "SchedulerState" /\ \E a \in e.active : FALSE \in a.lock

LockSurvives ==
    (\E c \in daemon.current : c.lock) =>
        \A p \in Peers : \A e \in {e \in PeerEvents : ~SaysNoLock(e)} :
            \A b \in SyncEvent(daemon, p, e).current : b.lock

(***************************************************************************)
(* A timed disable ends at its deadline even if nothing but the clock does *)
(* anything, and during a break too; only another disable or an enable     *)
(* takes its place earlier.                                                *)
(***************************************************************************)
TimedDisableEnds ==
    \A t \in 0..MaxNow :
        daemon.disable = DisabledUntil(t) ~>
            (daemon.disable # DisabledUntil(t) \/ ~daemon.running \/ ~daemon.up)
=============================================================================
