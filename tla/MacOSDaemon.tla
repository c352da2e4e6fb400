----------------------------- MODULE MacOSDaemon -----------------------------
(***************************************************************************)
(* The daemon on macOS: the runtime of src/runtime.rs and the backend of   *)
(* src/macos_helper.rs with the helper process it drives.  Other than the  *)
(* X11 backend (X11Daemon) this one ends a break by itself when its time   *)
(* has come and tells the runtime afterwards, and puts the end off while   *)
(* the user's session is locked.                                           *)
(*                                                                         *)
(* As in X11Daemon every clock reading is kept relative to the present.    *)
(***************************************************************************)
EXTENDS RuntimeOps, MacOSOps

CONSTANTS
    Horizon,       \* what the clock reads: at least every duration
    MaxSlot,       \* bound: from this slot on the user is idle
    MaxEvents,     \* bounds on the two channels
    MaxCommands

ASSUME HorizonAssumption ==
    /\ Horizon \in Nat /\ \A r \in Rules : Duration[r] <= Horizon
    /\ MaxSlot \in Nat /\ MaxEvents \in Nat /\ MaxCommands \in Nat

VARIABLES
    daemon,     \* the runtime
    m,          \* the backend and its helper
    commands,   \* runtime to backend
    events,     \* backend to runtime
    session     \* "locked" or "unlocked": what the helper says of it

vars == <<daemon, m, commands, events, session>>

Present == Horizon

Init ==
    /\ daemon = UpdateStatus([NewDaemon(1) EXCEPT !.now = Present])
    /\ m = NoBreak
    /\ commands = <<>> /\ events = <<>>
    /\ session = "unlocked"

-----------------------------------------------------------------------------
(* The runtime *)

Turn(d) ==
    /\ daemon.running
    /\ daemon' = [d EXCEPT !.cmds = <<>>, !.sent = <<>>]
    /\ commands' = commands \o d.cmds
    /\ Len(commands') <= MaxCommands
    /\ m' = Quiet(m)
    /\ UNCHANGED session

TakeEvent ==
    /\ events # <<>>
    /\ Turn(LocalEvent(daemon, Head(events)))
    /\ events' = Tail(events)

FromTray(e) == Turn(LocalEvent(daemon, e)) /\ UNCHANGED events

StartByHand(name) == FromTray([kind |-> "StartManualBreak", name |-> name])
DisableForGood == FromTray([kind |-> "DisableUntilRestart"])
EnableByHand == FromTray([kind |-> "Enable"])
Quit == FromTray([kind |-> "Shutdown"])

\* A peer's request, over a channel of its own.
PeerAsksForLock ==
    /\ Turn(SyncEvent(daemon, 2, [kind |-> "LockAfterCurrentBreak"]))
    /\ UNCHANGED events

-----------------------------------------------------------------------------
(* The backend: run_actor *)

Queue(es) == events' = events \o es /\ Len(events') <= MaxEvents

\* A lock the backend starts, and one of the user's.
Locking == session' = IF m'.locks > 0 THEN "locked" ELSE session

TakeCommand(answer) ==
    /\ daemon.up /\ commands # <<>>
    /\ answer # "done" => MayFail(m, Head(commands), answer)
    /\ m' = HandleCommand(m, Present, Head(commands), answer)
    /\ commands' = Tail(commands)
    /\ Queue(CommandEvents(answer))
    /\ Locking
    /\ UNCHANGED daemon

Sampling == daemon.up /\ daemon.running /\ commands = <<>>

QueuedActivity == Cardinality({i \in DOMAIN events : events[i].kind = "ActiveTimeElapsed"})

SampleActivity(active) ==
    /\ Sampling /\ m.active = {}
    /\ active => daemon.sched.slot + QueuedActivity < MaxSlot
    /\ Queue(ActivityEvents(1, 0, active))
    /\ m' = [Quiet(m) EXCEPT !.clicked = FALSE]
    /\ UNCHANGED <<daemon, commands, session>>

SampleActiveBreak ==
    /\ Sampling /\ m.active # {}
    /\ Queue(OverlayEvents(m, Present, session))
    /\ m' = SampleOverlay(m, Present, session)
    /\ Locking
    /\ UNCHANGED <<daemon, commands>>

\* A sample with a request that fails queues Shutdown and ends the thread, which ends
\* the helper.
BackendFails ==
    /\ daemon.up
    /\ events' = Append(events, Event("Shutdown"))
    /\ daemon' = [daemon EXCEPT !.up = FALSE]
    /\ m' = Cleared(Quiet(m))
    /\ commands' = <<>>
    /\ UNCHANGED session

\* run() has returned: Drop for MacOSHelperBackend ends the helper.
BackendDrops ==
    /\ ~daemon.running /\ daemon.up /\ commands = <<>>
    /\ daemon' = [daemon EXCEPT !.up = FALSE]
    /\ m' = Cleared(Quiet(m))
    /\ UNCHANGED <<commands, events, session>>

-----------------------------------------------------------------------------
(* The user and the time *)

ClickLock ==
    /\ CanClick(m)
    /\ m' = Click(Quiet(m))
    /\ UNCHANGED <<daemon, commands, events, session>>

LockSession ==
    /\ session = "unlocked"
    /\ session' = "locked"
    /\ m' = Quiet(m)
    /\ UNCHANGED <<daemon, commands, events>>

UnlockSession ==
    /\ session = "locked"
    /\ session' = "unlocked"
    /\ m' = Quiet(m)
    /\ UNCHANGED <<daemon, commands, events>>

Older(t) == LaterOf(t - 1, 0)
Sighted(t) == LaterOf(t - 1, Present - 2)

Tick ==
    /\ daemon' = [daemon EXCEPT !.current = {[c EXCEPT !.at = Older(@)] : c \in @}]
    /\ m' = [Quiet(m) EXCEPT !.active = {[a EXCEPT !.ends = LaterOf(@ - 1, Present),
                                                  !.seen = Sighted(@)] : a \in @}]
    /\ UNCHANGED <<commands, events, session>>

Backend ==
    \/ \E answer \in Answers : TakeCommand(answer)
    \/ \E b \in BOOLEAN : SampleActivity(b)
    \/ SampleActiveBreak
    \/ BackendDrops

User == ClickLock \/ LockSession \/ UnlockSession

Disabling == DisableForGood \/ EnableByHand

Undisturbed ==
    \/ TakeEvent
    \/ \E name \in Names : StartByHand(name)
    \/ Quit
    \/ PeerAsksForLock
    \/ Backend
    \/ BackendFails
    \/ User
    \/ Tick

Next == Undisturbed \/ Disabling

\* Both threads keep running and time goes on; nothing is assumed of the user.
Fairness ==
    /\ WF_vars(TakeEvent)
    /\ WF_vars(Backend)
    /\ WF_vars(Tick)

Spec == Init /\ [][Next]_vars /\ Fairness
UndisturbedSpec == Init /\ [][Undisturbed]_vars /\ Fairness

-----------------------------------------------------------------------------

\* The runtime has been told to stop, or has stopped: the backend and its helper end
\* with it.
Stopping == ~daemon.running \/ \E i \in DOMAIN events : events[i].kind = "Shutdown"

\* The helper never blocks the input without a break in the backend that will end
\* it, unless everything is about to stop: not after a clear or a finish that
\* failed, nor a start whose answer was late, not when the thread ended, not when
\* the backend finished the break before the runtime's own FinishBreak came.
InputBlockedOnlyInBreak == m.tap => m.active # {} \/ Stopping

Settled == daemon.running /\ daemon.up /\ commands = <<>> /\ events = <<>>

\* With nothing under way runtime and backend agree on whether there is a break and
\* on whether it ends with a lock: ending a break before the runtime knows
\* (apply_overlay_sample) leaves no break behind on either side.
ThreadsAgree ==
    Settled =>
        {c.lock : c \in daemon.current} = {a.lock : a \in m.active}

\* A session that is already locked is not locked again when the deferred break
\* ends ("Deferred finishes suppress a second lock request after unlock",
\* build-notes/macos-locked-break-finish.md).
NoSecondLock ==
    [][m'.locks > 0 => ~Deferred(m) /\ session = "unlocked"]_vars

\* An overlay goes once the session stays unlocked, however often its end was put
\* off before.
OverlayReleased == <>[](session = "unlocked") => (m.tap ~> ~m.tap)

\* "Do not send a zero-duration update while locked"
\* (build-notes/macos-locked-break-finish.md): a request for a lock is answered with
\* an update of the time left (request_lock_after_current_break), which is zero when
\* the break's end is put off.
NoZeroUpdateWhileLocked ==
    commands # <<>> /\ Head(commands).kind = "RequestLock" /\ session = "locked"
        => ~Deferred(m)

\* A lock that was asked for is carried out: a FinishBreak with a lock finds the
\* break, or the break ended with a lock, or in a session that was locked
\* (build-notes/synced-lock-after-break.md: "Local lock-after-current-break requests
\* mark the current break for locking").
LockHonoured ==
    commands # <<>> /\ Head(commands).kind = "FinishBreak" /\ Head(commands).lock
        => m.active # {} \/ m.end # "unlocked"
=============================================================================
