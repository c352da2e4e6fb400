----------------------------- MODULE X11Daemon ------------------------------
(***************************************************************************)
(* The daemon on Linux: the runtime of src/runtime.rs and the X11 backend  *)
(* of src/x11_activity.rs, each a thread, joined by two unbounded channels *)
(* (BackendActor, src/backend.rs).  The runtime sends commands and goes    *)
(* on; the backend sends events and goes on; so each acts on a picture of  *)
(* the other that may be out of date.                                      *)
(*                                                                         *)
(* The state keeps every clock reading relative to the present: the clock  *)
(* stands at Horizon and a tick takes one off each reading kept, down to a  *)
(* reading so old that it makes no difference how old.                     *)
(*                                                                         *)
(* Peers' events, and what the user asks for at the tray, come over        *)
(* channels of their own, and can overtake a report of the backend         *)
(* (Overtakes).                                                            *)
(***************************************************************************)
EXTENDS RuntimeOps, X11Ops

CONSTANTS
    Self, Peers,   \* the ids of this daemon and of its peers
    PeerEvents,    \* the events peers send, with readings as old as they are here
    MaxRequests,   \* bound on the events of peers and the disables together
    Horizon,       \* what the clock reads: at least every duration
    MaxSlot,       \* bound: from this slot on the user is idle
    MaxEvents,     \* bounds on the two channels
    MaxCommands

ASSUME HorizonAssumption ==
    /\ Horizon \in Nat /\ \A r \in Rules : Duration[r] <= Horizon
    /\ MaxSlot \in Nat /\ MaxEvents \in Nat /\ MaxCommands \in Nat
ASSUME PeersAssumption ==
    /\ Self \in Nat /\ Peers \subseteq Nat \ {Self} /\ MaxRequests \in Nat
    /\ \A e \in PeerEvents : SoundPeerEvent(e)

VARIABLES
    daemon,     \* the runtime
    x,          \* the backend
    commands,   \* runtime to backend
    events,     \* backend to runtime
    sampled,    \* the poller's last_sampled_at, an Option
    requests    \* how many of the requests MaxRequests bounds the runtime has taken

vars == <<daemon, x, commands, events, sampled, requests>>

Present == Horizon

Init ==
    /\ daemon = UpdateStatus([NewDaemon(Self) EXCEPT !.now = Present])
    /\ x = Idle
    /\ commands = <<>> /\ events = <<>>
    /\ sampled = {}
    /\ requests = 0

-----------------------------------------------------------------------------
(* The runtime *)

Turn(d) ==
    /\ daemon.running
    /\ daemon' = [d EXCEPT !.cmds = <<>>, !.sent = <<>>]
    /\ commands' = commands \o d.cmds
    /\ Len(commands') <= MaxCommands

TakeEvent ==
    /\ events # <<>>
    /\ Turn(LocalEvent(daemon, Head(events)))
    /\ events' = Tail(events)
    /\ UNCHANGED <<x, sampled, requests>>

CountRequest == requests < MaxRequests /\ requests' = requests + 1

\* The tray's channel is apart from the backend's, and run() takes from either.
FromTray(e) ==
    /\ Turn(LocalEvent(daemon, e))
    /\ UNCHANGED <<x, events, sampled>>

StartByHand(name) ==
    FromTray([kind |-> "StartManualBreak", name |-> name]) /\ UNCHANGED requests
DisableForGood == FromTray([kind |-> "DisableUntilRestart"]) /\ CountRequest
EnableByHand == FromTray([kind |-> "Enable"]) /\ UNCHANGED requests
Quit == FromTray([kind |-> "Shutdown"]) /\ UNCHANGED requests

\* handle_sync_event, over the channel of the sync transport.
TakeFromPeer(p, e) ==
    /\ Turn(SyncEvent(daemon, p, e)) /\ CountRequest
    /\ UNCHANGED <<x, events, sampled>>

\* The runtime f replaces or clears the break, the report of whose end, or of whose
\* failure, is still on its way.
Overtakes(f) ==
    /\ \E i \in DOMAIN events : events[i].kind \in {"BreakFinished", "BreakStartFailed"}
    /\ \E i \in DOMAIN f.cmds : f.cmds[i].kind \in {"ReplaceActiveBreak", "ClearBreak"}

-----------------------------------------------------------------------------
(* The backend: run_actor sends what is queued, then waits for a command or *)
(* for the time of the next sample.                                        *)

Queue(es) == events' = events \o es /\ Len(events') <= MaxEvents

TakeCommand(answer) ==
    /\ daemon.up /\ commands # <<>>
    /\ x' = HandleCommand(x, Present, Head(commands), answer)
    /\ commands' = Tail(commands)
    /\ UNCHANGED <<daemon, events, sampled, requests>>

\* An X error, or a lock command that does not start: handle_command queues
\* Shutdown and the backend goes on.  A break that could not be started is gone.
CommandFails ==
    /\ daemon.up /\ commands # <<>>
    /\ x' = IF Head(commands).kind = "StartBreak" THEN Cleared(Quiet(x))
            ELSE [HandleCommand(x, Present, Head(commands), "refused") EXCEPT !.locks = 0]
    /\ commands' = Tail(commands)
    /\ Queue(<<Event("Shutdown")>>)
    /\ UNCHANGED <<daemon, sampled, requests>>

\* A wait ends with a sample only when no command is there to be taken.
Sampling == daemon.up /\ daemon.running /\ commands = <<>>

QueuedActivity == Cardinality({i \in DOMAIN events : events[i].kind = "ActiveTimeElapsed"})

\* No sample is taken during a break, so that a break counts as idle time.
SampleActivity(active) ==
    /\ Sampling /\ x.active = {} /\ x.pending = {}
    /\ active => daemon.sched.slot + QueuedActivity < MaxSlot
    /\ Queue(ActivityEvents(1, UnobservedIdle(sampled, Present, 1), active))
    /\ x' = Quiet(x)
    /\ sampled' = {Present}
    /\ UNCHANGED <<daemon, commands, requests>>

SampleActiveBreak(click) ==
    /\ Sampling /\ x.active # {}
    /\ Queue(OverlayEvents(x, Present, click))
    /\ x' = SampleOverlay(x, Present, click)
    /\ UNCHANGED <<daemon, commands, sampled, requests>>

SamplePendingBreak(answer) ==
    /\ Sampling /\ x.active = {} /\ x.pending # {}
    /\ Queue(PendingEvents(x, 1, answer))
    /\ x' = SamplePending(x, Present, answer)
    /\ UNCHANGED <<daemon, commands, sampled, requests>>

\* An X error: Shutdown is queued and the thread ends, which drops the overlay
\* and the command channel.
BackendFails ==
    /\ daemon.up
    /\ events' = Append(events, Event("Shutdown"))
    /\ daemon' = [daemon EXCEPT !.up = FALSE]
    /\ x' = Cleared(Quiet(x))
    /\ commands' = <<>>
    /\ UNCHANGED <<sampled, requests>>

\* run() has returned: the backend handles the commands still there, finds the
\* channel closed, and drops the overlay.
BackendDrops ==
    /\ ~daemon.running /\ daemon.up /\ commands = <<>>
    /\ daemon' = [daemon EXCEPT !.up = FALSE]
    /\ x' = Cleared(Quiet(x))
    /\ UNCHANGED <<commands, events, sampled, requests>>

-----------------------------------------------------------------------------

\* A reading one tick older; older than the oldest kept is the same.
Older(t) == LaterOf(t - 1, 0)
Sighted(t) == LaterOf(t - 1, Present - 2)

Tick ==
    /\ daemon' = [daemon EXCEPT !.current = {[c EXCEPT !.at = Older(@)] : c \in @}]
    /\ x' = [Quiet(x) EXCEPT !.active = {[a EXCEPT !.ends = LaterOf(@ - 1, Present),
                                                  !.seen = Sighted(@)] : a \in @}]
    /\ sampled' = {Sighted(t) : t \in sampled}
    /\ UNCHANGED <<commands, events, requests>>

Backend ==
    \/ \E answer \in Answers : TakeCommand(answer)
    \/ \E b \in BOOLEAN : SampleActivity(b)
    \/ \E b \in BOOLEAN : SampleActiveBreak(b)
    \/ \E answer \in Answers : SamplePendingBreak(answer)
    \/ BackendDrops

DisableOvertakes == Overtakes(DisableUntilRestart(daemon, TRUE))
PeerOvertakes(p, e) == Overtakes(SyncEvent(daemon, p, e))

InTurn ==
    \/ ~DisableOvertakes /\ DisableForGood
    \/ \E p \in Peers, e \in PeerEvents : ~PeerOvertakes(p, e) /\ TakeFromPeer(p, e)

DisabledOutOfTurn == DisableOvertakes /\ DisableForGood
PeerOutOfTurn == \E p \in Peers, e \in PeerEvents : PeerOvertakes(p, e) /\ TakeFromPeer(p, e)

Undisturbed ==
    \/ TakeEvent
    \/ \E name \in Names : StartByHand(name)
    \/ EnableByHand
    \/ Quit
    \/ InTurn
    \/ Backend
    \/ CommandFails
    \/ BackendFails
    \/ Tick

Next == Undisturbed \/ DisabledOutOfTurn \/ PeerOutOfTurn

\* Both threads keep running and time goes on.  Nothing is assumed of the user,
\* of the X server, or of which way a choice goes.
Fairness ==
    /\ WF_vars(TakeEvent)
    /\ WF_vars(Backend)
    /\ WF_vars(Tick)

Spec == Init /\ [][Next]_vars /\ Fairness

\* The same while no disable and no peer's break overtakes the report of the end of
\* the break it takes away; and while only peers' breaks do.
UndisturbedSpec == Init /\ [][Undisturbed]_vars /\ Fairness
OvertakenSpec == Init /\ [][Undisturbed \/ PeerOutOfTurn]_vars /\ Fairness

-----------------------------------------------------------------------------

Settled == daemon.running /\ daemon.up /\ commands = <<>> /\ events = <<>>

(***************************************************************************)
(* With nothing under way between the two threads they agree: the backend  *)
(* has a break on display, or waiting for its grab, exactly when the       *)
(* runtime has a current break, whether it started it, joined a peer's or  *)
(* put a peer's in its place, and both will end it with a lock or neither. *)
(***************************************************************************)
ThreadsAgree ==
    Settled =>
        {c.lock : c \in daemon.current} = {b.lock : b \in x.active} \cup {b.lock : b \in x.pending}

Finishing == commands # <<>> /\ Head(commands).kind = "FinishBreak"

(***************************************************************************)
(* The runtime does not end a break on display before its time: a          *)
(* BreakFinished it acts on is that of the break on display, not of one    *)
(* that a peer's has replaced since.                                       *)
(***************************************************************************)
BreakRunsItsCourse == Finishing => \A a \in x.active : Present >= a.ends

(***************************************************************************)
(* An overlay, which holds keyboard and pointer, is released, whatever is  *)
(* in the channels when its time comes, and also when either thread ends.  *)
(***************************************************************************)
OverlayReleased == x.active # {} ~> x.active = {}

(***************************************************************************)
(* A break whose input cannot be grabbed is shown late or given up: the    *)
(* runtime does not wait for it for ever.                                  *)
(***************************************************************************)
BreakResolved == daemon.current # {} ~> (daemon.current = {} \/ ~daemon.running)
=============================================================================
