---------------------------- MODULE DaemonProcess ---------------------------
(***************************************************************************)
(* The threads of the daemon's process, from start to exit: the main thread *)
(* with the tray's event loop, the forwarder of the runtime's UI commands, *)
(* the runtime, its backend, and the transport's three: discovery, worker  *)
(* and message-io's node.  They wait for each other in many places - the   *)
(* start of the backend, the worker's reply to a command, the joins of     *)
(* every Drop - and end each other through channels that close, a flag and *)
(* a wake that has to come through the node.                               *)
(*                                                                         *)
(* What the events and commands do is left to the other modules; of the    *)
(* UI commands only the pre-break notification is kept, which outlives its *)
(* process on the user's desktop unless it is closed.                      *)
(***************************************************************************)
EXTENDS Integers, Sequences

CONSTANTS
    MaxNotices,     \* bounds: on the commands for the notification,
    MaxRequests,    \* on the commands to the worker,
    MaxQuits,       \* on the clicks on quit,
    MaxInbox        \* and on the worker's queue beside wakes

ASSUME BoundsAssumption == {MaxNotices, MaxRequests, MaxQuits, MaxInbox} \subseteq Nat

VARIABLES
    main,       \* where the main thread is
    runtime,    \* where the runtime's thread is
    up,         \* the other threads that run
    loop,       \* user events of the tray's event loop
    forward,    \* UI commands the forwarder has not taken
    notice,     \* whether a notification is displayed
    told,       \* Shutdown events in the channels of tray and backend
    request,    \* the runtime's command to the worker: "none", "sent", "answered"
    wakes,      \* wakes the node has not forwarded
    inbox,      \* what the worker has not taken
    waiting,    \* the worker waits in receive
    flag,       \* the worker's shutdown flag,
    signal,     \* discovery's shutdown signal
    stopped,    \* and the node's
    listening,  \* whether the listener accepts peers and the node holds its discovery
    step,       \* how far SyncTransport::shutdown is
    counts      \* of the bounded actions

transport == <<wakes, inbox, waiting, flag, signal, stopped, listening, step>>
processVars == <<main, runtime, up, loop, forward, notice, told, request, transport, counts>>

ProcessInit ==
    /\ main = "Transport" /\ runtime = "none" /\ up = {}
    /\ loop = <<"Init">> /\ forward = <<>> /\ notice = FALSE
    /\ told = [tray |-> 0, backend |-> 0] /\ request = "none"
    /\ wakes = 0 /\ inbox = <<>> /\ waiting = FALSE
    /\ flag = FALSE /\ signal = FALSE /\ stopped = FALSE /\ listening = FALSE /\ step = 0
    /\ counts = [notices |-> 0, requests |-> 0, quits |-> 0]

Alive == main \notin {"Exited", "Aborted"}

-----------------------------------------------------------------------------
(* The main thread starts the others; what has been started is dropped when *)
(* a later start fails.                                                     *)

\* start_internal: without sync, with it, or not at all; a node that listens is
\* stopped when discovery does not start.
StartTransport ==
    /\ main = "Transport"
    /\ \/ main' = "Backend" /\ UNCHANGED <<up, listening>>
       \/ /\ main' = "Backend" /\ listening' = TRUE
          /\ up' = {"node", "worker", "discovery"}
       \/ main' = "Exited" /\ UNCHANGED <<up, listening>>
    /\ UNCHANGED <<runtime, loop, forward, notice, told, request, wakes, inbox, waiting,
                   flag, signal, stopped, step, counts>>

\* BackendActor::spawn waits for connect; a thread that cannot is joined.
StartBackend ==
    /\ main = "Backend"
    /\ \/ main' = "Runtime" /\ up' = up \cup {"backend"}
       \/ main' = "Unwind" /\ UNCHANGED up
    /\ UNCHANGED <<runtime, loop, forward, notice, told, request, transport, counts>>

\* run_with_ui: a closure that is not started is dropped with all it captured.
StartRuntime ==
    /\ main = "Runtime"
    /\ \/ main' = "Forwarder" /\ runtime' = "Loop"
       \/ main' = "Unwind" /\ UNCHANGED runtime
    /\ UNCHANGED <<up, loop, forward, notice, told, request, transport, counts>>

\* Without a forwarder the runtime's thread is detached, and the process exits.
StartForwarder ==
    /\ main = "Forwarder"
    /\ \/ main' = "Loop" /\ up' = up \cup {"forwarder"}
       \/ main' = "Aborted" /\ UNCHANGED up
    /\ UNCHANGED <<runtime, loop, forward, notice, told, request, transport, counts>>

-----------------------------------------------------------------------------
(* The event loop of the tray *)

NextOf(event) == main = "Loop" /\ loop # <<>> /\ Head(loop) = event /\ loop' = Tail(loop)

\* The first event: a tray that cannot be built ends the runtime.
Initialize ==
    /\ NextOf("Init")
    /\ \/ UNCHANGED <<main, told>>
       \/ main' = "Join" /\ told' = [told EXCEPT !.tray = @ + 1]
    /\ UNCHANGED <<runtime, up, forward, notice, request, transport, counts>>

HandleMenu ==
    /\ NextOf("Quit")
    /\ told' = [told EXCEPT !.tray = @ + 1]
    /\ UNCHANGED <<main, runtime, up, forward, notice, request, transport, counts>>

HandleCommand ==
    /\ NextOf("Show") \/ NextOf("Clear")
    /\ notice' = (Head(loop) = "Show")
    /\ UNCHANGED <<main, runtime, up, forward, told, request, transport, counts>>

\* Commands that are still in the forwarder are not handled any more: the event
\* loop blocks until the runtime has ended, and then exits.
HandleStopped_KeepsNotice ==
    /\ NextOf("RuntimeStopped")
    /\ main' = "Join"
    /\ UNCHANGED <<notice, runtime, up, forward, told, request, transport, counts>>
HandleStopped ==
    /\ NextOf("RuntimeStopped")
    /\ notice' = FALSE
    /\ main' = "Join"
    /\ UNCHANGED <<runtime, up, forward, told, request, transport, counts>>

JoinRuntime ==
    /\ main = "Join" /\ runtime = "ended"
    /\ main' = "Exited"
    /\ UNCHANGED <<runtime, up, loop, forward, notice, told, request, transport, counts>>

ClickQuit ==
    /\ main = "Loop" /\ counts.quits < MaxQuits
    /\ loop' = Append(loop, "Quit")
    /\ counts' = [counts EXCEPT !.quits = @ + 1]
    /\ UNCHANGED <<main, runtime, up, forward, notice, told, request, transport>>

\* The forwarder ends when the runtime's end of the channel is gone.
Forward ==
    /\ Alive /\ "forwarder" \in up
    /\ \/ /\ forward # <<>>
          /\ loop' = Append(loop, Head(forward))
          /\ forward' = Tail(forward)
          /\ UNCHANGED up
       \/ /\ forward = <<>> /\ runtime \in {"DropTransport", "ended"}
          /\ up' = up \ {"forwarder"}
          /\ UNCHANGED <<loop, forward>>
    /\ UNCHANGED <<main, runtime, notice, told, request, transport, counts>>

-----------------------------------------------------------------------------
(* The runtime *)

\* Shutdown, from either channel, clears the notification; a backend channel that
\* is closed ends the loop as it is.
TakeShutdown ==
    /\ Alive /\ runtime = "Loop"
    /\ \/ /\ \E c \in DOMAIN told : told[c] > 0 /\ told' = [told EXCEPT ![c] = @ - 1]
          /\ forward' = Append(forward, "Clear")
       \/ /\ "backend" \notin up /\ told.backend = 0
          /\ UNCHANGED <<told, forward>>
    /\ runtime' = "DropBackend"
    /\ UNCHANGED <<main, up, loop, notice, request, transport, counts>>

Notify(command) ==
    /\ Alive /\ runtime = "Loop" /\ counts.notices < MaxNotices
    /\ forward' = Append(forward, command)
    /\ counts' = [counts EXCEPT !.notices = @ + 1]
    /\ UNCHANGED <<main, runtime, up, loop, notice, told, request, transport>>

\* broadcast_event, send_event: the command, the wake, and the wait for the reply,
\* which also ends when the worker, and the command with it, is gone.
SendRequest ==
    /\ Alive /\ runtime = "Loop" /\ "worker" \in up /\ counts.requests < MaxRequests
    /\ runtime' = "Wake" /\ request' = "sent"
    /\ counts' = [counts EXCEPT !.requests = @ + 1]
    /\ UNCHANGED <<main, up, loop, forward, notice, told, transport>>

WakeWorker ==
    /\ Alive /\ runtime = "Wake"
    /\ runtime' = "Await" /\ wakes' = wakes + 1
    /\ UNCHANGED <<main, up, loop, forward, notice, told, request, inbox, waiting, flag,
                   signal, stopped, listening, step, counts>>

TakeReply ==
    /\ Alive /\ runtime = "Await" /\ (request = "answered" \/ "worker" \notin up)
    /\ runtime' = "Loop" /\ request' = "none"
    /\ UNCHANGED <<main, up, loop, forward, notice, told, transport, counts>>

\* run_with_event_sources has dropped the runtime, its backend and its ends of the
\* channels; what the closure captured is dropped after runtime_stopped.
JoinBackend ==
    /\ Alive /\ runtime = "DropBackend" /\ "backend" \notin up
    /\ runtime' = "DropTransport"
    /\ loop' = Append(loop, "RuntimeStopped")
    /\ UNCHANGED <<main, up, forward, notice, told, request, transport, counts>>

\* The backend: a sample fails, or its command channel is closed.
BackendFails ==
    /\ Alive /\ "backend" \in up
    /\ up' = up \ {"backend"}
    /\ told' = [told EXCEPT !.backend = @ + 1]
    /\ UNCHANGED <<main, runtime, loop, forward, notice, request, transport, counts>>

BackendEnds ==
    /\ Alive /\ "backend" \in up
    /\ main = "Unwind" \/ runtime = "DropBackend"
    /\ up' = up \ {"backend"}
    /\ UNCHANGED <<main, runtime, loop, forward, notice, told, request, transport, counts>>

-----------------------------------------------------------------------------
(* The transport *)

\* SyncTransport::shutdown, in the thread that drops the transport.
ShutdownSteps_WakeFirst ==
    <<"Wake", "Flag", "Signal", "RemoveListener", "JoinDiscovery", "JoinWorker", "Stop", "Wait">>
ShutdownSteps ==
    <<"Flag", "Wake", "Signal", "RemoveListener", "JoinDiscovery", "JoinWorker", "Stop", "Wait">>

Dropping == main = "Unwind" \/ runtime = "DropTransport"
Down == up \cap {"node", "worker", "discovery"} = {}

Shutdown ==
    /\ Alive /\ Dropping /\ ~(step = 0 /\ Down) /\ step < Len(ShutdownSteps)
    /\ LET s == ShutdownSteps[step + 1]
       IN  /\ s = "JoinDiscovery" => "discovery" \notin up
           /\ s = "JoinWorker" => "worker" \notin up
           /\ s = "Wait" => "node" \notin up
           /\ flag' = (flag \/ s = "Flag")
           /\ wakes' = IF s = "Wake" THEN wakes + 1 ELSE wakes
           /\ signal' = (signal \/ s = "Signal")
           /\ listening' = (listening /\ s # "RemoveListener")
           /\ stopped' = (stopped \/ s = "Stop")
    /\ step' = step + 1
    /\ UNCHANGED <<main, runtime, up, loop, forward, notice, told, request, inbox, waiting,
                   counts>>

Dropped == Down /\ step \in {0, Len(ShutdownSteps)}

EndRuntime ==
    /\ Alive /\ runtime = "DropTransport" /\ Dropped
    /\ runtime' = "ended"
    /\ UNCHANGED <<main, up, loop, forward, notice, told, request, transport, counts>>

EndUnwinding ==
    /\ main = "Unwind" /\ Dropped /\ "backend" \notin up
    /\ main' = "Exited"
    /\ UNCHANGED <<runtime, up, loop, forward, notice, told, request, transport, counts>>

\* LanDiscovery is dropped with its thread, when told or when mdns-sd is gone.
DiscoveryEnds ==
    /\ Alive /\ "discovery" \in up
    /\ up' = up \ {"discovery"}
    /\ UNCHANGED <<main, runtime, loop, forward, notice, told, request, transport, counts>>
DiscoveryTold == signal /\ DiscoveryEnds

\* The node hands on wakes and, bounded here, network events, until it is stopped.
Node ==
    /\ Alive /\ "node" \in up
    /\ \/ /\ ~stopped /\ wakes > 0
          /\ wakes' = wakes - 1 /\ inbox' = Append(inbox, "Wake")
          /\ UNCHANGED up
       \/ stopped /\ up' = up \ {"node"} /\ UNCHANGED <<wakes, inbox>>
    /\ UNCHANGED <<main, runtime, loop, forward, notice, told, request, waiting, flag,
                   signal, stopped, listening, step, counts>>

NetworkEvent ==
    /\ Alive /\ "node" \in up /\ ~stopped /\ Len(inbox) < MaxInbox
    /\ inbox' = Append(inbox, "Network")
    /\ UNCHANGED <<main, runtime, up, loop, forward, notice, told, request, wakes, waiting,
                   flag, signal, stopped, listening, step, counts>>

\* The worker's loop: the condition, then a blocking receive.
WorkerChecks ==
    /\ Alive /\ "worker" \in up /\ ~waiting
    /\ IF flag \/ stopped THEN up' = up \ {"worker"} /\ UNCHANGED waiting
       ELSE waiting' = TRUE /\ UNCHANGED up
    /\ UNCHANGED <<main, runtime, loop, forward, notice, told, request, wakes, inbox, flag,
                   signal, stopped, listening, step, counts>>

WorkerReceives ==
    /\ Alive /\ "worker" \in up /\ waiting /\ inbox # <<>>
    /\ inbox' = Tail(inbox) /\ waiting' = FALSE
    /\ request' = IF Head(inbox) = "Wake" /\ request = "sent" THEN "answered" ELSE request
    /\ UNCHANGED <<main, runtime, up, loop, forward, notice, told, wakes, flag, signal,
                   stopped, listening, step, counts>>

-----------------------------------------------------------------------------

Main ==
    \/ StartTransport \/ StartBackend \/ StartRuntime \/ StartForwarder
    \/ Initialize \/ HandleMenu \/ HandleCommand \/ HandleStopped \/ JoinRuntime
    \/ EndUnwinding

Runtime ==
    \/ TakeShutdown
    \/ \E c \in {"Show", "Clear"} : Notify(c)
    \/ SendRequest \/ WakeWorker \/ TakeReply
    \/ JoinBackend \/ EndRuntime

Worker == WorkerChecks \/ WorkerReceives

ProcessNext ==
    \/ Main \/ Runtime \/ Worker \/ Forward \/ Shutdown \/ Node
    \/ BackendEnds \/ DiscoveryTold
    \/ ClickQuit \/ BackendFails \/ DiscoveryEnds \/ NetworkEvent

\* Every thread runs on while it can.  Nothing is assumed of the user, of the
\* network, or of a backend and an mDNS daemon that are not told to end.
ProcessFairness ==
    /\ WF_processVars(Main) /\ WF_processVars(Runtime) /\ WF_processVars(Worker)
    /\ WF_processVars(Forward) /\ WF_processVars(Shutdown) /\ WF_processVars(Node)
    /\ WF_processVars(BackendEnds) /\ WF_processVars(DiscoveryTold)

ProcessSpec == ProcessInit /\ [][ProcessNext]_processVars /\ ProcessFairness

-----------------------------------------------------------------------------

(***************************************************************************)
(* A daemon that is told to stop - by the tray, by a backend that fails, or *)
(* by a start that fails - exits, wherever its threads are: no join waits  *)
(* for a thread that waits itself, and no wake of the worker is lost.      *)
(***************************************************************************)
Told == told.tray + told.backend > 0 \/ main = "Unwind"
ProcessEnds == Told ~> ~Alive

(***************************************************************************)
(* What lasts beyond the process is gone when it exits: the notification,  *)
(* though the command that clears it may be overtaken by RuntimeStopped;   *)
(* the overlay, with the backend; the listener, with the transport's       *)
(* threads, and LanDiscovery, whose drop has then queued the goodbye of    *)
(* the advertised service, for a thread of mDNS nobody waits for.  (A      *)
(* process without a forwarder exits with its runtime's thread detached,   *)
(* and nothing else.)                                                      *)
(***************************************************************************)
CleanExit ==
    main = "Exited" => ~notice /\ ~listening /\ up \subseteq {"forwarder"}
=============================================================================
