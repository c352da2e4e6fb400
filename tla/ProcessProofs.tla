--------------------------- MODULE ProcessProofs ----------------------------
(***************************************************************************)
(* The two processes, the daemon's and the macOS helper's: that neither is *)
(* left behind by the other nor leaves anything behind, wherever its       *)
(* threads are when it is told to stop; and that the helper's heartbeat    *)
(* watchdog leaves a daemon alone that works, whatever the timeouts are,   *)
(* as long as the watchdog outlasts two answers that come as late as they  *)
(* may.                                                                    *)
(***************************************************************************)
EXTENDS DaemonProcess, MacOSHelper, SequenceTheorems, TLAPS

-----------------------------------------------------------------------------
(* The daemon's process, however long its queues are                       *)

Commands == {"Show", "Clear"}
LoopEvents == Commands \cup {"Init", "Quit", "RuntimeStopped"}
Starting == {"Transport", "Backend"}

\* What the threads' order of starting and joining comes to: a notification is
\* shown by the tray's event loop only, after its first event and until its last;
\* the listener outlives neither shutdown's fourth step nor a worker that has not
\* been told to stop; and a runtime that has dropped its backend has joined it.
Orderly ==
    /\ loop \in Seq(LoopEvents) /\ forward \in Seq(Commands)
    /\ step \in 0..Len(ShutdownSteps)
    /\ up \subseteq {"node", "worker", "discovery", "backend", "forwarder"}
    /\ notice => main \in {"Loop", "Aborted"}
    /\ \A i \in DOMAIN loop : loop[i] = "Init" => i = 1 /\ ~notice
    /\ main \in Starting => step = 0 /\ ~flag
    /\ main = "Transport" => up = {} /\ ~listening
    /\ main \in Starting \cup {"Runtime"} => runtime = "none"
    /\ flag => step >= 1
    /\ stopped => step >= 7
    /\ listening => step < 4 /\ ("worker" \in up \/ flag)
    /\ runtime \in {"DropTransport", "ended"} => "backend" \notin up
    /\ runtime = "ended" => Down /\ ~listening
    /\ CleanExit

LEMMA Steps ==
    /\ Len(ShutdownSteps) = 8
    /\ ShutdownSteps[1] = "Flag" /\ ShutdownSteps[2] = "Wake" /\ ShutdownSteps[3] = "Signal"
    /\ ShutdownSteps[4] = "RemoveListener" /\ ShutdownSteps[5] = "JoinDiscovery"
    /\ ShutdownSteps[6] = "JoinWorker" /\ ShutdownSteps[7] = "Stop" /\ ShutdownSteps[8] = "Wait"
BY DEF ShutdownSteps

\* With the transport dropped, its threads are gone and nobody is listened to.
LEMMA DroppedIsDown ==
    ASSUME Orderly, Dropped
    PROVE  Down /\ ~listening
<1>1. CASE step = 0
  <2>1. "worker" \notin up
    BY DEF Dropped, Down
  <2>2. ~flag
    BY <1>1 DEF Orderly
  <2>3. QED
    BY <2>1, <2>2 DEF Orderly, Dropped
<1>2. CASE step = Len(ShutdownSteps)
  BY <1>2, Steps DEF Orderly, Dropped
<1>3. QED
  BY <1>1, <1>2 DEF Dropped

\* What the event loop takes from its queue leaves no first event behind.
LEMMA Taken ==
    ASSUME NEW S, NEW q \in Seq(S), q # <<>>
    PROVE  /\ Tail(q) \in Seq(S) /\ Head(q) = q[1] /\ Head(q) \in S /\ 1 \in DOMAIN q
           /\ \A i \in DOMAIN Tail(q) : i + 1 \in DOMAIN q /\ i + 1 # 1 /\ Tail(q)[i] = q[i + 1]
<1>1. Len(q) \in Nat \ {0} /\ DOMAIN q = 1 .. Len(q) /\ Head(q) = q[1] /\ Head(q) \in S
  BY EmptySeq, HeadTailProperties
<1>2. /\ Tail(q) \in Seq(S) /\ Len(Tail(q)) = Len(q) - 1
      /\ \A i \in 1 .. Len(Tail(q)) : Tail(q)[i] = q[i + 1]
  BY HeadTailProperties
<1>3. DOMAIN Tail(q) = 1 .. (Len(q) - 1)
  BY <1>2
<1>4. QED
  BY <1>1, <1>2, <1>3

LEMMA Put ==
    ASSUME NEW S, NEW q \in Seq(S), NEW e \in S
    PROVE  /\ Append(q, e) \in Seq(S)
           /\ \A i \in DOMAIN Append(q, e) :
                  (i \in DOMAIN q /\ Append(q, e)[i] = q[i]) \/ Append(q, e)[i] = e
<1>1. /\ Append(q, e) \in Seq(S) /\ Len(Append(q, e)) = Len(q) + 1 /\ Len(q) \in Nat
      /\ \A i \in 1 .. Len(q) : Append(q, e)[i] = q[i]
      /\ Append(q, e)[Len(q) + 1] = e
  BY AppendProperties
<1>2. DOMAIN Append(q, e) = 1 .. (Len(q) + 1) /\ DOMAIN q = 1 .. Len(q)
  BY <1>1
<1>3. QED
  BY <1>1, <1>2

\* The start, and the ways it fails.
LEMMA StartOrderly ==
    ASSUME Orderly, StartTransport \/ StartBackend \/ StartRuntime \/ StartForwarder
    PROVE  Orderly'
<1>1. /\ loop' = loop /\ forward' = forward /\ notice' = notice
      /\ flag' = flag /\ stopped' = stopped /\ step' = step /\ ~notice
      /\ main \in {"Transport", "Backend", "Runtime", "Forwarder"}
  BY DEF StartTransport, StartBackend, StartRuntime, StartForwarder, transport, Orderly
<1>2. CASE StartTransport
  <2>1. /\ main = "Transport" /\ runtime' = runtime
        /\ \/ main' = "Backend" /\ up' = up /\ listening' = listening
           \/ main' = "Backend" /\ listening' = TRUE /\ up' = {"node", "worker", "discovery"}
           \/ main' = "Exited" /\ up' = up /\ listening' = listening
    BY <1>2 DEF StartTransport
  <2>2. up = {} /\ ~listening /\ step = 0 /\ ~flag /\ runtime = "none"
    BY <2>1 DEF Orderly, Starting
  <2>3. QED
    BY <1>1, <2>1, <2>2 DEF Orderly, Starting, CleanExit
<1>3. CASE StartBackend
  <2>1. /\ main = "Backend" /\ runtime' = runtime /\ listening' = listening
        /\ \/ main' = "Runtime" /\ up' = up \cup {"backend"}
           \/ main' = "Unwind" /\ up' = up
    BY <1>3 DEF StartBackend, transport
  <2>2. step = 0 /\ ~flag /\ runtime = "none"
    BY <2>1 DEF Orderly, Starting
  <2>3. QED
    BY <1>1, <2>1, <2>2 DEF Orderly, Starting, CleanExit
<1>4. CASE StartRuntime
  <2>1. /\ main = "Runtime" /\ up' = up /\ listening' = listening
        /\ \/ main' = "Forwarder" /\ runtime' = "Loop"
           \/ main' = "Unwind" /\ runtime' = runtime
    BY <1>4 DEF StartRuntime, transport
  <2>2. runtime = "none"
    BY <2>1 DEF Orderly
  <2>3. QED
    BY <1>1, <2>1, <2>2 DEF Orderly, Starting, CleanExit
<1>5. CASE StartForwarder
  <2>1. /\ main = "Forwarder" /\ runtime' = runtime /\ listening' = listening
        /\ \/ main' = "Loop" /\ up' = up \cup {"forwarder"}
           \/ main' = "Aborted" /\ up' = up
    BY <1>5 DEF StartForwarder, transport
  <2>2. QED
    BY <1>1, <2>1 DEF Orderly, Starting, CleanExit, Down
<1>6. QED
  BY <1>2, <1>3, <1>4, <1>5

\* A step that only changes what the event loop has to handle, or the notification.
LEMMA LoopOrderly ==
    ASSUME Orderly, loop' \in Seq(LoopEvents), forward' \in Seq(Commands),
           notice' => main' \in {"Loop", "Aborted"},
           \A i \in DOMAIN loop' : loop'[i] = "Init" => i = 1 /\ ~notice',
           main' = main \/ (main = "Loop" /\ main' = "Join"),
           UNCHANGED <<runtime, up, flag, stopped, listening, step>>
    PROVE  Orderly'
BY DEF Orderly, Starting, CleanExit, Down

\* The event loop of the tray.
LEMMA TrayOrderly ==
    ASSUME Orderly, Initialize \/ HandleMenu \/ HandleCommand \/ HandleStopped
    PROVE  Orderly'
<1>1. /\ loop # <<>> /\ loop' = Tail(loop) /\ main = "Loop"
      /\ main' = main \/ main' = "Join"
      /\ UNCHANGED <<runtime, up, flag, stopped, listening, step, forward>>
  BY DEF Initialize, HandleMenu, HandleCommand, HandleStopped, NextOf, transport
<1>2. loop \in Seq(LoopEvents)
  BY DEF Orderly
<1>3. /\ loop' \in Seq(LoopEvents) /\ Head(loop) = loop[1] /\ 1 \in DOMAIN loop
      /\ \A i \in DOMAIN loop' : i + 1 \in DOMAIN loop /\ i + 1 # 1 /\ loop'[i] = loop[i + 1]
  BY <1>1, <1>2, Taken
<1>4. \A i \in DOMAIN loop' : loop'[i] # "Init"
  BY <1>3 DEF Orderly
<1>5. notice' => main' = "Loop"
  <2>1. CASE Initialize
    <3>1. ~notice /\ notice' = notice
      BY <1>3, <2>1 DEF Initialize, NextOf, Orderly
    <3>2. QED
      BY <3>1
  <2>2. CASE HandleMenu \/ HandleCommand
    BY <1>1, <2>2 DEF HandleMenu, HandleCommand
  <2>3. CASE HandleStopped
    BY <2>3 DEF HandleStopped
  <2>4. QED
    BY <2>1, <2>2, <2>3
<1>6. forward' \in Seq(Commands)
  BY <1>1 DEF Orderly
<1>7. QED
  BY <1>1, <1>3, <1>4, <1>5, <1>6, LoopOrderly

\* The ends of the process.
LEMMA ExitOrderly ==
    ASSUME Orderly, JoinRuntime \/ EndUnwinding
    PROVE  Orderly'
<1>1. /\ main' = "Exited" /\ main \in {"Join", "Unwind"}
      /\ UNCHANGED <<runtime, up, loop, forward, notice, flag, stopped, listening, step>>
  BY DEF JoinRuntime, EndUnwinding, transport
<1>2. "backend" \notin up /\ Down /\ ~listening
  BY DroppedIsDown DEF JoinRuntime, EndUnwinding, Orderly
<1>3. ~notice /\ up \subseteq {"forwarder"}
  BY <1>1, <1>2 DEF Orderly, Down
<1>4. QED
  BY <1>1, <1>2, <1>3 DEF Orderly, CleanExit, Starting, Down

\* Clicks, and the forwarder.
LEMMA ForwardOrderly ==
    ASSUME Orderly, ClickQuit \/ Forward
    PROVE  Orderly'
<1>1. loop \in Seq(LoopEvents) /\ forward \in Seq(Commands)
  BY DEF Orderly
<1>2. CASE ClickQuit
  <2>1. loop' = Append(loop, "Quit") /\ "Quit" \in LoopEvents
        /\ UNCHANGED <<main, runtime, up, forward, notice, flag, stopped, listening, step>>
    BY <1>2 DEF ClickQuit, LoopEvents, transport
  <2>2. /\ loop' \in Seq(LoopEvents)
        /\ \A i \in DOMAIN loop' : (i \in DOMAIN loop /\ loop'[i] = loop[i]) \/ loop'[i] = "Quit"
    BY <1>1, <2>1, Put
  <2>3. QED
    BY <2>1, <2>2, LoopOrderly DEF Orderly
<1>3. CASE Forward
  <2>1. CASE forward # <<>> /\ loop' = Append(loop, Head(forward)) /\ forward' = Tail(forward)
             /\ UNCHANGED up
    <3>1. Head(forward) \in Commands /\ Tail(forward) \in Seq(Commands)
      BY <1>1, <2>1, Taken
    <3>2. PICK e : e = Head(forward)
      OBVIOUS
    <3>3. e \in LoopEvents /\ e # "Init" /\ loop' = Append(loop, e)
      BY <2>1, <3>1, <3>2 DEF LoopEvents, Commands
    <3>4. /\ loop' \in Seq(LoopEvents)
          /\ \A i \in DOMAIN loop' : (i \in DOMAIN loop /\ loop'[i] = loop[i]) \/ loop'[i] = e
      BY <1>1, <3>3, Put
    <3>5. UNCHANGED <<main, runtime, notice, flag, stopped, listening, step>>
      BY <1>3 DEF Forward, transport
    <3>6. QED
      BY <2>1, <3>1, <3>3, <3>4, <3>5, LoopOrderly DEF Orderly
  <2>2. CASE up' = up \ {"forwarder"} /\ UNCHANGED <<loop, forward>>
    <3>1. UNCHANGED <<main, runtime, notice, flag, stopped, listening, step>>
      BY <1>3 DEF Forward, transport
    <3>2. QED
      BY <1>3, <2>2, <3>1 DEF Orderly, Starting, CleanExit, Down
  <2>3. QED
    BY <1>3, <2>1, <2>2 DEF Forward
<1>4. QED
  BY <1>2, <1>3

\* The runtime.
LEMMA RuntimeOrderly ==
    ASSUME Orderly, Runtime
    PROVE  Orderly'
<1>1. loop \in Seq(LoopEvents) /\ forward \in Seq(Commands)
  BY DEF Orderly
<1>2. CASE TakeShutdown \/ \E c \in Commands : Notify(c)
  <2>1. /\ forward' = forward \/ \E c \in Commands : forward' = Append(forward, c)
        /\ runtime = "Loop" /\ runtime' \in {"Loop", "DropBackend"} /\ Alive
        /\ UNCHANGED <<main, up, loop, notice, flag, stopped, listening, step>>
    BY <1>2 DEF TakeShutdown, Notify, Commands, transport
  <2>2. forward' \in Seq(Commands)
    BY <1>1, <2>1, Put
  <2>3. QED
    BY <2>1, <2>2 DEF Orderly, Starting, CleanExit, Down
<1>3. CASE SendRequest \/ WakeWorker \/ TakeReply
  <2>1. /\ runtime \in {"Loop", "Wake", "Await"} /\ runtime' \in {"Loop", "Wake", "Await"}
        /\ UNCHANGED <<main, up, loop, forward, notice, flag, stopped, listening, step>>
    BY <1>3 DEF SendRequest, WakeWorker, TakeReply, transport
  <2>2. QED
    BY <2>1 DEF Orderly, Starting, CleanExit, Down
<1>4. CASE JoinBackend
  <2>1. loop' = Append(loop, "RuntimeStopped") /\ "RuntimeStopped" \in LoopEvents
        /\ runtime = "DropBackend" /\ runtime' = "DropTransport" /\ "backend" \notin up
        /\ UNCHANGED <<main, up, forward, notice, flag, stopped, listening, step>>
    BY <1>4 DEF JoinBackend, LoopEvents, transport
  <2>2. /\ loop' \in Seq(LoopEvents)
        /\ \A i \in DOMAIN loop' :
               (i \in DOMAIN loop /\ loop'[i] = loop[i]) \/ loop'[i] = "RuntimeStopped"
    BY <1>1, <2>1, Put
  <2>3. \A i \in DOMAIN loop' : loop'[i] = "Init" => i = 1 /\ ~notice'
    BY <2>1, <2>2 DEF Orderly
  <2>4. QED
    BY <2>1, <2>2, <2>3 DEF Orderly, Starting, CleanExit, Down
<1>5. CASE EndRuntime
  <2>1. Down /\ ~listening
    BY <1>5, DroppedIsDown DEF EndRuntime
  <2>2. /\ runtime = "DropTransport" /\ runtime' = "ended"
        /\ UNCHANGED <<main, up, loop, forward, notice, flag, stopped, listening, step>>
    BY <1>5 DEF EndRuntime, transport
  <2>3. QED
    BY <2>1, <2>2 DEF Orderly, Starting, CleanExit, Down
<1>6. QED
  BY <1>2, <1>3, <1>4, <1>5 DEF Runtime, Commands

\* A thread that ends while the process lives leaves nothing in disorder, unless it
\* is the worker, who has to be told.
LEMMA EndOrderly ==
    ASSUME Orderly, NEW t \in {"backend", "discovery", "node"}, up' = up \ {t},
           UNCHANGED <<main, runtime, loop, forward, notice, flag, stopped, listening, step>>
    PROVE  Orderly'
BY DEF Orderly, Starting, CleanExit, Down

\* The backend and the transport's threads.
LEMMA ThreadsOrderly ==
    ASSUME Orderly, BackendFails \/ BackendEnds \/ DiscoveryEnds \/ Node \/ NetworkEvent \/ Worker
    PROVE  Orderly'
<1>1. UNCHANGED <<main, runtime, loop, forward, notice, flag, stopped, listening, step>>
  BY DEF BackendFails, BackendEnds, DiscoveryEnds, Node, NetworkEvent, Worker, WorkerChecks,
         WorkerReceives, transport
<1>2. \/ up' = up \/ \E t \in {"backend", "discovery", "node"} : up' = up \ {t}
      \/ up' = up \ {"worker"} /\ (flag \/ stopped)
  BY DEF BackendFails, BackendEnds, DiscoveryEnds, Node, NetworkEvent, Worker, WorkerChecks,
         WorkerReceives
<1>3. CASE up' = up
  BY <1>1, <1>3 DEF Orderly, Starting, CleanExit, Down
<1>4. CASE \E t \in {"backend", "discovery", "node"} : up' = up \ {t}
  BY <1>1, <1>4, EndOrderly
<1>5. CASE up' = up \ {"worker"} /\ (flag \/ stopped)
  BY <1>1, <1>5, Steps DEF Orderly, Starting, CleanExit, Down
<1>6. QED
  BY <1>2, <1>3, <1>4, <1>5

\* The steps of the transport's shutdown.
LEMMA ShutdownOrderly ==
    ASSUME Orderly, Shutdown
    PROVE  Orderly'
<1>1. PICK s : /\ s = ShutdownSteps[step + 1]
               /\ flag' = (flag \/ s = "Flag")
               /\ listening' = (listening /\ s # "RemoveListener")
               /\ stopped' = (stopped \/ s = "Stop")
  BY DEF Shutdown
<1>2. /\ step' = step + 1 /\ step < 8 /\ step \in 0..8
      /\ UNCHANGED <<main, runtime, up, loop, forward, notice>>
      /\ main = "Unwind" \/ runtime = "DropTransport"
  BY Steps DEF Shutdown, Dropping, Orderly
<1>3. /\ step = 0 <=> s = "Flag"
      /\ step = 3 <=> s = "RemoveListener"
      /\ step = 6 <=> s = "Stop"
  <2>1. step \in {0, 1, 2, 3, 4, 5, 6, 7}
    BY <1>2
  <2>2. QED
    BY <1>1, <2>1, Steps
<1>4. /\ flag' => step' >= 1
      /\ stopped' => step' >= 7
      /\ listening' => step' < 4 /\ ("worker" \in up' \/ flag')
  <2>1. /\ flag => step >= 1
        /\ stopped => step >= 7
        /\ listening => step < 4 /\ ("worker" \in up \/ flag)
    BY DEF Orderly
  <2>2. flag' => step' >= 1
    BY <1>2
  <2>3. stopped' => stopped \/ step = 6
    BY <1>1, <1>3
  <2>4. listening' => listening /\ step # 3
    BY <1>1, <1>3
  <2>5. flag => flag'
    BY <1>1
  <2>6. QED
    BY <1>2, <2>1, <2>2, <2>3, <2>4, <2>5
<1>5. listening' => listening
  BY <1>1
<1>6. main \notin Starting /\ main # "Exited" /\ main \notin Starting \cup {"Runtime"}
  BY <1>2 DEF Shutdown, Alive, Orderly, Starting
<1>7. QED
  BY <1>2, <1>4, <1>5, <1>6, Steps DEF Orderly, CleanExit, Down

LEMMA ProcessOrderly == ProcessSpec => []Orderly
<1>1. ProcessInit => Orderly
  <2> SUFFICES ASSUME ProcessInit PROVE Orderly
    OBVIOUS
  <2>1. loop = <<"Init">> /\ forward = <<>>
    BY DEF ProcessInit
  <2>2. /\ loop \in Seq(LoopEvents) /\ forward \in Seq(Commands)
        /\ \A i \in DOMAIN loop : i = 1
    <3>1. <<>> \in Seq(Commands)
      BY EmptySeq
    <3>2. "Init" \in LoopEvents
      BY DEF LoopEvents
    <3>3. QED
      BY <2>1, <3>1, <3>2
  <2>3. QED
    BY <2>2, Steps DEF ProcessInit, Orderly, Starting, CleanExit
<1>2. Orderly /\ [ProcessNext]_processVars => Orderly'
  <2> SUFFICES ASSUME Orderly, [ProcessNext]_processVars PROVE Orderly'
    OBVIOUS
  <2>1. CASE Main
    BY <2>1, StartOrderly, TrayOrderly, ExitOrderly DEF Main
  <2>2. CASE ClickQuit \/ Forward
    BY <2>2, ForwardOrderly
  <2>3. CASE Worker \/ Node \/ BackendEnds \/ DiscoveryTold \/ BackendFails \/ DiscoveryEnds
             \/ NetworkEvent
    BY <2>3, ThreadsOrderly DEF DiscoveryTold
  <2>4. CASE UNCHANGED processVars
    BY <2>4 DEF processVars, transport, Orderly, Starting, CleanExit, Down
  <2>5. QED
    BY <2>1, <2>2, <2>3, <2>4, RuntimeOrderly, ShutdownOrderly DEF ProcessNext
<1>3. QED
  BY <1>1, <1>2, PTL DEF ProcessSpec

\* However a start fails or a stop is brought about, and whatever is queued at the
\* time, a process that exits has no notification on display, no listener and no
\* overlay left.
THEOREM NothingOutlivesTheProcess == ProcessSpec => []CleanExit
<1>1. Orderly => CleanExit
  BY DEF Orderly
<1>2. QED
  BY <1>1, ProcessOrderly, PTL

-----------------------------------------------------------------------------
(* The time the heartbeat watchdog still has                               *)

HelperFields == {"alive", "protocol", "main", "tap", "shown", "zero", "beat"}
BackendFields == {"at", "for", "expect", "waited", "stop"}

\* The last beat came at most n ticks ago.
Fresh(h, n) == \A t \in h.beat : t \in Nat /\ t >= HeartbeatTimeout - n
Unshown(h) == h.beat = {} /\ ~h.shown

\* Requests that beat, or take the overlay away; the handshake comes before any.
Handshake == {"hello", "preflight"}
Messages == {"start", "update", "zero", "finish", "clear", "poll"}
Replies == {"ready", "permissions", "permissions missing", "sample", "complete start",
            "complete update", "complete finish", "complete clear", "shutdown complete", "error"}

\* A helper that still runs hears of the backend b in time: within the tick when b
\* is idle and has polled, with one tick between two requests otherwise, and while
\* a request waits for an answer, it has waited for no more than ReadTimeout.
Resting(b, q, a, h, p) ==
    b.at = "idle" /\ q = <<>> /\ a = <<>> /\ Fresh(h, IF p THEN 0 ELSE 1)
Asking(b, q, a, h) ==
    /\ b.at = "asking" /\ a = <<>> /\ b.waited < ReadTimeout
    /\ \/ \E r \in Handshake : q = <<r>> /\ Unshown(h)
       \/ \E r \in Messages : q = <<r>> /\ Fresh(h, 1 + b.waited)
Answered(b, q, a, h) ==
    /\ b.at = "asking" /\ q = <<>> /\ Fresh(h, 0)
    /\ \E r \in Replies : a = <<r>> /\ (r = "ready" => Unshown(h))
Closed(b, q, a, h) ==
    \/ b.at = "closing" /\ q = <<"shutdown">> /\ a = <<>> /\ b.waited < ReadTimeout
         /\ Fresh(h, 1 + b.waited)
    \/ b.at = "closing" /\ q = <<>> /\ (\E r \in Replies : a = <<r>>) /\ h.beat = {}
    \/ b.at = "reaping" /\ q = <<>> /\ h.beat = {}
Heard(b, q, a, h, p) ==
    \/ Resting(b, q, a, h, p)
    \/ Asking(b, q, a, h)
    \/ Answered(b, q, a, h)
    \/ Closed(b, q, a, h)

\* The inductive invariant, for values and for the state: nothing is claimed of a
\* helper that is gone, or once something has failed.
Attends(b, q, a, h, F, W, p) ==
    /\ DOMAIN h = HelperFields /\ DOMAIN b = BackendFields /\ b.waited \in Nat
    /\ ~h.shown => h.beat = {}
    /\ b.at = "gone" => ~h.alive
    /\ F = {} => "beat" \notin W
    /\ F = {} /\ h.alive => Heard(b, q, a, h, p)
Attended == Attends(backend, requests, answers, helper, faults, fired, polled)

LEMMA AttendedNext ==
    ASSUME Attends(backend', requests', answers', helper', faults', fired', polled')
    PROVE  Attended'
BY DEF Attended, Attends, Heard, Resting, Asking, Answered, Closed, Fresh, Unshown

-----------------------------------------------------------------------------
(* What the backend does next                                              *)

\* Where the backend is says what is under way.
LEMMA WhereItIs ==
    ASSUME NEW b, NEW q, NEW a, NEW h, NEW F, NEW W, NEW p,
           Attends(b, q, a, h, F, W, p), F = {}, h.alive
    PROVE  /\ b.at = "idle" => Resting(b, q, a, h, p)
           /\ b.at = "asking" => Asking(b, q, a, h) \/ Answered(b, q, a, h)
           /\ b.at \in {"closing", "reaping"} => Closed(b, q, a, h)
           /\ b.at \in {"idle", "asking", "closing", "reaping"}
BY DEF Attends, Heard, Resting, Asking, Answered, Closed

\* Nothing is under way, and the helper has heard of the backend in this tick or in
\* the one before.
Free(q, a, h) == q = <<>> /\ a = <<>> /\ Fresh(h, 1)

LEMMA FreshLonger ==
    ASSUME NEW h, NEW n \in Nat, NEW k \in Nat, n <= k, Fresh(h, n)
    PROVE  Fresh(h, k)
BY TimeoutsAssumption DEF Fresh

LEMMA FreeAsks ==
    ASSUME NEW b, NEW q, NEW a, NEW h, NEW F, NEW W, NEW p,
           DOMAIN h = HelperFields, DOMAIN b = BackendFields,
           ~h.shown => h.beat = {}, F = {} => "beat" \notin W,
           F = {} /\ h.alive => Free(q, a, h),
           NEW r, r \in Messages \/ (r = "preflight" /\ (F = {} /\ h.alive => Unshown(h))),
           NEW for, NEW e
    PROVE  Attends([b EXCEPT !.at = "asking", !.for = for, !.expect = e, !.waited = 0],
                   Append(q, r), a, h, F, W, p)
<1> DEFINE c == [b EXCEPT !.at = "asking", !.for = for, !.expect = e, !.waited = 0]
<1>1. DOMAIN c = BackendFields /\ c.at = "asking" /\ c.waited = 0
  BY DEF BackendFields
<1> HIDE DEF c
<1>2. ASSUME F = {}, h.alive PROVE Asking(c, Append(q, r), a, h)
  <2>1. Append(q, r) = <<r>> /\ a = <<>>
    BY <1>2 DEF Free
  <2>2. Fresh(h, 1 + c.waited) /\ c.waited < ReadTimeout
    BY <1>1, <1>2, TimeoutsAssumption DEF Free
  <2>3. QED
    BY <1>1, <1>2, <2>1, <2>2 DEF Asking, Handshake
<1>3. Attends(c, Append(q, r), a, h, F, W, p)
  BY <1>1, <1>2 DEF Attends, Heard
<1>4. QED
  BY <1>3 DEF c

LEMMA FreeCloses ==
    ASSUME NEW q, NEW a, NEW h, NEW F, NEW W, NEW p,
           DOMAIN h = HelperFields,
           ~h.shown => h.beat = {}, F = {} => "beat" \notin W,
           F = {} /\ h.alive => Free(q, a, h)
    PROVE  /\ Attends([Nothing EXCEPT !.at = "closing", !.expect = "shutdown complete"],
                      Append(q, "shutdown"), a, h, F, W, p)
           /\ ~h.alive => Attends([Nothing EXCEPT !.at = "reaping"], q, a, h, F, W, p)
<1> DEFINE c == [Nothing EXCEPT !.at = "closing", !.expect = "shutdown complete"]
           g == [Nothing EXCEPT !.at = "reaping"]
<1>1. /\ DOMAIN c = BackendFields /\ c.at = "closing" /\ c.waited = 0
      /\ DOMAIN g = BackendFields /\ g.at = "reaping" /\ g.waited = 0
  BY DEF BackendFields, Nothing
<1> HIDE DEF c, g
<1>2. ASSUME F = {}, h.alive PROVE Closed(c, Append(q, "shutdown"), a, h)
  <2>1. Append(q, "shutdown") = <<"shutdown">> /\ a = <<>>
    BY <1>2 DEF Free
  <2>2. Fresh(h, 1 + c.waited) /\ c.waited < ReadTimeout
    BY <1>1, <1>2, TimeoutsAssumption DEF Free
  <2>3. QED
    BY <1>1, <2>1, <2>2 DEF Closed
<1>3. Attends(c, Append(q, "shutdown"), a, h, F, W, p)
  BY <1>1, <1>2 DEF Attends, Heard
<1>4. ~h.alive => Attends(g, q, a, h, F, W, p)
  BY <1>1 DEF Attends
<1>5. QED
  BY <1>3, <1>4 DEF c, g

\* An answer that was taken leaves a backend at rest, whatever else changed in it.
LEMMA AnswerRests ==
    ASSUME NEW c, DOMAIN c = BackendFields, c.at = "idle", c.waited \in Nat,
           NEW q, NEW a, NEW h, NEW F, NEW W, NEW p,
           DOMAIN h = HelperFields, ~h.shown => h.beat = {}, F = {} => "beat" \notin W,
           F = {} /\ h.alive => q = <<>> /\ a = <<>> /\ Fresh(h, 0)
    PROVE  Attends(c, q, a, h, F, W, p)
<1>1. Fresh(h, 0) => Fresh(h, IF p THEN 0 ELSE 1)
  BY TimeoutsAssumption DEF Fresh
<1>2. F = {} /\ h.alive => Resting(c, q, a, h, p)
  BY <1>1 DEF Resting
<1>3. QED
  BY <1>2 DEF Attends, Heard

LEMMA IdleIsFree ==
    ASSUME NEW b, NEW q, NEW a, NEW h, NEW F, NEW W, NEW p,
           Attends(b, q, a, h, F, W, p), b.at = "idle"
    PROVE  F = {} /\ h.alive => Free(q, a, h)
<1>1. SUFFICES ASSUME F = {}, h.alive PROVE Free(q, a, h)
  OBVIOUS
<1>2. Resting(b, q, a, h, p)
  BY <1>1, WhereItIs
<1>3. QED
  BY <1>2, TimeoutsAssumption DEF Resting, Free, Fresh

LEMMA AnsweredIsFree ==
    ASSUME NEW b, NEW q, NEW a, NEW h, NEW F, NEW W, NEW p,
           Attends(b, q, a, h, F, W, p), b.at = "asking", a # <<>>
    PROVE  F = {} /\ h.alive =>
              /\ Free(q, Tail(a), h) /\ Fresh(h, 0)
              /\ Head(a) = "ready" => Unshown(h)
<1>1. SUFFICES ASSUME F = {}, h.alive
               PROVE  /\ Free(q, Tail(a), h) /\ Fresh(h, 0)
                      /\ Head(a) = "ready" => Unshown(h)
  OBVIOUS
<1>2. Answered(b, q, a, h)
  BY <1>1, WhereItIs DEF Asking
<1>3. PICK r \in Replies : a = <<r>> /\ (r = "ready" => Unshown(h))
  BY <1>2 DEF Answered
<1>4. Head(a) = r /\ Tail(a) = <<>>
  BY <1>3
<1>5. q = <<>> /\ Fresh(h, 0)
  BY <1>2 DEF Answered
<1>6. Fresh(h, 1)
  BY <1>5, FreshLonger
<1>7. QED
  BY <1>3, <1>4, <1>5, <1>6 DEF Free

LEMMA PollAttended == Attended /\ Poll => Attended'
<1>1. SUFFICES ASSUME Attended, Poll PROVE Attended'
  OBVIOUS
<1>2. PICK b, q, a, h, F, W, p : /\ b = backend /\ q = requests /\ a = answers /\ h = helper
                                 /\ F = faults /\ W = fired /\ p = polled
  OBVIOUS
<1>3. Attends(b, q, a, h, F, W, p)
  BY <1>1, <1>2 DEF Attended
<1>4. /\ b.at = "idle" /\ polled' = TRUE
      /\ answers' = a /\ helper' = h /\ faults' = F /\ fired' = W
  BY <1>1, <1>2 DEF Poll
<1>5. F = {} /\ h.alive => Free(q, a, h)
  BY <1>3, <1>4, IdleIsFree
<1>6. DOMAIN h = HelperFields /\ DOMAIN b = BackendFields
      /\ (~h.shown => h.beat = {}) /\ (F = {} => "beat" \notin W)
  BY <1>3 DEF Attends
<1>7. CASE h.alive
  <2>1. /\ requests' = Append(q, "poll")
        /\ backend' = [b EXCEPT !.at = "asking", !.for = "sample",
                                !.expect = AnswerTo["poll"], !.waited = 0]
    BY <1>1, <1>2, <1>7 DEF Poll, Ask
  <2>2. Attends(backend', requests', a, h, F, W, TRUE)
    BY <1>5, <1>6, <2>1, FreeAsks DEF Messages
  <2>3. QED
    BY <1>4, <2>2, AttendedNext
<1>8. CASE ~h.alive
  <2>1. backend' = [Nothing EXCEPT !.at = "reaping"] /\ requests' = q
    BY <1>1, <1>2, <1>8 DEF Poll, Closing
  <2>2. Attends(backend', requests', a, h, F, W, TRUE)
    BY <1>5, <1>6, <1>8, <2>1, FreeCloses
  <2>3. QED
    BY <1>4, <2>2, AttendedNext
<1>9. QED
  BY <1>7, <1>8

LEMMA CommandAttended ==
    ASSUME NEW r \in Messages
    PROVE  Attended /\ Command(r) => Attended'
<1>1. SUFFICES ASSUME Attended, Command(r) PROVE Attended'
  OBVIOUS
<1>2. PICK b, q, a, h, F, W, p : /\ b = backend /\ q = requests /\ a = answers /\ h = helper
                                 /\ F = faults /\ W = fired /\ p = polled
  OBVIOUS
<1>3. Attends(b, q, a, h, F, W, p)
  BY <1>1, <1>2 DEF Attended
<1>4. /\ b.at = "idle" /\ polled' = p
      /\ answers' = a /\ helper' = h /\ faults' = F /\ fired' = W
  BY <1>1, <1>2 DEF Command
<1>5. F = {} /\ h.alive => Free(q, a, h)
  BY <1>3, <1>4, IdleIsFree
<1>6. DOMAIN h = HelperFields /\ DOMAIN b = BackendFields
      /\ (~h.shown => h.beat = {}) /\ (F = {} => "beat" \notin W)
  BY <1>3 DEF Attends
<1>7. CASE h.alive
  <2>1. /\ requests' = Append(q, r)
        /\ backend' = [b EXCEPT !.at = "asking", !.for = "command",
                                !.expect = AnswerTo[r], !.waited = 0]
    BY <1>1, <1>2, <1>7 DEF Command, Ask
  <2>2. Attends(backend', requests', a, h, F, W, p)
    BY <1>5, <1>6, <2>1, FreeAsks
  <2>3. QED
    BY <1>4, <2>2, AttendedNext
<1>8. CASE ~h.alive
  <2>1. backend' = [b EXCEPT !.stop = TRUE] /\ requests' = q
    BY <1>1, <1>2, <1>8 DEF Command
  <2>2. /\ DOMAIN backend' = BackendFields /\ backend'.at = "idle"
        /\ backend'.waited \in Nat
    BY <1>3, <1>4, <1>6, <2>1 DEF Attends, BackendFields
  <2>3. Attends(backend', requests', a, h, F, W, p)
    BY <1>6, <1>8, <2>1, <2>2 DEF Attends
  <2>4. QED
    BY <1>4, <2>3, AttendedNext
<1>9. QED
  BY <1>7, <1>8

LEMMA StopAttended == Attended /\ Stop => Attended'
<1>1. SUFFICES ASSUME Attended, Stop PROVE Attended'
  OBVIOUS
<1>2. PICK b, q, a, h, F, W, p : /\ b = backend /\ q = requests /\ a = answers /\ h = helper
                                 /\ F = faults /\ W = fired /\ p = polled
  OBVIOUS
<1>3. Attends(b, q, a, h, F, W, p)
  BY <1>1, <1>2 DEF Attended
<1>4. /\ b.at = "idle" /\ polled' = p
      /\ answers' = a /\ helper' = h /\ faults' = F /\ fired' = W
  BY <1>1, <1>2 DEF Stop
<1>5. F = {} /\ h.alive => Free(q, a, h)
  BY <1>3, <1>4, IdleIsFree
<1>6. DOMAIN h = HelperFields
      /\ (~h.shown => h.beat = {}) /\ (F = {} => "beat" \notin W)
  BY <1>3 DEF Attends
<1>7. CASE h.alive
  <2>1. /\ requests' = Append(q, "shutdown")
        /\ backend' = [Nothing EXCEPT !.at = "closing", !.expect = "shutdown complete"]
    BY <1>1, <1>2, <1>7 DEF Stop, Closing
  <2>2. Attends(backend', requests', a, h, F, W, p)
    BY <1>5, <1>6, <2>1, FreeCloses
  <2>3. QED
    BY <1>4, <2>2, AttendedNext
<1>8. CASE ~h.alive
  <2>1. backend' = [Nothing EXCEPT !.at = "reaping"] /\ requests' = q
    BY <1>1, <1>2, <1>8 DEF Stop, Closing
  <2>2. Attends(backend', requests', a, h, F, W, p)
    BY <1>5, <1>6, <1>8, <2>1, FreeCloses
  <2>3. QED
    BY <1>4, <2>2, AttendedNext
<1>9. QED
  BY <1>7, <1>8

\* The runtime's commands.
LEMMA CommandsAttended ==
    Attended /\ (StartBreak \/ ReplaceBreak \/ RequestLock \/ ClearBreak) => Attended'
<1>1. {"start", "update", "zero", "clear"} \subseteq Messages
  BY DEF Messages
<1>2. UpdateMessage \in Messages
  BY <1>1 DEF UpdateMessage
<1>3. Attended /\ StartBreak => Attended'
  BY <1>1, CommandAttended DEF StartBreak
<1>4. Attended /\ ReplaceBreak => Attended'
  BY <1>1, CommandAttended DEF ReplaceBreak
<1>5. Attended /\ RequestLock => Attended'
  <2>1. PICK m \in Messages : m = UpdateMessage
    BY <1>2
  <2>2. RequestLock => Command(m)
    BY <2>1 DEF RequestLock, Command, Ask
  <2>3. QED
    BY <2>2, CommandAttended
<1>6. Attended /\ ClearBreak => Attended'
  BY <1>1, CommandAttended DEF ClearBreak
<1>7. QED
  BY <1>3, <1>4, <1>5, <1>6

\* An answer that was not a proper one, and one that did not come.
LEMMA FailAttended ==
    ASSUME Attended, Fail, faults' = faults, fired' = fired, polled' = polled,
           faults = {} /\ helper.alive =>
              Free(requests, answers', helper) /\ Fresh(helper, 0)
    PROVE  Attended'
<1>1. PICK b, q, a, h, F, W, p : /\ b = backend /\ q = requests /\ a = answers /\ h = helper
                                 /\ F = faults /\ W = fired /\ p = polled
  OBVIOUS
<1>2. PICK n : n = answers'
  OBVIOUS
<1>3. Attends(b, q, a, h, F, W, p)
  BY <1>1 DEF Attended
<1>4. DOMAIN h = HelperFields
      /\ (~h.shown => h.beat = {}) /\ (F = {} => "beat" \notin W)
  BY <1>3 DEF Attends
<1>5. F = {} /\ h.alive => Free(q, n, h) /\ Fresh(h, 0)
  BY <1>1, <1>2
<1>6. CASE b.for = "handshake"
  <2>1. /\ helper' = [h EXCEPT !.alive = FALSE, !.tap = FALSE]
        /\ backend' = [Nothing EXCEPT !.at = "gone"]
    BY <1>1, <1>6 DEF Fail
  <2>2. /\ DOMAIN helper' = HelperFields /\ ~helper'.alive
        /\ helper'.shown = h.shown /\ helper'.beat = h.beat
    BY <1>4, <2>1 DEF HelperFields
  <2>3. /\ DOMAIN backend' = BackendFields /\ backend'.waited = 0
    BY <2>1 DEF Nothing, BackendFields
  <2>4. Attends(backend', requests', n, helper', F, W, p)
    BY <1>4, <2>2, <2>3 DEF Attends
  <2>5. QED
    BY <1>1, <1>2, <2>4, AttendedNext
<1>7. CASE b.for \in {"permissions", "sample"}
  <2>1. helper' = h /\ Closing
    BY <1>1, <1>7 DEF Fail
  <2>2. CASE h.alive
    <3>1. /\ requests' = Append(q, "shutdown")
          /\ backend' = [Nothing EXCEPT !.at = "closing", !.expect = "shutdown complete"]
      BY <1>1, <2>1, <2>2 DEF Closing
    <3>2. Attends(backend', requests', n, h, F, W, p)
      BY <1>4, <1>5, <3>1, FreeCloses
    <3>3. QED
      BY <1>1, <1>2, <2>1, <3>2, AttendedNext
  <2>3. CASE ~h.alive
    <3>1. backend' = [Nothing EXCEPT !.at = "reaping"] /\ requests' = q
      BY <1>1, <2>1, <2>3 DEF Closing
    <3>2. Attends(backend', requests', n, h, F, W, p)
      BY <1>4, <1>5, <2>3, <3>1, FreeCloses
    <3>3. QED
      BY <1>1, <1>2, <2>1, <3>2, AttendedNext
  <2>4. QED
    BY <2>2, <2>3
<1>8. CASE b.for \notin {"handshake", "permissions", "sample"}
  <2>1. /\ backend' = [Nothing EXCEPT !.stop = TRUE]
        /\ requests' = q /\ helper' = h
    BY <1>1, <1>8 DEF Fail
  <2>2. DOMAIN backend' = BackendFields /\ backend'.at = "idle" /\ backend'.waited \in Nat
    BY <2>1 DEF Nothing, BackendFields
  <2>3. Attends(backend', requests', n, h, F, W, p)
    BY <1>4, <1>5, <2>1, <2>2, AnswerRests DEF Free
  <2>4. QED
    BY <1>1, <1>2, <2>1, <2>3, AttendedNext
<1>9. QED
  BY <1>6, <1>7, <1>8

LEMMA ReceiveAttended == Attended /\ Receive => Attended'
<1>1. SUFFICES ASSUME Attended, Receive PROVE Attended'
  OBVIOUS
<1>2. PICK b, q, a, h, F, W, p : /\ b = backend /\ q = requests /\ a = answers /\ h = helper
                                 /\ F = faults /\ W = fired /\ p = polled
  OBVIOUS
<1>3. Attends(b, q, a, h, F, W, p)
  BY <1>1, <1>2 DEF Attended
<1>4. /\ b.at = "asking" /\ a # <<>> /\ polled' = p
      /\ answers' = Tail(a) /\ faults' = F /\ fired' = W
  BY <1>1, <1>2 DEF Receive
<1>5. F = {} /\ h.alive => /\ Free(q, Tail(a), h) /\ Fresh(h, 0)
                           /\ Head(a) = "ready" => Unshown(h)
  BY <1>3, <1>4, AnsweredIsFree
<1>6. DOMAIN h = HelperFields /\ DOMAIN b = BackendFields
      /\ (~h.shown => h.beat = {}) /\ (F = {} => "beat" \notin W)
  BY <1>3 DEF Attends
<1>7. CASE Fail
  BY <1>1, <1>2, <1>4, <1>5, <1>7, FailAttended
<1>8. ASSUME NEW m \in {"preflight", "finish", "update"}, NEW for, Ask(m, for), helper' = h,
             m = "preflight" => Head(a) = "ready"
      PROVE  Attended'
  <2>1. /\ requests' = Append(q, m)
        /\ backend' = [b EXCEPT !.at = "asking", !.for = for,
                                !.expect = AnswerTo[m], !.waited = 0]
    BY <1>2, <1>8 DEF Ask
  <2>2. m \in Messages \/ (m = "preflight" /\ (F = {} /\ h.alive => Unshown(h)))
    BY <1>5, <1>8 DEF Messages
  <2>3. Attends(backend', requests', Tail(a), h, F, W, p)
    BY <1>5, <1>6, <2>1, <2>2, FreeAsks
  <2>4. QED
    BY <1>4, <1>8, <2>3, AttendedNext
<1>9. CASE backend' = [Nothing EXCEPT !.stop = b.stop] /\ requests' = q /\ helper' = h
  <2>1. DOMAIN backend' = BackendFields /\ backend'.at = "idle" /\ backend'.waited \in Nat
    BY <1>9 DEF Nothing, BackendFields
  <2>2. Attends(backend', requests', Tail(a), h, F, W, p)
    BY <1>5, <1>6, <1>9, <2>1, AnswerRests DEF Free
  <2>3. QED
    BY <1>4, <1>9, <2>2, AttendedNext
<1>10. CASE Proceed(Head(a))
  <2>1. CASE Head(a) = "ready"
    <3>1. Ask("preflight", "permissions") /\ helper' = h
      BY <1>2, <1>10, <2>1 DEF Proceed
    <3>2. QED
      BY <1>8, <2>1, <3>1
  <2>2. CASE Head(a) = "sample" /\ left = {0}
    <3>1. Ask("finish", "sample") /\ helper' = h
      BY <1>2, <1>10, <2>2 DEF Proceed
    <3>2. QED
      BY <1>8, <3>1
  <2>3. CASE Head(a) = "sample" /\ left # {} /\ left # {0}
    <3>1. Ask("update", "sample") /\ helper' = h
      BY <1>2, <1>10, <2>3 DEF Proceed
    <3>2. QED
      BY <1>8, <3>1
  <2>4. CASE ~(Head(a) = "ready" \/ (Head(a) = "sample" /\ left # {}))
    BY <1>2, <1>9, <1>10, <2>4 DEF Proceed
  <2>5. QED
    BY <2>1, <2>2, <2>3, <2>4
<1>11. QED
  BY <1>1, <1>2, <1>7, <1>10 DEF Receive

\* A daemon that works does not give up a helper that answers in time.
LEMMA NothingIsGivenUp ==
    ASSUME Attended, NoAnswer
    PROVE  ~(faults = {} /\ helper.alive)
<1>1. PICK b, q, a, h, F, W, p : /\ b = backend /\ q = requests /\ a = answers /\ h = helper
                                 /\ F = faults /\ W = fired /\ p = polled
  OBVIOUS
<1>2. Attends(b, q, a, h, F, W, p)
  BY <1>1 DEF Attended
<1>3. SUFFICES ASSUME F = {}, h.alive PROVE FALSE
  BY <1>1
<1>4. a = <<>> /\ b.at \in {"asking", "closing"} /\ b.waited >= ReadTimeout
  BY <1>1, <1>3 DEF NoAnswer
<1>5. (b.at = "asking" => Asking(b, q, a, h) \/ Answered(b, q, a, h))
      /\ (b.at = "closing" => Closed(b, q, a, h))
  BY <1>2, <1>3, WhereItIs
<1>6. b.waited \in Nat
  BY <1>2 DEF Attends
<1>7. b.waited < ReadTimeout
  BY <1>4, <1>5 DEF Asking, Answered, Closed
<1>8. QED
  BY <1>4, <1>6, <1>7, TimeoutsAssumption

LEMMA GiveUpAttended == Attended /\ GiveUp => Attended'
BY NothingIsGivenUp, FailAttended DEF GiveUp

LEMMA ShutdownAttended ==
    Attended /\ (ShutdownAnswered \/ ShutdownUnanswered \/ Reap) => Attended'
<1>1. SUFFICES ASSUME Attended, ShutdownAnswered \/ ShutdownUnanswered \/ Reap
               PROVE  Attended'
  OBVIOUS
<1>2. PICK b, q, a, h, F, W, p : /\ b = backend /\ q = requests /\ a = answers /\ h = helper
                                 /\ F = faults /\ W = fired /\ p = polled
  OBVIOUS
<1>3. Attends(b, q, a, h, F, W, p)
  BY <1>1, <1>2 DEF Attended
<1>4. requests' = q /\ faults' = F /\ fired' = W /\ polled' = p
  BY <1>1, <1>2 DEF ShutdownAnswered, ShutdownUnanswered, Reap
<1>5. DOMAIN h = HelperFields
      /\ (~h.shown => h.beat = {}) /\ (F = {} => "beat" \notin W)
  BY <1>3 DEF Attends
<1>6. ASSUME backend' = [Nothing EXCEPT !.at = "reaping"], helper' = h,
             F = {} /\ h.alive => q = <<>> /\ h.beat = {}
      PROVE  Attended'
  <2>1. DOMAIN backend' = BackendFields /\ backend'.at = "reaping" /\ backend'.waited = 0
    BY <1>6 DEF Nothing, BackendFields
  <2>2. F = {} /\ h.alive => Closed(backend', q, answers', h)
    BY <1>6, <2>1 DEF Closed
  <2>3. Attends(backend', q, answers', h, F, W, p)
    BY <1>5, <2>1, <2>2 DEF Attends, Heard
  <2>4. QED
    BY <1>4, <1>6, <2>3, AttendedNext
<1>7. CASE ShutdownAnswered
  <2>1. /\ b.at = "closing" /\ a # <<>> /\ helper' = h
        /\ backend' = [Nothing EXCEPT !.at = "reaping"]
    BY <1>2, <1>7 DEF ShutdownAnswered
  <2>2. F = {} /\ h.alive => Closed(b, q, a, h)
    BY <1>3, <2>1, WhereItIs
  <2>3. F = {} /\ h.alive => q = <<>> /\ h.beat = {}
    BY <2>1, <2>2 DEF Closed
  <2>4. QED
    BY <1>6, <2>1, <2>3
<1>8. CASE ShutdownUnanswered
  <2>1. helper' = h /\ backend' = [Nothing EXCEPT !.at = "reaping"] /\ NoAnswer
    BY <1>2, <1>8 DEF ShutdownUnanswered
  <2>2. ~(F = {} /\ h.alive)
    BY <1>1, <1>2, <2>1, NothingIsGivenUp
  <2>3. QED
    BY <1>6, <2>1, <2>2
<1>9. CASE Reap
  <2>1. /\ helper' = [h EXCEPT !.alive = FALSE, !.tap = FALSE]
        /\ backend' = [Nothing EXCEPT !.at = "gone"]
    BY <1>2, <1>9 DEF Reap
  <2>2. /\ DOMAIN helper' = HelperFields /\ ~helper'.alive
        /\ helper'.shown = h.shown /\ helper'.beat = h.beat
    BY <1>5, <2>1 DEF HelperFields
  <2>3. DOMAIN backend' = BackendFields /\ backend'.waited = 0
    BY <2>1 DEF Nothing, BackendFields
  <2>4. Attends(backend', requests', answers', helper', faults', fired', polled')
    BY <1>4, <1>5, <2>2, <2>3 DEF Attends
  <2>5. QED
    BY <2>4, AttendedNext
<1>10. QED
  BY <1>1, <1>7, <1>8, <1>9

-----------------------------------------------------------------------------
(* What the helper does next                                               *)

\* An answered request leaves the helper k: it has heard of the backend, or it has
\* taken the overlay away.
LEMMA AnswerAttended ==
    ASSUME NEW m, NEW k, NEW r \in Replies,
           Attended, Answer(m, k, r),
           DOMAIN k = HelperFields, ~k.shown => k.beat = {},
           m \in Handshake => (Unshown(helper) => Unshown(k)),
           m \in Messages => Fresh(k, 0) /\ r # "ready",
           m = "shutdown" => k.beat = {}
    PROVE  Attended'
<1>1. PICK b, q, a, h, F, W, p : /\ b = backend /\ q = requests /\ a = answers /\ h = helper
                                 /\ F = faults /\ W = fired /\ p = polled
  OBVIOUS
<1>2. Attends(b, q, a, h, F, W, p)
  BY <1>1 DEF Attended
<1>3. /\ h.alive /\ q # <<>> /\ Head(q) = m /\ requests' = Tail(q) /\ helper' = k
      /\ answers' = Append(a, r) /\ backend' = b /\ faults' = F /\ fired' = W /\ polled' = p
  BY <1>1 DEF Answer
<1>4. /\ DOMAIN b = BackendFields /\ b.waited \in Nat /\ b.at # "gone"
      /\ F = {} => "beat" \notin W
  BY <1>2, <1>3 DEF Attends
<1>5. ASSUME F = {} PROVE Heard(b, Tail(q), Append(a, r), k, p)
  <2>1. Heard(b, q, a, h, p)
    BY <1>2, <1>3, <1>5 DEF Attends
  <2>2. CASE Asking(b, q, a, h)
    <3>1. b.at = "asking" /\ a = <<>>
      BY <2>2 DEF Asking
    <3>2. Append(a, r) = <<r>>
      BY <3>1
    <3>3. CASE \E x \in Handshake : q = <<x>> /\ Unshown(h)
      <4>1. PICK x \in Handshake : q = <<x>> /\ Unshown(h)
        BY <3>3
      <4>2. x = m /\ Tail(q) = <<>>
        BY <1>3, <4>1
      <4>3. Unshown(k)
        BY <1>1, <4>1, <4>2
      <4>4. Answered(b, Tail(q), Append(a, r), k)
        BY <3>1, <3>2, <4>2, <4>3 DEF Answered, Unshown, Fresh
      <4>5. QED
        BY <4>4 DEF Heard
    <3>4. CASE \E x \in Messages : q = <<x>> /\ Fresh(h, 1 + b.waited)
      <4>1. PICK x \in Messages : q = <<x>>
        BY <3>4
      <4>2. x = m /\ Tail(q) = <<>>
        BY <1>3, <4>1
      <4>3. Answered(b, Tail(q), Append(a, r), k)
        BY <3>1, <3>2, <4>2 DEF Answered
      <4>4. QED
        BY <4>3 DEF Heard
    <3>5. QED
      BY <2>2, <3>3, <3>4 DEF Asking
  <2>3. CASE Closed(b, q, a, h)
    <3>1. b.at = "closing" /\ q = <<"shutdown">> /\ a = <<>>
      BY <1>3, <2>3 DEF Closed
    <3>2. Tail(q) = <<>> /\ Append(a, r) = <<r>> /\ m = "shutdown"
      BY <1>3, <3>1
    <3>3. Closed(b, Tail(q), Append(a, r), k)
      BY <3>1, <3>2 DEF Closed
    <3>4. QED
      BY <3>3 DEF Heard
  <2>4. QED
    BY <1>3, <2>1, <2>2, <2>3 DEF Heard, Resting, Answered
<1>6. Attends(b, Tail(q), Append(a, r), k, F, W, p)
  BY <1>4, <1>5 DEF Attends
<1>7. QED
  BY <1>3, <1>6, AttendedNext

\* What a cleared overlay is, and one that has just heard of the backend.
Beaten(h, k) == /\ DOMAIN k = HelperFields /\ (~k.shown => k.beat = {})
                /\ k.alive = h.alive /\ Fresh(k, 0)

LEMMA ClearedIsBeaten ==
    ASSUME NEW h, DOMAIN h = HelperFields
    PROVE  Beaten(h, Cleared(h)) /\ Cleared(h).beat = {} /\ ~Cleared(h).shown
BY DEF Cleared, HelperFields, Beaten, Fresh

LEMMA BeatIsBeaten ==
    ASSUME NEW h, DOMAIN h = HelperFields, ~h.shown => h.beat = {}
    PROVE  Beaten(h, Beat(h))
<1>1. CASE h.shown
  <2>1. Beat(h) = [h EXCEPT !.beat = {HeartbeatTimeout}]
    BY <1>1 DEF Beat
  <2>2. DOMAIN Beat(h) = HelperFields /\ Beat(h).beat = {HeartbeatTimeout}
        /\ Beat(h).shown = h.shown /\ Beat(h).alive = h.alive
    BY <2>1 DEF HelperFields
  <2>3. QED
    BY <1>1, <2>2, TimeoutsAssumption DEF Beaten, Fresh
<1>2. CASE ~h.shown
  BY <1>2 DEF Beat, Beaten, Fresh
<1>3. QED
  BY <1>1, <1>2

LEMMA ShowIsBeaten ==
    ASSUME NEW h, DOMAIN h = HelperFields, NEW tap
    PROVE  Beaten(h, Show(h, tap))
<1>1. Cleared(h).beat = {} /\ Cleared(h).alive = h.alive /\ DOMAIN Cleared(h) = HelperFields
  BY ClearedIsBeaten DEF Beaten
<1>2. CASE tap
  <2> DEFINE s == [Cleared(h) EXCEPT !.shown = TRUE, !.tap = TRUE]
  <2>1. DOMAIN s = HelperFields /\ s.shown /\ s.alive = h.alive
    BY <1>1 DEF HelperFields
  <2>2. Show(h, tap) = Beat(s)
    BY <1>2 DEF Show
  <2> HIDE DEF s
  <2>3. QED
    BY <2>1, <2>2, BeatIsBeaten DEF Beaten
<1>3. CASE ~tap
  <2>1. Show(h, tap) = [Cleared(h) EXCEPT !.shown = TRUE]
    BY <1>3 DEF Show
  <2>2. QED
    BY <1>1, <2>1 DEF Beaten, Fresh, HelperFields
<1>4. QED
  BY <1>2, <1>3

LEMMA UpdateIsBeaten ==
    ASSUME NEW h, DOMAIN h = HelperFields, ~h.shown => h.beat = {}, NEW zero
    PROVE  Beaten(h, Update(h, zero))
<1>1. CASE ~h.shown
  BY <1>1 DEF Update, Beaten, Fresh
<1>2. CASE h.shown
  <2>1. PICK z : Update(h, zero) = [Beat(h) EXCEPT !.zero = z]
    BY <1>2 DEF Update
  <2>2. Beaten(h, Beat(h))
    BY BeatIsBeaten
  <2>3. QED
    BY <2>1, <2>2 DEF Beaten, Fresh, HelperFields
<1>3. QED
  BY <1>1, <1>2

LEMMA HandlesAttended == Attended /\ Handles => Attended'
<1>1. SUFFICES ASSUME Attended, Handles PROVE Attended'
  OBVIOUS
<1>2. PICK h : h = helper
  OBVIOUS
<1>3. DOMAIN h = HelperFields /\ (~h.shown => h.beat = {})
  BY <1>1, <1>2 DEF Attended, Attends
<1>4. ASSUME NEW m \in Messages, NEW k, NEW r \in Replies, Answer(m, k, r),
             Beaten(h, k), r # "ready"
      PROVE  Attended'
  <2>1. DOMAIN k = HelperFields /\ (~k.shown => k.beat = {}) /\ Fresh(k, 0)
    BY <1>4 DEF Beaten
  <2>2. m \notin Handshake /\ m # "shutdown"
    BY DEF Messages, Handshake
  <2>3. QED
    BY <1>1, <1>4, <2>1, <2>2, AnswerAttended
<1>5. ASSUME NEW m \in Handshake, NEW k, NEW r \in Replies, Answer(m, k, r),
             DOMAIN k = HelperFields, k.shown = h.shown, k.beat = h.beat
      PROVE  Attended'
  <2>1. m \notin Messages /\ m # "shutdown"
    BY DEF Messages, Handshake
  <2>2. Unshown(helper) => Unshown(k)
    BY <1>2, <1>5 DEF Unshown
  <2>3. QED
    BY <1>1, <1>3, <1>5, <2>1, <2>2, AnswerAttended
<1>6. CASE HandleHello
  <2>1. PICK r \in {"ready", "error"} :
           Answer("hello", IF r = "ready" THEN h ELSE [h EXCEPT !.protocol = "ended"], r)
    BY <1>2, <1>6 DEF HandleHello
  <2> DEFINE k == IF r = "ready" THEN h ELSE [h EXCEPT !.protocol = "ended"]
  <2>2. DOMAIN k = HelperFields /\ k.shown = h.shown /\ k.beat = h.beat
    BY <1>3 DEF HelperFields
  <2>3. Answer("hello", k, r)
    BY <2>1
  <2> HIDE DEF k
  <2>4. QED
    BY <1>5, <2>2, <2>3 DEF Handshake, Replies
<1>7. CASE HandlePreflight
  BY <1>2, <1>3, <1>5, <1>7 DEF HandlePreflight, Handshake, Replies
<1>8. CASE HandleStart
  <2>1. PICK tap \in BOOLEAN :
           Answer("start", Show(h, tap), IF tap THEN "complete start" ELSE "error")
    BY <1>2, <1>8 DEF HandleStart
  <2>2. Beaten(h, Show(h, tap))
    BY <1>3, ShowIsBeaten
  <2>3. QED
    BY <1>4, <2>1, <2>2 DEF Messages, Replies
<1>9. CASE HandleUpdate
  <2>1. Beaten(h, Update(h, FALSE))
    BY <1>3, UpdateIsBeaten
  <2>2. QED
    BY <1>2, <1>4, <1>9, <2>1 DEF HandleUpdate, Messages, Replies
<1>10. CASE HandleZero
  <2>1. Beaten(h, Update(h, TRUE))
    BY <1>3, UpdateIsBeaten
  <2>2. QED
    BY <1>2, <1>4, <1>10, <2>1 DEF HandleZero, Messages, Replies
<1>11. CASE HandleFinish \/ HandleClear
  <2>1. Beaten(h, Cleared(h))
    BY <1>3, ClearedIsBeaten
  <2>2. QED
    BY <1>2, <1>4, <1>11, <2>1 DEF HandleFinish, HandleClear, Messages, Replies
<1>12. CASE HandlePoll
  <2>1. Beaten(h, Beat(h))
    BY <1>3, BeatIsBeaten
  <2>2. QED
    BY <1>2, <1>4, <1>12, <2>1 DEF HandlePoll, Messages, Replies
<1>13. CASE HandleShutdown
  <2> DEFINE k == [Cleared(h) EXCEPT !.protocol = "ended"]
  <2>1. DOMAIN k = HelperFields /\ k.beat = {} /\ Answer("shutdown", k, "shutdown complete")
    BY <1>2, <1>3, <1>13, ClearedIsBeaten DEF HandleShutdown, Beaten, HelperFields
  <2> HIDE DEF k
  <2>2. "shutdown" \notin Messages /\ "shutdown" \notin Handshake
        /\ "shutdown complete" \in Replies
    BY DEF Messages, Handshake, Replies
  <2>3. QED
    BY <1>1, <2>1, <2>2, AnswerAttended
<1>14. CASE EndOfInput \/ HelperExits
  <2>1. /\ faults # {} \/ ~helper'.alive
        /\ DOMAIN helper' = HelperFields /\ (~helper'.shown => helper'.beat = {})
        /\ h.alive /\ backend' = backend /\ faults' = faults /\ fired' = fired
    <3>1. CASE EndOfInput
      <4> DEFINE c == Cleared(h)
      <4>1. DOMAIN c = HelperFields /\ c.beat = {}
        BY <1>3, ClearedIsBeaten DEF Beaten
      <4> HIDE DEF c
      <4>2. helper' = [c EXCEPT !.protocol = "ended"]
        BY <1>2, <3>1 DEF EndOfInput, c
      <4>3. QED
        BY <1>2, <3>1, <4>1, <4>2 DEF EndOfInput, HelperFields
    <3>2. CASE HelperExits
      BY <1>2, <1>3, <3>2 DEF HelperExits, HelperFields
    <3>3. QED
      BY <1>14, <3>1, <3>2
  <2>2. DOMAIN backend = BackendFields /\ backend.waited \in Nat /\ backend.at # "gone"
        /\ (faults = {} => "beat" \notin fired)
    BY <1>1, <1>2, <2>1 DEF Attended, Attends
  <2>3. Attends(backend', requests', answers', helper', faults', fired', polled')
    BY <2>1, <2>2 DEF Attends
  <2>4. QED
    BY <2>3, AttendedNext
<1>15. QED
  BY <1>1, <1>6, <1>7, <1>8, <1>9, <1>10, <1>11, <1>12, <1>13, <1>14 DEF Handles

-----------------------------------------------------------------------------
(* Watchdogs, faults and time                                              *)

LEMMA HeardWhenCleared ==
    ASSUME NEW b, NEW q, NEW a, NEW h, NEW p, NEW k,
           Heard(b, q, a, h, p), k.beat = {}, ~k.shown
    PROVE  Heard(b, q, a, k, p)
BY DEF Heard, Resting, Asking, Answered, Closed, Fresh, Unshown

\* The heartbeat of a helper that is heard of is never due.
LEMMA HeardIsNotDue ==
    ASSUME NEW b, NEW q, NEW a, NEW h, NEW p, Heard(b, q, a, h, p), b.waited \in Nat
    PROVE  0 \notin h.beat
<1>1. CASE Resting(b, q, a, h, p)
  BY <1>1, TimeoutsAssumption DEF Resting, Fresh
<1>2. CASE Asking(b, q, a, h)
  BY <1>2, TimeoutsAssumption DEF Asking, Fresh, Unshown
<1>3. CASE Answered(b, q, a, h)
  BY <1>3, TimeoutsAssumption DEF Answered, Fresh
<1>4. CASE Closed(b, q, a, h)
  BY <1>4, TimeoutsAssumption DEF Closed, Fresh
<1>5. QED
  BY <1>1, <1>2, <1>3, <1>4 DEF Heard

LEMMA WatchdogAttended == Attended /\ WatchdogFires => Attended'
<1>1. SUFFICES ASSUME Attended, WatchdogFires PROVE Attended'
  OBVIOUS
<1>2. PICK b, q, a, h, F, W, p : /\ b = backend /\ q = requests /\ a = answers /\ h = helper
                                 /\ F = faults /\ W = fired /\ p = polled
  OBVIOUS
<1>3. Attends(b, q, a, h, F, W, p)
  BY <1>1, <1>2 DEF Attended
<1>4. DEFINE k == Cleared(h)
<1>5. /\ h.alive /\ helper' = k /\ fired' = W \cup Due
      /\ backend' = b /\ requests' = q /\ answers' = a /\ faults' = F /\ polled' = p
  BY <1>1, <1>2 DEF WatchdogFires
<1>6. DOMAIN k = HelperFields /\ k.beat = {} /\ ~k.shown
  BY <1>3, ClearedIsBeaten DEF Attends, Beaten
<1> HIDE DEF k
<1>7. ASSUME F = {} PROVE Heard(b, q, a, k, p) /\ "beat" \notin W \cup Due
  <2>1. Heard(b, q, a, h, p) /\ b.waited \in Nat /\ "beat" \notin W
    BY <1>3, <1>5, <1>7 DEF Attends
  <2>2. Heard(b, q, a, k, p)
    BY <1>6, <2>1, HeardWhenCleared
  <2>3. 0 \notin helper.beat
    BY <1>2, <2>1, HeardIsNotDue
  <2>4. "beat" \notin Due
    BY <2>3 DEF Due
  <2>5. QED
    BY <2>1, <2>2, <2>4
<1>8. Attends(b, q, a, k, F, W \cup Due, p)
  BY <1>3, <1>5, <1>6, <1>7 DEF Attends
<1>9. QED
  BY <1>5, <1>8, AttendedNext

LEMMA FaultAttended ==
    ASSUME NEW f \in Faults
    PROVE  Attended /\ Fault(f) => Attended'
<1>1. SUFFICES ASSUME Attended, Fault(f) PROVE Attended'
  OBVIOUS
<1>2. PICK h : h = helper
  OBVIOUS
<1>3. /\ DOMAIN h = HelperFields /\ (~h.shown => h.beat = {})
      /\ DOMAIN backend = BackendFields /\ backend.waited \in Nat
  BY <1>1, <1>2 DEF Attended, Attends
<1>4. /\ backend.at # "gone" /\ backend' = backend /\ faults' # {}
      /\ helper' = Faulty(f)
  BY <1>1 DEF Fault
<1>5. DOMAIN Faulty(f) = HelperFields /\ Faulty(f).shown = h.shown /\ Faulty(f).beat = h.beat
  BY <1>2, <1>3 DEF Faulty, HelperFields
<1>6. Attends(backend', requests', answers', helper', faults', fired', polled')
  BY <1>3, <1>4, <1>5 DEF Attends
<1>7. QED
  BY <1>6, AttendedNext

\* What is left of a watchdog when a tick has passed.
LEMMA FreshTicks ==
    ASSUME NEW h, NEW k, NEW n \in Nat, n < ReadTimeout, Fresh(h, n), k.beat = Less(h.beat)
    PROVE  Fresh(k, n + 1)
BY TimeoutsAssumption DEF Fresh, Less

LEMMA TickAttended == Attended /\ Tick => Attended'
<1>1. SUFFICES ASSUME Attended, Tick PROVE Attended'
  OBVIOUS
<1>2. PICK b, q, a, h, F, W, p : /\ b = backend /\ q = requests /\ a = answers /\ h = helper
                                 /\ F = faults /\ W = fired /\ p = polled
  OBVIOUS
<1>3. Attends(b, q, a, h, F, W, p)
  BY <1>1, <1>2 DEF Attended
<1>4. PICK c, k : c = backend' /\ k = helper'
  OBVIOUS
<1>5. /\ requests' = q /\ answers' = a /\ faults' = F /\ fired' = W /\ polled' = FALSE
      /\ k = [h EXCEPT !.zero = Less(@), !.beat = Less(@)]
      /\ c = [b EXCEPT !.waited = IF b.at \in {"asking", "closing", "reaping"}
                                     /\ @ < ReadTimeout + ShutdownTimeout
                                  THEN @ + 1 ELSE @]
  BY <1>1, <1>2, <1>4 DEF Tick
<1>6. /\ DOMAIN h = HelperFields /\ DOMAIN b = BackendFields /\ b.waited \in Nat
      /\ (~h.shown => h.beat = {}) /\ (b.at = "gone" => ~h.alive) /\ (F = {} => "beat" \notin W)
  BY <1>3 DEF Attends
<1>7. /\ DOMAIN k = HelperFields /\ k.beat = Less(h.beat)
      /\ k.shown = h.shown /\ k.alive = h.alive
  BY <1>5, <1>6 DEF HelperFields
<1>8. /\ DOMAIN c = BackendFields /\ c.at = b.at /\ c.waited \in Nat
      /\ b.at \in {"asking", "closing"} /\ b.waited < ReadTimeout => c.waited = b.waited + 1
  BY <1>5, <1>6, TimeoutsAssumption DEF BackendFields
<1>9. Less({}) = {}
  BY DEF Less
<1>10. ASSUME F = {}, h.alive PROVE Heard(c, q, a, k, FALSE)
  <2>1. /\ ~(b.at \in {"asking", "closing"} /\ a # <<>>)
        /\ b.at = "idle" => p
        /\ q # <<>> => ~(b.waited >= ReadTimeout - 1)
    <3>1. BackendRuns <=> b.at # "gone"
      BY <1>2, <1>10 DEF BackendRuns
    <3>2. ~Urgent
      BY <1>1 DEF Tick
    <3>3. QED
      BY <1>2, <1>10, <3>1, <3>2 DEF Urgent
  <2>2. Heard(b, q, a, h, p)
    BY <1>3, <1>10 DEF Attends
  <2>3. CASE Resting(b, q, a, h, p)
    <3>1. Fresh(h, 0)
      BY <2>1, <2>3 DEF Resting
    <3>2. Fresh(k, 0 + 1)
      BY <1>7, <3>1, FreshTicks, TimeoutsAssumption
    <3>3. QED
      BY <1>8, <2>3, <3>2 DEF Heard, Resting
  <2>4. CASE Asking(b, q, a, h)
    <3>1. b.at = "asking" /\ a = <<>> /\ q # <<>> /\ b.waited < ReadTimeout
      BY <2>4 DEF Asking
    <3>2. c.waited = b.waited + 1 /\ c.waited < ReadTimeout
      BY <1>6, <1>8, <2>1, <3>1, TimeoutsAssumption
    <3>3. CASE \E r \in Handshake : q = <<r>> /\ Unshown(h)
      <4>1. Unshown(k)
        BY <1>7, <1>9, <3>3 DEF Unshown
      <4>2. QED
        BY <1>8, <3>1, <3>2, <3>3, <4>1 DEF Heard, Asking
    <3>4. CASE \E r \in Messages : q = <<r>> /\ Fresh(h, 1 + b.waited)
      <4>1. Fresh(k, (1 + b.waited) + 1)
        BY <1>6, <1>7, <2>1, <3>1, <3>4, FreshTicks, TimeoutsAssumption
      <4>2. Fresh(k, 1 + c.waited)
        BY <1>6, <3>2, <4>1
      <4>3. QED
        BY <1>8, <3>1, <3>2, <3>4, <4>2 DEF Heard, Asking
    <3>5. QED
      BY <2>4, <3>3, <3>4 DEF Asking
  <2>5. CASE Answered(b, q, a, h)
    BY <2>1, <2>5 DEF Answered
  <2>6. CASE Closed(b, q, a, h)
    <3>1. CASE b.at = "reaping" /\ q = <<>> /\ h.beat = {}
      BY <1>7, <1>8, <1>9, <3>1 DEF Heard, Closed
    <3>2. CASE b.at = "closing" /\ q = <<"shutdown">> /\ a = <<>> /\ b.waited < ReadTimeout
                 /\ Fresh(h, 1 + b.waited)
      <4>1. c.waited = b.waited + 1 /\ c.waited < ReadTimeout
        BY <1>6, <1>8, <2>1, <3>2, TimeoutsAssumption
      <4>2. Fresh(k, (1 + b.waited) + 1)
        BY <1>6, <1>7, <2>1, <3>2, FreshTicks, TimeoutsAssumption
      <4>3. Fresh(k, 1 + c.waited)
        BY <1>6, <4>1, <4>2
      <4>4. QED
        BY <1>8, <3>2, <4>1, <4>3 DEF Heard, Closed
    <3>3. CASE b.at = "closing" /\ (\E r \in Replies : a = <<r>>)
      <4>1. a # <<>>
        BY <3>3
      <4>2. QED
        BY <2>1, <3>3, <4>1
    <3>4. QED
      BY <2>6, <3>1, <3>2, <3>3 DEF Closed
  <2>7. QED
    BY <2>2, <2>3, <2>4, <2>5, <2>6 DEF Heard
<1>11. Attends(c, q, a, k, F, W, FALSE)
  BY <1>6, <1>7, <1>8, <1>9, <1>10 DEF Attends
<1>12. QED
  BY <1>4, <1>5, <1>11, AttendedNext

-----------------------------------------------------------------------------
(* The invariants                                                          *)

LEMMA InitAttended == Init => Attended
<1>1. SUFFICES ASSUME Init PROVE Attended
  OBVIOUS
<1>2. /\ DOMAIN backend = BackendFields /\ backend.at = "asking" /\ backend.waited = 0
      /\ DOMAIN helper = HelperFields /\ Unshown(helper)
  BY <1>1 DEF Init, Nothing, NewHelper, BackendFields, HelperFields, Unshown
<1>3. requests = <<"hello">> /\ answers = <<>> /\ fired = {}
  BY <1>1 DEF Init
<1>4. Asking(backend, requests, answers, helper)
  BY <1>2, <1>3, TimeoutsAssumption DEF Asking, Handshake
<1>5. QED
  BY <1>2, <1>3, <1>4 DEF Attended, Attends, Heard, Unshown

LEMMA NextAttended == Attended /\ [Next]_vars => Attended'
<1>1. SUFFICES ASSUME Attended, [Next]_vars PROVE Attended'
  OBVIOUS
<1>2. CASE Backend
  BY <1>1, <1>2, PollAttended, ReceiveAttended, GiveUpAttended, ShutdownAttended DEF Backend
<1>3. CASE StartBreak \/ ReplaceBreak \/ RequestLock \/ ClearBreak
  BY <1>1, <1>3, CommandsAttended
<1>4. CASE Stop
  BY <1>1, <1>4, StopAttended
<1>5. CASE Handles
  BY <1>1, <1>5, HandlesAttended
<1>6. CASE WatchdogFires
  BY <1>1, <1>6, WatchdogAttended
<1>7. CASE \E f \in Faults : Fault(f)
  BY <1>1, <1>7, FaultAttended
<1>8. CASE Tick
  BY <1>1, <1>8, TickAttended
<1>9. CASE UNCHANGED vars
  BY <1>1, <1>9 DEF vars, Attended
<1>10. QED
  BY <1>1, <1>2, <1>3, <1>4, <1>5, <1>6, <1>7, <1>8, <1>9 DEF Next

\* A helper that runs has heard of the backend in time (HelperSession sends one
\* request at a time, and sample_once one in every poll).
THEOREM AlwaysAttended == Spec => []Attended
BY InitAttended, NextAttended, PTL DEF Spec

\* While everything runs, however slowly the helper answers within the read
\* timeout, and whatever the timeouts are, the heartbeat watchdog leaves the
\* overlay alone (noteHeartbeat and heartbeatWatchdogTimeout).
THEOREM WatchdogKeepsStill == Spec => []HeartbeatHoldsStill
<1>1. Attended => HeartbeatHoldsStill
  BY DEF Attended, Attends, HeartbeatHoldsStill
<1>2. QED
  BY <1>1, AlwaysAttended, PTL

\* Once the backend is gone the helper is (shutdown_helper_process and the kill of
\* a failed handshake), whatever failed before.
THEOREM HelperIsReaped == Spec => []NothingStaysBehind
<1>1. Attended => NothingStaysBehind
  BY DEF Attended, Attends, NothingStaysBehind
<1>2. QED
  BY <1>1, AlwaysAttended, PTL
=============================================================================
