----------------------------- MODULE MacOSHelper -----------------------------
(***************************************************************************)
(* The macOS helper process (helpers/macos-helper), which blocks keyboard  *)
(* and pointer during a break, and the session by which the backend thread *)
(* drives it (HelperSession and the process handling of                    *)
(* src/macos_helper.rs): one request at a time over the helper's standard  *)
(* input, each answered over its standard output within a timeout.  Both   *)
(* the helper's threads and the backend's may stop answering, and either   *)
(* process may die; whatever happens, the input must be given back.        *)
(* The session is unlocked here: the end that is put off is MacOSDaemon's. *)
(*                                                                         *)
(* Time is in ticks of the backend's poll.  A tick waits for whatever the  *)
(* threads that still run do at once.                                      *)
(***************************************************************************)
EXTENDS Integers, Sequences, FiniteSets

CONSTANTS
    ReadTimeout,        \* HELPER_READ_TIMEOUT
    ShutdownTimeout,    \* HELPER_SHUTDOWN_TIMEOUT
    HeartbeatTimeout,   \* heartbeatWatchdogTimeout
    ZeroTimeout,        \* zeroWatchdogTimeout
    BreakLength,        \* how long breaks last
    Faults,             \* the faults that may happen
    MaxFaults,          \* bounds: on the faults in a behaviour,
    MaxBreaks           \* and on the breaks

\* The helper's watchdog outlasts an answer that comes as late as it may (10 s
\* and 5 s).
ASSUME TimeoutsAssumption ==
    /\ ReadTimeout \in Nat \ {0} /\ ShutdownTimeout \in Nat /\ ZeroTimeout \in Nat \ {0}
    /\ HeartbeatTimeout \in Nat /\ HeartbeatTimeout >= 2 * ReadTimeout
    /\ BreakLength \in Nat \ {0} /\ MaxFaults \in Nat /\ MaxBreaks \in Nat
ASSUME FaultsAssumption ==
    Faults \subseteq {"protocol hangs", "main hangs", "helper stops", "helper dies",
                      "backend hangs", "daemon dies"}

VARIABLES
    backend,   \* [at, for, expect, waited, stop]: where the backend thread is, what
               \* it asks for, the answer it waits for and how long, and whether the
               \* runtime is to stop it
    left,      \* active_break, an Option of the time left
    requests,  \* the helper's standard input
    answers,   \* lines of its standard output the backend has not read
    helper,    \* [alive, protocol, main, tap, shown, zero, beat]: the process, its
               \* two threads, the event tap, whether there is an overlay state, and
               \* the two watchdogs, each an Option of the time left
    faults,    \* the faults so far
    fired,     \* the watchdogs that fired
    blocked,   \* ticks the tap outlived a fault
    polled,    \* the backend has polled in this tick
    breaks,    \* the breaks so far
    asked      \* the runtime has asked for a lock in this break

vars == <<backend, left, requests, answers, helper, faults, fired, blocked, polled, breaks, asked>>

Nothing == [at |-> "idle", for |-> "none", expect |-> "none", waited |-> 0, stop |-> FALSE]
NewHelper == [alive |-> TRUE, protocol |-> "reading", main |-> "running",
              tap |-> FALSE, shown |-> FALSE, zero |-> {}, beat |-> {}]

\* connect: spawn_helper and the first message of the handshake.
Init ==
    /\ backend = [Nothing EXCEPT !.at = "asking", !.for = "handshake", !.expect = "ready"]
    /\ left = {}
    /\ requests = <<"hello">> /\ answers = <<>>
    /\ helper = NewHelper
    /\ faults = {} /\ fired = {} /\ blocked = 0 /\ polled = FALSE /\ breaks = 0 /\ asked = FALSE

-----------------------------------------------------------------------------
(* The backend *)

BackendRuns == faults \cap {"backend hangs", "daemon dies"} = {} /\ backend.at # "gone"

\* What an answer to each request is, and what its request is for.
AnswerTo == [hello |-> "ready", preflight |-> "permissions", poll |-> "sample",
             start |-> "complete start", update |-> "complete update",
             zero |-> "complete update", finish |-> "complete finish",
             clear |-> "complete clear", shutdown |-> "shutdown complete"]

\* A request is written to a helper that is there: a write to one that is gone fails.
Ask(message, for) ==
    /\ requests' = Append(requests, message)
    /\ backend' = [backend EXCEPT !.at = "asking", !.for = for,
                                  !.expect = AnswerTo[message], !.waited = 0]

UpdateMessage == IF left = {0} THEN "zero" ELSE "update"

\* shutdown_helper_process: the request, if it can be written, and then the wait
\* for the process to exit.
Closing == IF helper.alive
           THEN /\ requests' = Append(requests, "shutdown")
                /\ backend' = [Nothing EXCEPT !.at = "closing", !.expect = "shutdown complete"]
           ELSE /\ backend' = [Nothing EXCEPT !.at = "reaping"]
                /\ UNCHANGED requests

\* What a request that got no proper answer leads to: a failed handshake kills the
\* helper, a failed sample ends the backend, a failed command tells the runtime.
Fail_LeavesHelper ==
    CASE backend.for = "handshake" ->
            /\ backend' = [Nothing EXCEPT !.at = "gone"]
            /\ UNCHANGED <<left, requests, helper>>
      [] backend.for \in {"permissions", "sample"} ->
            Closing /\ UNCHANGED <<left, helper>>
      [] OTHER ->
            /\ backend' = [Nothing EXCEPT !.stop = TRUE]
            /\ UNCHANGED <<left, requests, helper>>
Fail ==
    CASE backend.for = "handshake" ->
            /\ helper' = [helper EXCEPT !.alive = FALSE, !.tap = FALSE]
            /\ backend' = [Nothing EXCEPT !.at = "gone"]
            /\ UNCHANGED <<left, requests>>
      [] backend.for \in {"permissions", "sample"} ->
            Closing /\ UNCHANGED <<left, helper>>
      [] OTHER ->
            /\ backend' = [Nothing EXCEPT !.stop = TRUE]
            /\ UNCHANGED <<left, requests, helper>>

\* sample_once: a poll at least once a tick.
Poll ==
    /\ BackendRuns /\ backend.at = "idle" /\ ~polled
    /\ IF helper.alive THEN Ask("poll", "sample") ELSE Closing
    /\ polled' = TRUE
    /\ UNCHANGED <<left, answers, helper, faults, fired, blocked, breaks, asked>>

\* start_break, replace_active_break, request_lock_after_current_break, clear_break.
\* The runtime asks for a lock once in a break, and for nothing once it was told of
\* an error; its FinishBreak finds the break over.
Command(message) ==
    /\ BackendRuns /\ backend.at = "idle" /\ ~backend.stop
    /\ IF helper.alive THEN Ask(message, "command")
       ELSE backend' = [backend EXCEPT !.stop = TRUE] /\ UNCHANGED requests
    /\ UNCHANGED <<answers, helper, faults, fired, blocked, polled>>
StartBreak ==
    /\ left = {} /\ breaks < MaxBreaks
    /\ Command("start")
    /\ breaks' = breaks + 1 /\ asked' = FALSE
    /\ UNCHANGED left
ReplaceBreak ==
    /\ left # {} /\ breaks < MaxBreaks
    /\ Command("update")
    /\ left' = {BreakLength}
    /\ breaks' = breaks + 1 /\ asked' = FALSE
RequestLock ==
    /\ left # {} /\ ~asked
    /\ Command(UpdateMessage)
    /\ asked' = TRUE
    /\ UNCHANGED <<left, breaks>>
ClearBreak ==
    /\ left # {}
    /\ Command("clear")
    /\ UNCHANGED <<left, breaks, asked>>

\* A proper answer.  A sample is followed by an update, or by the finish of a break
\* that is over (apply_overlay_sample).
Proceed(answer) ==
    CASE answer = "ready" ->
            Ask("preflight", "permissions") /\ UNCHANGED <<left, helper>>
      [] answer = "sample" /\ left = {0} ->
            Ask("finish", "sample") /\ left' = {} /\ UNCHANGED helper
      [] answer = "sample" /\ left # {} /\ left # {0} ->
            Ask("update", "sample") /\ UNCHANGED <<left, helper>>
      [] answer = "complete start" ->
            /\ left' = {BreakLength}
            /\ backend' = [Nothing EXCEPT !.stop = backend.stop]
            /\ UNCHANGED <<requests, helper>>
      [] answer = "complete clear" ->
            /\ left' = {}
            /\ backend' = [Nothing EXCEPT !.stop = backend.stop]
            /\ UNCHANGED <<requests, helper>>
      [] OTHER ->
            /\ backend' = [Nothing EXCEPT !.stop = backend.stop]
            /\ UNCHANGED <<left, requests, helper>>

\* receive_expected
Receive ==
    /\ BackendRuns /\ backend.at = "asking" /\ answers # <<>>
    /\ answers' = Tail(answers)
    /\ IF Head(answers) = backend.expect
         /\ (Head(answers) \in {"ready", "sample"} => helper.alive)
       THEN Proceed(Head(answers)) ELSE Fail
    /\ UNCHANGED <<faults, fired, blocked, polled, breaks, asked>>

\* The timeout of receive, and the end of the helper's output.
NoAnswer_WaitsForEver ==
    /\ BackendRuns /\ answers = <<>>
    /\ backend.at \in {"asking", "closing"} /\ ~helper.alive
NoAnswer ==
    /\ BackendRuns /\ answers = <<>>
    /\ backend.at \in {"asking", "closing"}
    /\ ~helper.alive \/ backend.waited >= ReadTimeout
GiveUp ==
    /\ NoAnswer /\ backend.at = "asking"
    /\ Fail
    /\ UNCHANGED <<answers, faults, fired, blocked, polled, breaks, asked>>

\* The runtime drops the backend: on an error it was told of, or to quit.
Stop ==
    /\ BackendRuns /\ backend.at = "idle"
    /\ Closing
    /\ UNCHANGED <<left, answers, helper, faults, fired, blocked, polled, breaks, asked>>

\* HelperSession::shutdown returns with any answer, or without one.
ShutdownAnswered ==
    /\ BackendRuns /\ backend.at = "closing" /\ answers # <<>>
    /\ answers' = Tail(answers)
    /\ backend' = [Nothing EXCEPT !.at = "reaping"]
    /\ UNCHANGED <<left, requests, helper, faults, fired, blocked, polled, breaks, asked>>
ShutdownUnanswered ==
    /\ NoAnswer /\ backend.at = "closing"
    /\ backend' = [Nothing EXCEPT !.at = "reaping"]
    /\ UNCHANGED <<left, requests, answers, helper, faults, fired, blocked, polled, breaks, asked>>

\* wait_for_helper_exit_or_kill
WaitIsOver ==
    /\ backend.at = "reaping"
    /\ ~helper.alive \/ backend.waited >= ShutdownTimeout
Reap ==
    /\ BackendRuns /\ WaitIsOver
    /\ helper' = [helper EXCEPT !.alive = FALSE, !.tap = FALSE]
    /\ backend' = [Nothing EXCEPT !.at = "gone"]
    /\ UNCHANGED <<left, requests, answers, faults, fired, blocked, polled, breaks, asked>>

-----------------------------------------------------------------------------
(* The helper *)

\* BreakOverlayController: clear, show, update, noteHeartbeat.
Cleared(h) == [h EXCEPT !.tap = FALSE, !.shown = FALSE, !.zero = {}, !.beat = {}]
Beat_StartOnly(h) == IF h.shown /\ h.beat = {} THEN [h EXCEPT !.beat = {HeartbeatTimeout}] ELSE h
Beat(h) == IF h.shown THEN [h EXCEPT !.beat = {HeartbeatTimeout}] ELSE h

\* The tap can be refused, after the state was set.
Show(h, tap) == IF tap THEN Beat([Cleared(h) EXCEPT !.shown = TRUE, !.tap = TRUE])
                ELSE [Cleared(h) EXCEPT !.shown = TRUE]
Update(h, zero) ==
    IF ~h.shown THEN h
    ELSE [Beat(h) EXCEPT !.zero = IF ~zero THEN {} ELSE IF @ = {} THEN {ZeroTimeout} ELSE @]

\* runProtocolLoop: all but the handshake is done on the main thread, which the
\* protocol thread waits for.
Answer(message, h, reply) ==
    /\ helper.alive /\ helper.protocol = "reading"
    /\ requests # <<>> /\ Head(requests) = message
    /\ message \notin {"hello", "preflight"} => helper.main = "running"
    /\ requests' = Tail(requests)
    /\ helper' = h
    /\ answers' = Append(answers, reply)
    /\ UNCHANGED <<backend, left, faults, fired, blocked, polled, breaks, asked>>

HandleHello == \E r \in {"ready", "error"} :
    Answer("hello", IF r = "ready" THEN helper ELSE [helper EXCEPT !.protocol = "ended"], r)
HandlePreflight == \E r \in {"permissions", "permissions missing"} :
    Answer("preflight", helper, r)
HandleStart == \E tap \in BOOLEAN :
    Answer("start", Show(helper, tap), IF tap THEN "complete start" ELSE "error")
HandleUpdate == Answer("update", Update(helper, FALSE), "complete update")
HandleZero == Answer("zero", Update(helper, TRUE), "complete update")
HandleFinish == \E r \in {"complete finish", "error"} : Answer("finish", Cleared(helper), r)
HandleClear == Answer("clear", Cleared(helper), "complete clear")
HandlePoll == Answer("poll", Beat(helper), "sample")
HandleShutdown == Answer("shutdown", [Cleared(helper) EXCEPT !.protocol = "ended"],
                         "shutdown complete")

\* The end of its input ends the protocol loop, and its end the process.
EndOfInput ==
    /\ helper.alive /\ helper.protocol = "reading" /\ helper.main = "running"
    /\ requests = <<>> /\ "daemon dies" \in faults
    /\ helper' = [Cleared(helper) EXCEPT !.protocol = "ended"]
    /\ UNCHANGED <<backend, left, requests, answers, faults, fired, blocked, polled, breaks, asked>>
HelperExits ==
    /\ helper.alive /\ helper.protocol = "ended" /\ helper.main = "running"
    /\ helper' = [helper EXCEPT !.alive = FALSE, !.tap = FALSE]
    /\ UNCHANGED <<backend, left, requests, answers, faults, fired, blocked, polled, breaks, asked>>

Handles ==
    \/ HandleHello \/ HandlePreflight \/ HandleStart \/ HandleUpdate \/ HandleZero
    \/ HandleFinish \/ HandleClear \/ HandlePoll \/ HandleShutdown
    \/ EndOfInput \/ HelperExits

\* The watchdogs' timers are the main thread's.
Due == (IF 0 \in helper.zero THEN {"zero"} ELSE {}) \cup (IF 0 \in helper.beat THEN {"beat"} ELSE {})
WatchdogFires ==
    /\ helper.alive /\ helper.main = "running" /\ Due # {}
    /\ helper' = Cleared(helper)
    /\ fired' = fired \cup Due
    /\ UNCHANGED <<backend, left, requests, answers, faults, blocked, polled, breaks, asked>>

-----------------------------------------------------------------------------
(* Faults and time *)

\* What a fault does to the helper; a process that dies takes its tap along.
Faulty(f) ==
    CASE f = "protocol hangs" -> [helper EXCEPT !.protocol = "hung"]
      [] f = "main hangs"     -> [helper EXCEPT !.main = "hung"]
      [] f = "helper stops"   -> [helper EXCEPT !.protocol = "hung", !.main = "hung"]
      [] f = "helper dies"    -> [helper EXCEPT !.alive = FALSE, !.tap = FALSE]
      [] OTHER                -> helper
Fault(f) ==
    /\ f \notin faults /\ Cardinality(faults) < MaxFaults
    /\ helper.alive /\ backend.at # "gone"
    /\ faults' = faults \cup {f}
    /\ helper' = Faulty(f)
    /\ UNCHANGED <<backend, left, requests, answers, fired, blocked, polled, breaks, asked>>

\* What has to be done before time goes on: the backend reads what is there,
\* gives up what has waited long enough, and polls; a watchdog that is due fires;
\* and a helper that still runs answers before the backend gives it up.
Urgent ==
    \/ BackendRuns /\ backend.at \in {"asking", "closing"} /\ answers # <<>>
    \/ NoAnswer
    \/ BackendRuns /\ backend.at = "idle" /\ (~polled \/ backend.stop)
    \/ BackendRuns /\ WaitIsOver
    \/ helper.alive /\ helper.main = "running" /\ (Due # {} \/ helper.protocol = "ended")
    \/ faults \cap {"protocol hangs", "main hangs", "helper stops"} = {} /\ helper.alive
         /\ requests # <<>> /\ backend.waited >= ReadTimeout - 1
    \/ helper.alive /\ "daemon dies" \in faults /\ helper.protocol = "reading"
         /\ helper.main = "running"

Less(option) == {IF t > 0 THEN t - 1 ELSE 0 : t \in option}

\* What the timeouts add up to: a command that gets no answer, which only tells
\* the runtime, the poll behind it, which ends the backend, the shutdown request
\* and the wait for the exit.
KillTime == 1 + 3 * ReadTimeout + ShutdownTimeout
Tick ==
    /\ ~Urgent
    /\ left' = Less(left)
    /\ helper' = [helper EXCEPT !.zero = Less(@), !.beat = Less(@)]
    /\ backend' = [backend EXCEPT !.waited = IF backend.at \in {"asking", "closing", "reaping"}
                                                /\ @ < ReadTimeout + ShutdownTimeout
                                             THEN @ + 1 ELSE @]
    /\ blocked' = IF helper.tap /\ faults # {}
                  THEN (IF blocked <= KillTime THEN blocked + 1 ELSE blocked) ELSE 0
    /\ polled' = FALSE
    /\ UNCHANGED <<requests, answers, faults, fired, breaks, asked>>

Backend ==
    \/ Poll \/ Receive \/ GiveUp
    \/ ShutdownAnswered \/ ShutdownUnanswered \/ Reap

Next ==
    \/ Backend
    \/ StartBreak \/ ReplaceBreak \/ RequestLock \/ ClearBreak
    \/ Stop
    \/ Handles
    \/ WatchdogFires
    \/ \E f \in Faults : Fault(f)
    \/ Tick

\* The threads that have not stopped run on, and so does time.
Fairness ==
    /\ WF_vars(Backend)
    /\ WF_vars(Handles)
    /\ WF_vars(WatchdogFires)
    /\ WF_vars(Stop /\ backend.stop)
    /\ WF_vars(Tick)

Spec == Init /\ [][Next]_vars /\ Fairness

-----------------------------------------------------------------------------

\* Whichever thread or process stops, the input that a break blocks is given back
\* ("Make it impossible for the macOS break overlay ... to outlive a break",
\* build-notes/overlay-stuck-recovery.md).
OverlayReleased == helper.tap ~> ~helper.tap

\* Once the backend is gone the helper is: no process stays behind.
NothingStaysBehind == backend.at = "gone" => ~helper.alive

\* While everything runs, however slowly the helper answers within the read
\* timeout, the heartbeat watchdog leaves the overlay alone ("Does not falsely
\* fire", build-notes/overlay-stuck-recovery.md).
HeartbeatHoldsStill == faults = {} => "beat" \notin fired

\* A helper that stops answering is killed, and gives the input back, at the latest
\* when three read timeouts and the wait for its exit have passed.
HungHelper == faults \cap {"protocol hangs", "main hangs", "helper stops"} # {}
ReleasedByKill == HungHelper => blocked <= KillTime

\* "the Rust read timeout fires, the helper is killed, and input returns within the
\* deadline + 2s" (build-notes/overlay-stuck-recovery.md), one poll allowed for.
ReleasedByDeadline == HungHelper => blocked <= 1 + ReadTimeout + ShutdownTimeout
=============================================================================
