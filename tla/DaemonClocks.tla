---------------------------- MODULE DaemonClocks ----------------------------
(***************************************************************************)
(* The daemon and its two clocks.  The backends take every reading twice   *)
(* (ObservedTime): a monotonic one, which stands still while the machine   *)
(* sleeps, and one of the system clock, which does not, but may be set     *)
(* forward or back.  Breaks and timed disables end by the system clock,    *)
(* what a break reports of itself is monotonic, and the idle time nobody   *)
(* sampled - during a break, or asleep - is taken from the system clock.   *)
(*                                                                         *)
(* Runtime and backend take turns here: a sample, the events it queues and *)
(* the commands they lead to are one step, X11Daemon and MacOSDaemon take  *)
(* them apart.  The machine is awake for at least a tick between samples.  *)
(***************************************************************************)
EXTENDS RuntimeOps, ActivityOps

CONSTANTS
    DisableTimes,      \* the disable presets
    SleepTimes,        \* how long the machine sleeps
    Jumps,             \* by how much the system clock is set forward or back
    MaxReal,           \* bounds: on the time that passes,
    MaxJumped,         \* on the sum of the jumps either way,
    MaxSlot            \* and on the slots

ASSUME ClocksAssumption ==
    /\ DisableTimes \subseteq Nat \ {0} /\ SleepTimes \subseteq Nat \ {0}
    /\ Jumps \subseteq Int /\ MaxReal \in Nat /\ MaxJumped \in Nat /\ MaxSlot \in Nat

VARIABLES
    daemon,    \* the runtime; its now is what the system clock reads
    mono,      \* what the monotonic clock reads
    last,      \* last_sampled_at, an Option
    active,    \* active_break, an Option of [deadline, seen]
    due,       \* the wait of run_actor has timed out
    real,      \* the time that has really passed
    jumped,    \* [fwd, back]: how far the clock was set
    rested,    \* an Option: when the poller last saw the user active, or began
    started,   \* [real, fwd, back] when the last break
    disabled   \* and the last timed disable began

vars == <<daemon, mono, last, active, due, real, jumped, rested, started, disabled>>

Poll == 1
Steady == jumped = [fwd |-> 0, back |-> 0]
NoMark == [real |-> 0, fwd |-> 0, back |-> 0]
Mark == [real |-> real, fwd |-> jumped.fwd, back |-> jumped.back]

Init ==
    /\ daemon = UpdateStatus(NewDaemon(1))
    /\ mono = 0 /\ last = {} /\ active = {} /\ due = FALSE
    /\ real = 0 /\ jumped = [fwd |-> 0, back |-> 0] /\ rested = {}
    /\ started = NoMark /\ disabled = NoMark

-----------------------------------------------------------------------------
(* Runtime and backend *)

\* ActiveBreak::new, and what ends one: the last command of a turn says whether
\* there is a break.
NewBreak(c) == [deadline |-> Deadline(daemon.now, c.remaining), seen |-> mono]
OnCommand(option, cmds) ==
    IF cmds = <<>> THEN option
    ELSE LET c == cmds[Len(cmds)]
         IN  CASE c.kind = "StartBreak" -> {NewBreak(c)}
               [] c.kind \in {"FinishBreak", "ClearBreak"} -> {}

\* The runtime handles the events one by one, of which a turn has three at most.
Handled(d, e) == IF d.running THEN LocalEvent(d, e) ELSE d
HandledAt(d, events, i) == IF i \in DOMAIN events THEN Handled(d, events[i]) ELSE d
HandledAll(events) == HandledAt(HandledAt(HandledAt(daemon, events, 1), events, 2), events, 3)

Turn(events, option) ==
    LET d == HandledAll(events)
    IN  /\ d.sched.slot <= MaxSlot
        /\ daemon' = [d EXCEPT !.cmds = <<>>, !.sent = <<>>]
        /\ active' = OnCommand(option, d.cmds)
        /\ started' = CASE active' = {} -> NoMark
                        [] active' # {} /\ active = {} -> Mark
                        [] OTHER -> started
        /\ disabled' = CASE d.disable.kind # "Timed" -> NoMark
                         [] d.disable.kind = "Timed" /\ d.disable # daemon.disable -> Mark
                         [] OTHER -> disabled

\* sample_activity_once with queue_sample_at
SampleActivity(isActive) ==
    LET gap == UnobservedIdle(last, daemon.now, Poll)
        events == ActivityEvents(Poll, gap, isActive)
    IN  /\ due /\ active = {}
        /\ Turn(events, active)
        /\ last' = {daemon.now}
        /\ due' = FALSE
        /\ rested' = IF isActive THEN {real} ELSE IF rested = {} THEN {real - Poll} ELSE rested
        /\ UNCHANGED <<mono, real, jumped>>

\* sample_overlay_once: elapsed by one clock, finished by the other.
ClockOfBreaks_Monotonic == mono
ClockOfBreaks == daemon.now
Elapsed(a) == mono - a.seen
SampleOverlay ==
    LET a == CHOOSE a \in active : TRUE
        finished == RemainingAt(a.deadline, ClockOfBreaks) = 0
    IN  /\ due /\ active # {}
        /\ Turn(<<WallClockElapsed(Elapsed(a))>>
                    \o (IF finished THEN <<Event("BreakFinished")>> ELSE <<>>),
                {[a EXCEPT !.seen = mono]})
        /\ due' = FALSE
        /\ UNCHANGED <<mono, last, real, jumped, rested>>

\* From the tray.
StartByHand(name) ==
    /\ ~due
    /\ Turn(<<[kind |-> "StartManualBreak", name |-> name]>>, active)
    /\ UNCHANGED <<mono, last, due, real, jumped, rested>>

DisableForATime(t) ==
    /\ ~due
    /\ Turn(<<[kind |-> "DisableFor", duration |-> t]>>, active)
    /\ UNCHANGED <<mono, last, due, real, jumped, rested>>

EnableByHand ==
    /\ ~due
    /\ Turn(<<Event("Enable")>>, active)
    /\ UNCHANGED <<mono, last, due, real, jumped, rested>>

-----------------------------------------------------------------------------
(* Time *)

Still == UNCHANGED <<last, active, rested, started, disabled>>

Tick ==
    /\ ~due /\ real < MaxReal
    /\ due' = TRUE
    /\ mono' = mono + 1 /\ real' = real + 1
    /\ daemon' = [daemon EXCEPT !.now = @ + 1]
    /\ UNCHANGED jumped /\ Still

Sleep(t) ==
    /\ ~due /\ real + t <= MaxReal
    /\ real' = real + t
    /\ daemon' = [daemon EXCEPT !.now = @ + t]
    /\ UNCHANGED <<mono, due, jumped>> /\ Still

SetClock(j) ==
    /\ ~due
    /\ daemon' = [daemon EXCEPT !.now = @ + j]
    /\ jumped' = [fwd |-> jumped.fwd + LaterOf(j, 0), back |-> jumped.back + LaterOf(-j, 0)]
    /\ jumped'.fwd <= MaxJumped /\ jumped'.back <= MaxJumped
    /\ UNCHANGED <<mono, due, real>> /\ Still

Next ==
    \/ \E b \in BOOLEAN : SampleActivity(b)
    \/ SampleOverlay
    \/ \E name \in Names : StartByHand(name)
    \/ \E t \in DisableTimes : DisableForATime(t)
    \/ EnableByHand
    \/ Tick
    \/ \E t \in SleepTimes : Sleep(t)
    \/ \E j \in Jumps : SetClock(j)

Spec == Init /\ [][Next]_vars

-----------------------------------------------------------------------------

\* Whatever was not sampled - a break, a sleep - is not active time: the scheduler
\* never has more of it than the machine was awake without a break.
ActiveTimeIsAwake == AfterActive * daemon.sched.slot + daemon.sched.elapsed <= mono

\* A rest resets the active time, at the first sample after it at the latest, and
\* whether the user rested at the keyboard, through a break, with the machine
\* asleep or through several of them in a row.
RestResets ==
    [][\A t \in ResetAfterIdle : \A r \in rested :
         Steady /\ due /\ active = {} /\ ~due' =>
             /\ rested' = {real} /\ real - Poll - r >= t => daemon'.sched.elapsed <= Poll
             /\ rested' # {real} /\ real - r >= t => daemon'.sched.elapsed = 0]_vars

\* What a deadline of the given length may still lie off, given when it began: the
\* clock set forward ends it early by that much, set back late by that much.
NotLate(begun, length) == real - begun.real < length + (jumped.back - begun.back)
NotEarly(begun, length) == real - begun.real >= length - (jumped.fwd - begun.fwd)

Length == LET c == CHOOSE c \in daemon.current : TRUE IN Duration[c.name]

\* A break goes on through a sleep ("Make an active break finish on time when the
\* machine sleeps through its deadline", build-notes/sleep-aware-break-deadline.md):
\* with the first sample after its time it is over, and not before.
BreakOnTime ==
    [][/\ due /\ active # {} /\ active' # {} => NotLate(started, Length)
       /\ due /\ active # {} /\ active' = {} => NotEarly(started, Length)]_vars

\* The countdown is never above the break's length ("a backwards system-clock jump
\* (manual change, large NTP step) can neither panic nor inflate the countdown"),
\* and off what is really left by no more than the clock was set.
CountdownIsHonest ==
    \A a \in active :
        LET left == RemainingAt(a.deadline, daemon.now)
            truly == Length - (real - started.real)
        IN  /\ left <= Length
            /\ left <= LaterOf(truly + jumped.back - started.back, 0)
            /\ left >= EarlierOf(truly - (jumped.fwd - started.fwd), Length)

\* A timed disable ends by the same clock, during a break started by hand as well.
DisableOnTime ==
    [][\A t \in DisableTimes :
         daemon.disable = DisabledUntil(disabled.real + disabled.fwd - disabled.back + t) =>
             /\ due /\ daemon'.disable = daemon.disable => NotLate(disabled, t)
             /\ due /\ daemon'.disable # daemon.disable => NotEarly(disabled, t)]_vars
=============================================================================
