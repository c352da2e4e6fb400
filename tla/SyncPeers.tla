------------------------------ MODULE SyncPeers -----------------------------
(***************************************************************************)
(* Two daemons that keep each other's schedule: two runtimes (RuntimeOps)  *)
(* joined by what their transports promise each other while connected, one *)
(* FIFO channel in each direction (SyncTransport shows EventsInOrder).     *)
(* Each runtime takes the events of its backend and those of its peer from *)
(* channels of their own, so that events of the two cross on the way.      *)
(*                                                                         *)
(* The clocks of the two agree ("roughly NTP-synced wall clocks",          *)
(* build-notes/sync-break-message.md), but everything takes time: an event *)
(* of a peer, a sample, and the report that a break is over, are handled   *)
(* up to MaxLag ticks late.                                                *)
(***************************************************************************)
EXTENDS RuntimeOps

CONSTANTS
    MaxSlot,           \* bounds: on the slots,
    MaxNow,            \* on the clock,
    MaxWire,           \* on the events under way in one direction,
    MaxLag,            \* on the ticks until everything under way is handled,
    MaxApart,          \* on how often the daemons are without each other,
    ApartUntil         \* and on the clock while they are

ASSUME PeersAssumption ==
    /\ MaxSlot \in Nat /\ MaxNow \in Nat /\ MaxWire \in Nat \ {0}
    /\ MaxLag \in Nat /\ MaxApart \in Nat /\ ApartUntil \in Nat

Daemons == {1, 2}
Other(n) == 3 - n

VARIABLES
    daemon,       \* daemon[n]: the runtime of n
    sample,       \* sample[n]: events of n's backend its runtime has not taken yet
    wire,         \* wire[n]: events under way to n
    connected,
    apart,        \* how often the daemons have been without each other
    lag,          \* ticks since nothing was under way
    own           \* own[n]: observer, the break n is in or was, if it started it itself

vars == <<daemon, sample, wire, connected, apart, lag, own>>

Init ==
    /\ daemon = [n \in Daemons |-> UpdateStatus(NewDaemon(n))]
    /\ sample = [n \in Daemons |-> <<>>]
    /\ wire = [n \in Daemons |-> <<>>]
    /\ \/ connected = TRUE /\ apart = 0
       \/ connected = FALSE /\ apart = 1 /\ MaxApart > 0
    /\ lag = 0
    /\ own = [n \in Daemons |-> {}]

-----------------------------------------------------------------------------

\* What a handler sends reaches the wire while the daemons are connected; w is
\* the wire without the event the handler took.
Handled(n, d, w) ==
    LET begun == {d.sent[i].event.start :
                      i \in {i \in DOMAIN d.sent : d.sent[i].event.kind = "BreakStarted"}}
    IN
    /\ daemon[n].running
    /\ daemon' = [daemon EXCEPT ![n] = [d EXCEPT !.cmds = <<>>, !.sent = <<>>]]
    /\ wire' = IF connected
               THEN [w EXCEPT ![Other(n)] = @ \o [i \in DOMAIN d.sent |-> d.sent[i].event]]
               ELSE w
    /\ own' = [own EXCEPT ![n] =
                   IF begun # {} THEN {[name |-> b.name, origin |-> b.origin, at |-> b.at] :
                                           b \in begun}
                   ELSE IF d.current = {} THEN {} ELSE @]
    /\ d.sched.slot <= MaxSlot
    /\ Len(wire'[Other(n)]) <= MaxWire
    /\ UNCHANGED <<connected, apart, lag>>

\* The poller: one sample of the wall clock and one of activity at a time.
Sample(n, e) ==
    /\ daemon[n].running /\ sample[n] = <<>> /\ daemon[n].current = {}
    /\ sample' = [sample EXCEPT ![n] = <<[kind |-> "WallClockElapsed", elapsed |-> 1], e>>]
    /\ UNCHANGED <<daemon, wire, connected, apart, lag, own>>
SampleActive(n) == Sample(n, [kind |-> "ActiveTimeElapsed", elapsed |-> 1])
SampleIdle(n) == Sample(n, [kind |-> "IdleTimeElapsed", elapsed |-> 1])

TakeSample(n) ==
    /\ sample[n] # <<>>
    /\ Handled(n, LocalEvent(daemon[n], Head(sample[n])), wire)
    /\ sample' = [sample EXCEPT ![n] = Tail(@)]

TakeFromPeer(n) ==
    /\ wire[n] # <<>>
    /\ Handled(n, SyncEvent(daemon[n], Other(n), Head(wire[n])),
               [wire EXCEPT ![n] = Tail(@)])
    /\ UNCHANGED sample

Over(n) == \E c \in daemon[n].current : Remaining(daemon[n], c.at, c.name) = 0

FinishBreakOf(n) ==
    /\ Over(n)
    /\ Handled(n, LocalEvent(daemon[n], [kind |-> "BreakFinished"]), wire)
    /\ UNCHANGED sample

StartByHand(n, name) ==
    /\ StartManualBreak(daemon[n].sched, name) # {}
    /\ Handled(n, LocalEvent(daemon[n], [kind |-> "StartManualBreak", name |-> name]), wire)
    /\ UNCHANGED sample

\* Both transports announce the other and both runtimes send their state.
Connect ==
    /\ ~connected
    /\ connected' = TRUE
    /\ wire' = [n \in Daemons |-> <<SchedulerState(daemon[Other(n)])>>]
    /\ UNCHANGED <<daemon, sample, apart, lag, own>>

Disconnect ==
    /\ connected /\ apart < MaxApart
    /\ \A n \in Daemons : daemon[n].now <= ApartUntil
    /\ connected' = FALSE /\ apart' = apart + 1
    /\ wire' = [n \in Daemons |-> <<>>]
    /\ UNCHANGED <<daemon, sample, lag, own>>

UnderWay == \E n \in Daemons : wire[n] # <<>> \/ sample[n] # <<>> \/ Over(n)

Tick ==
    /\ \A n \in Daemons : daemon[n].now < IF connected THEN MaxNow ELSE ApartUntil
    /\ daemon' = [n \in Daemons |-> [daemon[n] EXCEPT !.now = @ + 1]]
    /\ lag' = IF UnderWay THEN lag + 1 ELSE 0
    /\ lag' <= MaxLag
    /\ UNCHANGED <<sample, wire, connected, apart, own>>

Next ==
    \/ \E n \in Daemons :
          \/ SampleActive(n)
          \/ SampleIdle(n)
          \/ TakeSample(n)
          \/ TakeFromPeer(n)
          \/ FinishBreakOf(n)
          \/ \E name \in Rules : StartByHand(n, name)
    \/ Connect
    \/ Disconnect
    \/ Tick

Spec == Init /\ [][Next]_vars

\* A daemon starts a break, or joins one, while the other has yet to hear from its
\* backend that the last one is over: the other takes it for a break that started
\* later than its own, and stays out of it.
StartMeetsTheLast ==
    \E n \in Daemons :
        Over(Other(n)) /\ daemon[n].current = {} /\ daemon'[n].current # {}

PunctualSpec == Init /\ [][Next /\ ~StartMeetsTheLast]_vars

-----------------------------------------------------------------------------

\* Nothing is under way and no break waits to be finished.
Quiet == connected /\ \A n \in Daemons : wire[n] = <<>> /\ ~Over(n)

\* The break a daemon is in, while it has time left.
Running(n) == {[name |-> c.name, origin |-> c.origin, at |-> c.at] :
                   c \in {c \in daemon[n].current : Remaining(daemon[n], c.at, c.name) > 0}}

\* The rule of build-notes/sync-break-message.md ("smaller started_at_ms, then
\* smaller peer id on an exact tie") with that of build-notes/break-counter-sync.md
\* (newer scheduled slots win), for a break b of daemon 1 and a break c of daemon 2.
FirstWins(b, c) ==
    IF b.origin.kind = "Scheduled" /\ c.origin.kind = "Scheduled" /\ b.origin.slot # c.origin.slot
    THEN b.origin.slot > c.origin.slot
    ELSE b.at <= c.at

\* Breaks started by both daemons at about the same time, each before it hears of
\* the other's, end in one, the same for both: synced_break_replaces_current
\* compares, in each daemon, its own record with the other's report, and both must
\* come to the same answer ("both converge", build-notes/sync-break-message.md).  And
\* it is the one that the rule above says, seen from outside.
SameBreak ==
    Quiet /\ apart = 0 /\ (\A n \in Daemons : Running(n) # {}) =>
        /\ Running(1) = Running(2)
        /\ \A b \in own[1], c \in own[2] : Running(1) = {IF FirstWins(b, c) THEN b ELSE c}

\* No daemon is left working through a break the other one is in: a
\* BreakStarted is joined by an idle scheduler, and the one that crosses it
\* does not end it, also when one of them hears later than the other that the last
\* break is over.  (A lag as long as a break breaks this, as does a break that meets
\* the last one, PunctualSpec.  Daemons that have been apart can stay out of step for
\* the break one of them is in when they meet, this property and SameBreak.  And where
\* no rule is due at some slot, active time that ends there can cross a BreakStarted
\* and is counted by one of them only, this property and SameSlot.)
BothInBreak == Quiet /\ apart = 0 => (Running(1) # {} <=> Running(2) # {})

\* Daemons that are in the same break have the same slot, whatever each had counted
\* while they were apart (build-notes/break-counter-sync.md: "Keep synced peers on
\* the same scheduled break counter").
SameSlot ==
    Quiet /\ Running(1) # {} /\ Running(1) = Running(2) =>
        daemon[1].sched.slot = daemon[2].sched.slot

\* The same for all of the position, with what each rule was last satisfied by:
\* "manual break cadence resets converge across peers"
\* (build-notes/break-counter-sync.md).
SamePosition ==
    Quiet /\ Running(1) # {} /\ Running(1) = Running(2) =>
        Position(daemon[1].sched) = Position(daemon[2].sched)
=============================================================================
