----------------------------- MODULE ActivityOps ----------------------------
(***************************************************************************)
(* The poller both backends sample activity with, and the deadline both    *)
(* end a break by (src/activity.rs).  Clock readings are integers: the     *)
(* system clock may be set back.                                           *)
(***************************************************************************)
EXTENDS Integers, FiniteSets, Sequences

Event(k) == [kind |-> k]
WallClockElapsed(e) == [kind |-> "WallClockElapsed", elapsed |-> e]

\* unobserved_idle_since_last_sample, 0 for None; last is an Option.
UnobservedIdle_Forgets(last, at, poll) == 0
UnobservedIdle(last, at, poll) ==
    IF \E l \in last : at - l > poll THEN at - (CHOOSE l \in last : TRUE) - poll ELSE 0

\* queue_sample_at: the wall clock first, then the time nobody sampled as idle,
\* then the sample itself.
ActivityEvents_GapIsActive(poll, gap, active) ==
    <<WallClockElapsed(poll + gap),
      [kind |-> IF active THEN "ActiveTimeElapsed" ELSE "IdleTimeElapsed",
       elapsed |-> poll + gap]>>
ActivityEvents(poll, gap, active) ==
    <<WallClockElapsed(poll)>>
        \o (IF gap > 0 THEN <<[kind |-> "IdleTimeElapsed", elapsed |-> gap]>> ELSE <<>>)
        \o <<[kind |-> IF active THEN "ActiveTimeElapsed" ELSE "IdleTimeElapsed",
              elapsed |-> poll]>>

\* BreakDeadline: a deadline that has passed leaves no time, one that a clock set
\* back has moved away no more than the whole duration.
Deadline(at, duration) == [ends |-> at + duration, duration |-> duration]
RemainingAt_NoClamp(deadline, now) ==
    IF now >= deadline.ends THEN 0 ELSE deadline.ends - now
RemainingAt(deadline, now) ==
    CASE now >= deadline.ends -> 0
      [] deadline.ends - now > deadline.duration -> deadline.duration
      [] OTHER -> deadline.ends - now
=============================================================================
