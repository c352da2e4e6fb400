------------------------------- MODULE X11Ops -------------------------------
(***************************************************************************)
(* The X11 backend of src/x11_activity.rs as operators on a value.  It is a *)
(* record                                                                  *)
(*   active    active_break, an Option of [ends, seen, reported, lock]:    *)
(*             the overlay is up and holds the input; seen is its          *)
(*             last_observed_at                                            *)
(*   pending   pending_break, an Option of [waited, left, lock]: the input *)
(*             could not be grabbed yet                                    *)
(*   bells     breaks it rang the bell for, and session locks it started,  *)
(*   locks     in the step that ran last                                   *)
(* lock is the state of the overlay's lock control.  Whether a grab        *)
(* succeeds is the X server's to say: an operator that shows an overlay    *)
(* takes the answer, "shown" or "refused" (a retryable grab status), as its *)
(* argument; any other X error ends the backend (BackendFails, X11Daemon). *)
(***************************************************************************)
EXTENDS ActivityOps, SequencesExt

CONSTANT RetryLimit     \* samples in BREAK_START_RETRY_TIMEOUT

ASSUME RetryLimitAssumption == RetryLimit \in Nat \ {0}

Answers == {"shown", "refused"}

Idle == [active |-> {}, pending |-> {}, bells |-> 0, locks |-> 0]

Overlay(now, left, lock) ==
    [ends |-> now + left, seen |-> now, reported |-> FALSE, lock |-> lock]

\* clear_break
Cleared(x) == [x EXCEPT !.active = {}, !.pending = {}]

\* start_break clears whatever was there.
StartOverlay(x, now, c, answer) ==
    IF answer = "shown"
    THEN [Cleared(x) EXCEPT !.active = {Overlay(now, c.remaining, c.lock)}]
    ELSE [Cleared(x) EXCEPT !.pending = {[waited |-> 0, left |-> c.remaining, lock |-> c.lock]}]

\* replace_active_break
ReplaceOverlay(x, now, c) ==
    IF x.active # {} THEN [x EXCEPT !.active = {Overlay(now, c.remaining, c.lock)}]
    ELSE [x EXCEPT !.pending = {[p EXCEPT !.left = c.remaining, !.lock = c.lock] : p \in @}]

\* finish_break: bell and lock only with an overlay.
FinishOverlay(x, c) ==
    [Cleared(x) EXCEPT !.bells = Cardinality(x.active),
                       !.locks = IF c.lock THEN Cardinality(x.active) ELSE 0]

\* request_lock_after_current_break
LockOverlay(x) ==
    IF x.active # {} THEN [x EXCEPT !.active = {[a EXCEPT !.lock = TRUE] : a \in @}]
    ELSE [x EXCEPT !.pending = {[p EXCEPT !.lock = TRUE] : p \in @}]

Quiet(x) == [x EXCEPT !.bells = 0, !.locks = 0]

\* handle_command
HandleCommand(x, now, c, answer) ==
    LET q == Quiet(x)
    IN  CASE c.kind = "StartBreak"         -> StartOverlay(q, now, c, answer)
          [] c.kind = "ReplaceActiveBreak" -> ReplaceOverlay(q, now, c)
          [] c.kind = "FinishBreak"        -> FinishOverlay(q, c)
          [] c.kind = "RequestLock"        -> LockOverlay(q)
          [] c.kind = "ClearBreak"         -> Cleared(q)

-----------------------------------------------------------------------------
(* Samples: what a wait that times out does, and the events it queues      *)

\* handle_button_press: a click counts while the control is off.
Clicked(a, click) == click /\ ~a.lock

\* mark_finished_if_due
Due_Early(a, now) == ~a.reported /\ now + 1 >= a.ends
Due(a, now) == ~a.reported /\ now >= a.ends

\* sample_overlay_once: the overlay stays until the runtime says so.
SampleOverlay(x, now, click) ==
    [Quiet(x) EXCEPT !.active = {[a EXCEPT !.lock = @ \/ click, !.seen = now,
                                           !.reported = @ \/ Due(a, now)] : a \in @}]

\* sample_overlay_once: what advance() measured, a click, the end.
Observed(x, now) == SetToSeq({WallClockElapsed(now - a.seen) : a \in x.active})
OverlayEvents_LockInstead(x, now, click) ==
    Observed(x, now)
        \o (IF \E a \in x.active : Clicked(a, click)
            THEN <<Event("LockAfterCurrentBreak")>>
            ELSE IF \E a \in x.active : Due(a, now) THEN <<Event("BreakFinished")>> ELSE <<>>)
OverlayEvents(x, now, click) ==
    Observed(x, now)
        \o (IF \E a \in x.active : Clicked(a, click)
            THEN <<Event("LockAfterCurrentBreak")>> ELSE <<>>)
        \o (IF \E a \in x.active : Due(a, now) THEN <<Event("BreakFinished")>> ELSE <<>>)

\* sample_pending_break_once: another try, up to the limit.
GaveUp(x, answer) ==
    answer = "refused" /\ \E p \in x.pending : p.waited + 1 >= RetryLimit
SamplePending(x, now, answer) ==
    LET p == CHOOSE p \in x.pending : TRUE
    IN  IF answer = "shown"
        THEN [Quiet(x) EXCEPT !.pending = {}, !.active = {Overlay(now, p.left, p.lock)}]
        ELSE IF GaveUp(x, answer) THEN [Quiet(x) EXCEPT !.pending = {}]
        ELSE [Quiet(x) EXCEPT !.pending = {[p EXCEPT !.waited = @ + 1]}]
PendingEvents_Silent(x, tick, answer) == <<WallClockElapsed(tick)>>
PendingEvents(x, tick, answer) ==
    <<WallClockElapsed(tick)>>
        \o (IF GaveUp(x, answer) THEN <<Event("BreakStartFailed")>> ELSE <<>>)
=============================================================================
