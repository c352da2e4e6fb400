------------------------------ MODULE MacOSOps ------------------------------
(***************************************************************************)
(* The macOS backend of src/macos_helper.rs (MacOSHelperCore) and the      *)
(* overlay of its helper process (helpers/macos-helper) as operators on a  *)
(* value.  It is a record                                                  *)
(*   active   active_break, an Option of [ends, seen, lock, deferred];     *)
(*            deferred says that deferred_finish is set                    *)
(*   overlay  the helper's BreakOverlayState, an Option of [lock]          *)
(*   tap      the helper's event tap is installed: keyboard and pointer    *)
(*            are blocked                                                  *)
(*   clicked  the helper's lockAfterBreakRequested                         *)
(*   locks    session locks started in the step that ran last              *)
(*   end      how the last break ended: with a lock, without one, or put   *)
(*            off until the session was unlocked                           *)
(* A request and the helper's answer to it are one step here; MacOSHelper  *)
(* takes them apart.  Any request may fail: "refused" by a helper that     *)
(* cannot install its tap or lock the session, "lost" on the way to it, or *)
(* carried out with an answer that comes too "late".                       *)
(***************************************************************************)
EXTENDS ActivityOps

Answers == {"done", "refused", "lost", "late"}

NoBreak == [active |-> {}, overlay |-> {}, tap |-> FALSE, clicked |-> FALSE,
            locks |-> 0, end |-> "none"]

Quiet(m) == [m EXCEPT !.locks = 0]

-----------------------------------------------------------------------------
(* The helper's overlay *)

\* What becomes of a step of the helper, from the state before to the one after.
Reached(before, after, answer) == IF answer = "lost" THEN before ELSE after

\* BreakOverlayController.clear
Taken(m) == [m EXCEPT !.overlay = {}, !.tap = FALSE, !.clicked = FALSE]

\* show: the state is set before the tap is tried.
Shown(m, lock, answer) ==
    [Taken(m) EXCEPT !.overlay = {[lock |-> lock]}, !.tap = answer # "refused"]

\* update
Updated(m, lock) == [m EXCEPT !.overlay = {[lock |-> lock] : o \in @}]

\* markLockAfterBreakRequested, for a click on the control of a visible overlay.
CanClick(m) == m.tap /\ \E o \in m.overlay : ~o.lock
Click(m) == [m EXCEPT !.overlay = {[lock |-> TRUE]}, !.clicked = TRUE]

-----------------------------------------------------------------------------
(* Commands *)

ActiveBreak(now, left, lock) ==
    [ends |-> now + left, seen |-> now, lock |-> lock, deferred |-> FALSE]

\* start_break: a break the helper does not show leaves active_break as it was.
StartBreak(m, now, c, answer) ==
    LET s == Reached(m, Shown(m, c.lock, answer), answer)
    IN  IF answer = "done" THEN [s EXCEPT !.active = {ActiveBreak(now, c.remaining, c.lock)}]
        ELSE s

\* replace_active_break
ReplaceActiveBreak(m, now, c, answer) ==
    LET r == [m EXCEPT !.active = {ActiveBreak(now, c.remaining, c.lock)}]
    IN  IF m.active = {} THEN m ELSE Reached(r, Updated(r, c.lock), answer)

\* finish_active_break: nothing once the break is gone; active_break is taken
\* before the request is sent.
Finish(m, lock, answer) ==
    LET f == [m EXCEPT !.active = {}, !.end = IF lock THEN "locked" ELSE "unlocked"]
        h == [Taken(f) EXCEPT !.locks = IF lock /\ answer # "refused" THEN 1 ELSE 0]
    IN  IF m.active = {} THEN [m EXCEPT !.end = "none"] ELSE Reached(f, h, answer)

\* request_lock_after_current_break
RequestLockAfter_HelperOnly(m, answer) == Reached(m, Updated(m, TRUE), answer)
RequestLockAfter(m, answer) ==
    LET r == [m EXCEPT !.active = {[a EXCEPT !.lock = TRUE] : a \in @}]
    IN  IF m.active = {} THEN m ELSE Reached(r, Updated(r, TRUE), answer)

\* clear_break keeps active_break when its request fails.
Cleared(m) == [Taken(m) EXCEPT !.active = {}]
ClearBreak(m, answer) ==
    IF answer = "done" THEN Cleared(m) ELSE Reached(m, Taken(m), answer)

\* handle_command
HandleCommand(m, now, c, answer) ==
    LET q == Quiet(m)
    IN  CASE c.kind = "StartBreak"         -> StartBreak(q, now, c, answer)
          [] c.kind = "ReplaceActiveBreak" -> ReplaceActiveBreak(q, now, c, answer)
          [] c.kind = "FinishBreak"        -> Finish(q, c.lock, answer)
          [] c.kind = "RequestLock"        -> RequestLockAfter(q, answer)
          [] c.kind = "ClearBreak"         -> ClearBreak(q, answer)

\* A request is sent, and may fail, unless the command finds no break.  What the
\* helper can refuse is to block the input and to lock the session.
MayFail(m, c, answer) ==
    /\ c.kind \notin {"StartBreak", "ClearBreak"} => m.active # {}
    /\ answer = "refused" => c.kind = "StartBreak" \/ (c.kind = "FinishBreak" /\ c.lock)

\* queue_backend_error
CommandEvents(answer) == IF answer = "done" THEN <<>> ELSE <<Event("Shutdown")>>

-----------------------------------------------------------------------------
(* A sample during a break: apply_overlay_sample *)

Deferred_Never(m) == FALSE
Deferred(m) == \E a \in m.active : a.deferred
Over(m, now) == \E a \in m.active : ~a.deferred /\ now >= a.ends
AsksForLock(m) == m.clicked \/ \E a \in m.active : a.lock

Seen(m, now) ==
    [Quiet(m) EXCEPT !.clicked = FALSE, !.active = {[a EXCEPT !.seen = now] : a \in @}]
Elapsed(m, now) == WallClockElapsed(now - (CHOOSE a \in m.active : TRUE).seen)

\* A break that is over ends at once, or, while the session is locked, with the
\* first sample that finds it unlocked and then without a lock.  A request that
\* fails here ends the backend instead (BackendFails).
SampleOverlay_LocksAgain(m, now, session) ==
    LET s == [Seen(m, now) EXCEPT !.active = {[a EXCEPT !.lock = AsksForLock(m)] : a \in @}]
    IN  IF Deferred(m)
        THEN IF session = "locked" THEN Seen(m, now)
             ELSE [Finish(Seen(m, now), AsksForLock(m), "done") EXCEPT !.end = "deferred"]
        ELSE IF ~Over(m, now) THEN Updated(s, AsksForLock(m))
        ELSE IF session = "locked"
             THEN [s EXCEPT !.active = {[a EXCEPT !.deferred = TRUE] : a \in @}]
             ELSE Finish(s, AsksForLock(m), "done")
SampleOverlay(m, now, session) ==
    LET s == [Seen(m, now) EXCEPT !.active = {[a EXCEPT !.lock = AsksForLock(m)] : a \in @}]
    IN  IF Deferred(m)
        THEN IF session = "locked" THEN Seen(m, now)
             ELSE [Finish(Seen(m, now), FALSE, "done") EXCEPT !.end = "deferred"]
        ELSE IF ~Over(m, now) THEN Updated(s, AsksForLock(m))
        ELSE IF session = "locked"
             THEN [s EXCEPT !.active = {[a EXCEPT !.deferred = TRUE] : a \in @}]
             ELSE Finish(s, AsksForLock(m), "done")

OverlayEvents(m, now, session) ==
    <<Elapsed(m, now)>>
        \o (IF m.clicked /\ ~Deferred(m) THEN <<Event("LockAfterCurrentBreak")>> ELSE <<>>)
        \o (IF session = "unlocked" /\ (Deferred(m) \/ Over(m, now))
            THEN <<Event("BreakFinished")>> ELSE <<>>)
=============================================================================
