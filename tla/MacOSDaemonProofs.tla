------------------------- MODULE MacOSDaemonProofs --------------------------
(***************************************************************************)
(* The runtime and the backend on macOS agree about the break, for every   *)
(* schedule and every length of the channels, although the backend ends a  *)
(* break before it says so, puts ends off while the session is locked, and *)
(* locks are asked for at the overlay and by peers.                        *)
(***************************************************************************)
EXTENDS MacOSDaemon, OperatorProofs, FiniteSetTheorems

-----------------------------------------------------------------------------
(* What the threads may hold                                               *)

BackendFields == {"active", "overlay", "tap", "clicked", "locks", "end"}

ActiveBreaks == [ends : Int, seen : Int, lock : BOOLEAN, deferred : BOOLEAN]

SoundActive(A) ==
    /\ A \subseteq ActiveBreaks
    /\ \A a, o \in A : a = o
    /\ \A a \in A : a.seen <= Present

SoundBackend(b) == DOMAIN b = BackendFields /\ SoundActive(b.active) /\ b.clicked \in BOOLEAN

-----------------------------------------------------------------------------
(* What the channels make of the two pictures.  A is the backend's active   *)
(* break.                                                                  *)

\* A lock the runtime has recorded has reached the backend or is on its way, and
\* the other way round.
SameLock(cur, A, C, E) ==
    \A c \in cur, a \in A :
        /\ c.lock => a.lock \/ Carries(C, "RequestLock")
        /\ Carries(C, "RequestLock") => c.lock
        /\ a.lock => c.lock \/ Carries(E, "LockAfterCurrentBreak")

\* The backend still has the current break.
Showing(cur, A, C, E) == A # {} /\ ~CarriesAny(E, Endings) /\ SameLock(cur, A, C, E)

\* The current break is gone, and the runtime will hear of it, or stops.
Ended(d, A, E) ==
    /\ A = {}
    /\ Carries(E, "BreakFinished") \/ Carries(E, "Shutdown") \/ ~d.running

\* The runtime's own FinishBreak always comes after the end.
Pictures(d, A, C, E) ==
    /\ Ordered(C) /\ AtMostOne(E, Endings) /\ ~Carries(E, "BreakStartFailed")
    /\ Carries(C, "StartBreak") => d.current # {} /\ Starting(d.current, C)
    /\ Carries(C, "FinishBreak") \/ Carries(C, "StartBreak") \/ d.current = {}
          => A = {} /\ ~CarriesAny(E, Endings)
    /\ d.current # {} /\ ~Carries(C, "StartBreak")
          => ~Carries(C, "FinishBreak") /\ (Showing(d.current, A, C, E) \/ Ended(d, A, E))

\* A backend that has ended holds nothing and is sent nothing.
Joint(d, A, C, E) == IF d.up THEN Pictures(d, A, C, E) ELSE C = <<>> /\ A = {}

\* The inductive invariant, for values and for the state.
AreLinked(d, b, C, E, s) ==
    /\ SoundRuntime(d) /\ SoundBackend(b)
    /\ C \in Seq(BreakCommands) /\ E \in Seq(Reports)
    /\ s \in {"locked", "unlocked"}
    /\ Joint(d, b.active, C, E)
Linked == AreLinked(daemon, m, commands, events, session)

-----------------------------------------------------------------------------
(* What the runtime does keeps the pictures right.  E is the queue of       *)
(* reports before, G after.                                                *)

LEMMA NothingNew ==
    ASSUME NEW d, NEW f, NEW A, NEW C, NEW E, NEW G, Pictures(d, A, C, E),
           f.current = d.current, SameNews(d, f, E, G)
    PROVE  Pictures(f, A, C, G)
<1>1. CarriesAny(G, Endings) <=> CarriesAny(E, Endings)
  BY DEF CarriesAny, SameNews
<1>2. AtMostOne(G, Endings) /\ ~Carries(G, "BreakStartFailed")
  BY DEF SameNews, Pictures, Endings
<1>3. Showing(d.current, A, C, E) => Showing(f.current, A, C, G)
  BY <1>1 DEF Showing, SameLock, SameNews
<1>4. Ended(d, A, E) => Ended(f, A, G)
  BY DEF Ended, SameNews, Endings
<1>5. QED
  BY <1>1, <1>2, <1>3, <1>4 DEF Pictures

\* A break the runtime starts.
LEMMA BreakStarts ==
    ASSUME NEW d, NEW f, NEW A, NEW C \in Seq(BreakCommands), NEW E, NEW G,
           Pictures(d, A, C, E), SameNews(d, f, E, G), d.current = {},
           NEW c, f.current = {c}, NEW k \in BreakCommands,
           k.kind = "StartBreak", c.lock = k.lock
    PROVE  Pictures(f, A, C \o <<k>>, G)
<1> DEFINE D == C \o <<k>>
<1>1. ~Carries(C, "StartBreak") /\ ~CarriesAny(E, Endings) /\ Ordered(C) /\ A = {}
  BY DEF Pictures
<1>2. AtMostOne(G, Endings) /\ ~CarriesAny(G, Endings)
  BY <1>1 DEF CarriesAny, SameNews, Pictures
<1>3. Ordered(D)
  BY <1>1, OrderedAfterSend
<1>4. \A q : Carries(D, q) <=> Carries(C, q) \/ k.kind = q
  BY CarriedAfterOne
<1>5. Starting({c}, D)
  BY <1>1, StartingAfterSend
<1> HIDE DEF D
<1>6. Carries(D, "StartBreak")
  BY <1>4
<1>7. Starting(f.current, D) /\ f.current # {}
  BY <1>5
<1>8. ~Carries(G, "BreakStartFailed")
  BY <1>2 DEF CarriesAny, Endings
<1>9. Pictures(f, A, D, G)
  BY <1>1, <1>2, <1>3, <1>6, <1>7, <1>8 DEF Pictures
<1>10. QED
  BY <1>9 DEF D

\* The report of the end: the overlay is gone, and the runtime confirms it.
LEMMA BreakEnds ==
    ASSUME NEW d, NEW f, NEW A, NEW C \in Seq(BreakCommands),
           NEW E \in Seq(Reports), Pictures(d, A, C, E),
           E # <<>>, Head(E).kind = "BreakFinished", f.current = {},
           NEW k \in BreakCommands, k.kind = "FinishBreak"
    PROVE  d.current # {} /\ Pictures(f, A, C \o <<k>>, Tail(E))
<1> DEFINE D == C \o <<k>>
<1>1. Head(E).kind \in Endings
  BY DEF Endings
<1>2. ~CarriesAny(Tail(E), Endings) /\ CarriesAny(E, Endings)
  BY <1>1, CarriedAfterTake DEF Pictures
<1>3. AtMostOne(Tail(E), Endings) /\ ~Carries(Tail(E), "BreakStartFailed")
  BY <1>2, CarriedAfterTake DEF Pictures, CarriesAny, Endings
<1>4. d.current # {} /\ ~Carries(C, "StartBreak") /\ ~Carries(C, "FinishBreak")
  BY <1>2 DEF Pictures
<1>5. A = {}
  BY <1>2, <1>4 DEF Pictures, Showing, Ended
<1>6. Ordered(D)
  BY <1>4, OrderedAfterSend DEF Pictures
<1>7. \A q : Carries(D, q) <=> Carries(C, q) \/ k.kind = q
  BY CarriedAfterOne
<1> HIDE DEF D
<1>8. Carries(D, "FinishBreak") /\ ~Carries(D, "StartBreak")
  BY <1>4, <1>7
<1>9. Pictures(f, A, D, Tail(E))
  BY <1>2, <1>3, <1>5, <1>6, <1>8 DEF Pictures
<1>10. QED
  BY <1>4, <1>9 DEF D

\* A lock asked for at the overlay or by a peer.
LEMMA LockAskedFor ==
    ASSUME NEW d, NEW f, NEW A, NEW C \in Seq(BreakCommands), NEW E, NEW G,
           Pictures(d, A, C, E), d.current # {}, f.current # {}, f.running = d.running,
           \A c \in f.current : c.lock = TRUE,
           \A k \in Endings \cup {"Shutdown"} : Carries(G, k) <=> Carries(E, k),
           AtMostOne(E, Endings) => AtMostOne(G, Endings),
           NEW k \in BreakCommands, k.kind = "RequestLock"
    PROVE  Pictures(f, A, C \o <<k>>, G)
<1> DEFINE D == C \o <<k>>
<1>1. CarriesAny(G, Endings) <=> CarriesAny(E, Endings)
  BY DEF CarriesAny
<1>2. Ordered(D) /\ AtMostOne(G, Endings)
  BY OrderedAfterSend DEF Pictures
<1>3. \A q : Carries(D, q) <=> Carries(C, q) \/ k.kind = q
  BY CarriedAfterOne
<1>4. Starting(f.current, D)
  BY StartingAfterSend
<1> HIDE DEF D
<1>5. /\ Carries(D, "FinishBreak") <=> Carries(C, "FinishBreak")
      /\ Carries(D, "StartBreak") <=> Carries(C, "StartBreak")
      /\ Carries(D, "RequestLock")
  BY <1>3
<1>6. Showing(d.current, A, C, E) => Showing(f.current, A, D, G)
  BY <1>1, <1>5 DEF Showing, SameLock
<1>7. Ended(d, A, E) => Ended(f, A, G)
  BY DEF Ended, Endings
<1>8. ~Carries(G, "BreakStartFailed")
  BY DEF Pictures, Endings
<1>9. Carries(D, "FinishBreak") \/ Carries(D, "StartBreak") => A = {} /\ ~CarriesAny(G, Endings)
  BY <1>1, <1>5 DEF Pictures
<1>10. ~Carries(D, "StartBreak")
          => ~Carries(D, "FinishBreak") /\ (Showing(f.current, A, D, G) \/ Ended(f, A, G))
  BY <1>5, <1>6, <1>7 DEF Pictures
<1>11. Pictures(f, A, D, G)
  BY <1>2, <1>4, <1>8, <1>9, <1>10 DEF Pictures
<1>12. QED
  BY <1>11 DEF D

-----------------------------------------------------------------------------
(* What the backend does with a command                                    *)

\* The helper's side of a break leaves active_break alone.
LEMMA BackendRecords ==
    ASSUME NEW b, SoundBackend(b)
    PROVE  /\ SoundBackend(Quiet(b)) /\ Quiet(b).active = b.active
           /\ SoundBackend(Click(b)) /\ Click(b).active = b.active
           /\ SoundBackend(Cleared(b)) /\ Cleared(b).active = {}
<1>1. DOMAIN b = BackendFields /\ SoundActive(b.active) /\ b.clicked \in BOOLEAN
  BY DEF SoundBackend
<1>2. SoundActive({})
  BY DEF SoundActive
<1>3. SoundBackend(Quiet(b)) /\ Quiet(b).active = b.active
  BY <1>1 DEF Quiet, SoundBackend, BackendFields
<1>4. SoundBackend(Click(b)) /\ Click(b).active = b.active
  BY <1>1 DEF Click, SoundBackend, BackendFields
<1>5. SoundBackend(Cleared(b)) /\ Cleared(b).active = {}
  BY <1>1, <1>2 DEF Cleared, Taken, SoundBackend, BackendFields
<1>6. QED
  BY <1>3, <1>4, <1>5

LEMMA OverlayShown ==
    ASSUME NEW b, SoundBackend(b), NEW lock, NEW answer
    PROVE  /\ SoundBackend(Updated(b, lock)) /\ Updated(b, lock).active = b.active
           /\ SoundBackend(Shown(b, lock, answer)) /\ Shown(b, lock, answer).active = b.active
<1>1. DOMAIN b = BackendFields /\ SoundActive(b.active) /\ b.clicked \in BOOLEAN
  BY DEF SoundBackend
<1>2. SoundBackend(Updated(b, lock)) /\ Updated(b, lock).active = b.active
  BY <1>1 DEF Updated, SoundBackend, BackendFields
<1>3. SoundBackend(Shown(b, lock, answer)) /\ Shown(b, lock, answer).active = b.active
  BY <1>1 DEF Shown, Taken, SoundBackend, BackendFields
<1>4. QED
  BY <1>2, <1>3

LEMMA ActiveReplaced ==
    ASSUME NEW b, SoundBackend(b), NEW A, SoundActive(A)
    PROVE  /\ SoundBackend([b EXCEPT !.active = A]) /\ [b EXCEPT !.active = A].active = A
           /\ [b EXCEPT !.active = A].clicked = b.clicked
<1>1. DOMAIN b = BackendFields /\ b.clicked \in BOOLEAN
  BY DEF SoundBackend
<1>2. QED
  BY <1>1 DEF SoundBackend, BackendFields

\* finish_active_break leaves none.
LEMMA FinishLeavesNone ==
    ASSUME NEW b, SoundBackend(b), NEW lock, NEW answer
    PROVE  SoundBackend(Finish(b, lock, answer)) /\ Finish(b, lock, answer).active = {}
<1>1. DOMAIN b = BackendFields /\ SoundActive(b.active) /\ b.clicked \in BOOLEAN
  BY DEF SoundBackend
<1>2. SoundActive({})
  BY DEF SoundActive
<1>3. CASE b.active = {}
  BY <1>1, <1>3 DEF Finish, SoundBackend, BackendFields
<1>4. CASE b.active # {}
  <2> DEFINE f == [b EXCEPT !.active = {}, !.end = IF lock THEN "locked" ELSE "unlocked"]
             h == [Taken(f) EXCEPT !.locks = IF lock /\ answer # "refused" THEN 1 ELSE 0]
  <2>1. Finish(b, lock, answer) \in {f, h}
    BY <1>4 DEF Finish, Reached
  <2>2. SoundBackend(f) /\ f.active = {}
    BY <1>1, <1>2 DEF SoundBackend, BackendFields
  <2> HIDE DEF f
  <2>3. DOMAIN Taken(f) = BackendFields /\ Taken(f).active = {} /\ Taken(f).clicked \in BOOLEAN
    BY <2>2 DEF Taken, SoundBackend, BackendFields
  <2>4. SoundBackend(h) /\ h.active = {}
    BY <1>2, <2>3 DEF SoundBackend, BackendFields
  <2> HIDE DEF h
  <2>5. QED
    BY <2>1, <2>2, <2>4
<1>5. QED
  BY <1>3, <1>4

LEMMA StartHandled ==
    ASSUME NEW b, SoundBackend(b), NEW c \in BreakCommands, c.kind = "StartBreak", NEW answer
    PROVE  LET g == HandleCommand(b, Present, c, answer)
           IN  /\ SoundBackend(g)
               /\ answer = "done" => \E a : g.active = {a} /\ a.lock = c.lock
               /\ answer # "done" => g.active = b.active
<1> DEFINE q == Quiet(b)
           s == Reached(q, Shown(q, c.lock, answer), answer)
           a == ActiveBreak(Present, c.remaining, c.lock)
           g == HandleCommand(b, Present, c, answer)
<1>1. g = IF answer = "done" THEN [s EXCEPT !.active = {a}] ELSE s
  BY DEF HandleCommand, StartBreak
<1>2. c.remaining \in Nat /\ c.lock \in BOOLEAN /\ Present \in Int
  BY HorizonAssumption DEF BreakCommands, Present
<1>3. a \in ActiveBreaks /\ a.lock = c.lock /\ a.seen = Present
  BY <1>2 DEF ActiveBreak, ActiveBreaks
<1>4. SoundBackend(q) /\ q.active = b.active
  BY BackendRecords
<1> HIDE DEF a, q
<1>5. SoundActive({a})
  BY <1>2, <1>3 DEF SoundActive
<1>6. SoundBackend(s) /\ s.active = b.active
  BY <1>4, OverlayShown DEF Reached
<1> HIDE DEF s
<1>7. SoundBackend([s EXCEPT !.active = {a}]) /\ [s EXCEPT !.active = {a}].active = {a}
  BY <1>5, <1>6, ActiveReplaced
<1> HIDE DEF g
<1>8. SoundBackend(g) /\ (answer = "done" => g.active = {a}) /\ (answer # "done" => g.active = b.active)
  BY <1>1, <1>6, <1>7
<1>9. QED
  BY <1>3, <1>8 DEF g

LEMMA LockHandled ==
    ASSUME NEW b, SoundBackend(b), NEW c, c.kind = "RequestLock", NEW answer
    PROVE  LET g == HandleCommand(b, Present, c, answer)
           IN  /\ SoundBackend(g)
               /\ g.active = {} <=> b.active = {}
               /\ \A o \in g.active : o.lock = TRUE
<1> DEFINE q == Quiet(b)
           A == {[a EXCEPT !.lock = TRUE] : a \in b.active}
           k == [q EXCEPT !.active = A]
           g == HandleCommand(b, Present, c, answer)
<1>1. SoundBackend(q) /\ q.active = b.active
  BY BackendRecords
<1>2. g = RequestLockAfter(q, answer)
  BY DEF HandleCommand
<1>3. g = IF b.active = {} THEN q ELSE Reached(k, Updated(k, TRUE), answer)
  BY <1>1, <1>2 DEF RequestLockAfter
<1>4. /\ \A a \in A : \E e \in b.active : a = [e EXCEPT !.lock = TRUE]
      /\ \A e \in b.active : [e EXCEPT !.lock = TRUE] \in A
      /\ \A e \in b.active : LET a == [e EXCEPT !.lock = TRUE]
                             IN  a \in ActiveBreaks /\ a.lock = TRUE /\ a.seen = e.seen
  BY DEF ActiveBreaks, SoundBackend, SoundActive
<1> HIDE DEF A, q
<1>5. SoundActive(A) /\ (A = {} <=> b.active = {}) /\ \A a \in A : a.lock = TRUE
  BY <1>4 DEF SoundBackend, SoundActive
<1>6. SoundBackend(k) /\ k.active = A
  BY <1>1, <1>5, ActiveReplaced
<1> HIDE DEF k
<1>7. SoundBackend(Updated(k, TRUE)) /\ Updated(k, TRUE).active = A
  BY <1>6, OverlayShown
<1> HIDE DEF g
<1>8. SoundBackend(g) /\ (b.active = {} => g.active = {}) /\ (b.active # {} => g.active = A)
  BY <1>1, <1>3, <1>6, <1>7 DEF Reached
<1>9. QED
  BY <1>5, <1>8 DEF g

\* More reports that are not of an end take nothing away.
LEMMA ReportsFollow ==
    ASSUME NEW d, NEW A, NEW C, NEW E \in Seq(Reports), Pictures(d, A, C, E),
           NEW F \in Seq(Reports), ~CarriesAny(F, Endings)
    PROVE  Pictures(d, A, C, E \o F)
<1>1. \A k : Carries(E \o F, k) <=> Carries(E, k) \/ Carries(F, k)
  BY CarriedAfterSend
<1>2. \A k \in Endings : ~Carries(F, k)
  BY DEF CarriesAny
<1>3. AtMostOne(F, Endings)
  BY DEF AtMostOne, CarriesAny, Carries
<1>4. AtMostOne(E, Endings) => AtMostOne(E \o F, Endings)
  BY <1>3, CarriedAfterSend
<1>5. SameNews(d, d, E, E \o F)
  BY <1>1, <1>2, <1>4 DEF SameNews
<1>6. QED
  BY <1>5, NothingNew

\* A command the backend has handled: a break it could not start is gone and the
\* runtime is asked to stop, the FinishBreak of one it ended finds nothing.
LEMMA CommandTaken ==
    ASSUME NEW d, NEW b, NEW C \in Seq(BreakCommands), NEW E \in Seq(Reports),
           SoundRuntime(d), SoundBackend(b), Pictures(d, b.active, C, E), C # <<>>,
           NEW answer \in Answers
    PROVE  LET g == HandleCommand(b, Present, Head(C), answer)
               F == CommandEvents(answer)
           IN  /\ SoundBackend(g) /\ F \in Seq(Reports)
               /\ Pictures(d, g.active, Tail(C), E \o F)
<1> DEFINE c == Head(C)
           D == Tail(C)
           A == b.active
           g == HandleCommand(b, Present, c, answer)
           F == CommandEvents(answer)
           G == E \o F
<1>1. /\ c \in BreakCommands /\ D \in Seq(BreakCommands)
      /\ c.kind \in {"StartBreak", "FinishBreak", "RequestLock"}
  BY DEF BreakCommands
<1>2. \A k : Carries(C, k) <=> c.kind = k \/ Carries(D, k)
  BY CarriedAfterTake
<1>3. Ordered(D) /\ AtMostOne(E, Endings) /\ ~Carries(E, "BreakStartFailed")
  BY OrderedAfterTake DEF Pictures
<1>4. Starting(d.current, C) => Starting(d.current, D)
  BY StartingAfterTake DEF Pictures
<1>5. /\ F \in Seq(Reports)
      /\ \A k : Carries(F, k) <=> answer # "done" /\ k = "Shutdown"
  <2>1. Event("Shutdown") \in Reports /\ Event("Shutdown").kind = "Shutdown"
    BY DEF Event, Reports
  <2>2. \A k : Carries(<<Event("Shutdown")>>, k) <=> k = "Shutdown"
    BY <2>1, CarriedAlone
  <2>3. \A k : ~Carries(<<>>, k)
    BY NoneCarried
  <2>4. <<Event("Shutdown")>> \in Seq(Reports) /\ <<>> \in Seq(Reports)
    BY <2>1
  <2>5. QED
    BY <2>2, <2>3, <2>4 DEF CommandEvents
<1>6. ~CarriesAny(F, Endings)
  BY <1>5 DEF CarriesAny, Endings
<1> HIDE DEF F
<1>7. ASSUME Pictures(d, g.active, D, E) PROVE Pictures(d, g.active, D, G)
  <2> HIDE DEF g, D
  <2>1. QED
    BY <1>5, <1>6, <1>7, ReportsFollow
<1>8. CASE c.kind = "StartBreak"
  <2>1. /\ ~Carries(C, "FinishBreak") /\ ~Carries(D, "StartBreak") /\ ~Carries(D, "FinishBreak")
        /\ Carries(C, "StartBreak")
    BY <1>2, <1>8, OrderedAfterTake DEF Pictures
  <2>2. d.current # {} /\ Starting(d.current, C) /\ ~CarriesAny(E, Endings) /\ A = {}
    BY <2>1 DEF Pictures
  <2>3. \A h \in d.current : h.lock <=> c.lock \/ Carries(D, "RequestLock")
    BY <1>8, <2>2, StartingAfterTake
  <2>4. /\ SoundBackend(g)
        /\ answer = "done" => \E a : g.active = {a} /\ a.lock = c.lock
        /\ answer # "done" => g.active = {}
    BY <1>1, <1>8, <2>2, StartHandled
  <2> HIDE DEF g, D, c, A
  <2>5. CASE answer = "done"
    <3>1. PICK a : g.active = {a} /\ a.lock = c.lock
      BY <2>4, <2>5
    <3>2. SameLock(d.current, g.active, D, E)
      <4>1. SUFFICES ASSUME NEW h \in d.current
                     PROVE  /\ h.lock => a.lock \/ Carries(D, "RequestLock")
                            /\ Carries(D, "RequestLock") => h.lock
                            /\ a.lock => h.lock \/ Carries(E, "LockAfterCurrentBreak")
        BY <3>1 DEF SameLock
      <4>2. h.lock <=> c.lock \/ Carries(D, "RequestLock")
        BY <2>3
      <4>3. QED
        BY <3>1, <4>2
    <3>3. Showing(d.current, g.active, D, E)
      BY <2>2, <3>1, <3>2 DEF Showing
    <3>4. Pictures(d, g.active, D, E)
      BY <1>3, <2>1, <2>2, <3>3 DEF Pictures
    <3>5. QED
      BY <1>5, <1>7, <2>4, <3>4 DEF g, D, c, F
  <2>6. CASE answer # "done"
    <3>1. \A k : Carries(G, k) <=> Carries(E, k) \/ k = "Shutdown"
      BY <1>5, <2>6, CarriedAfterSend
    <3> HIDE DEF G
    <3>2. ~CarriesAny(G, Endings)
      BY <2>2, <3>1 DEF CarriesAny, Endings
    <3>3. AtMostOne(G, Endings) /\ ~Carries(G, "BreakStartFailed")
      BY <3>2 DEF AtMostOne, CarriesAny, Carries, Endings
    <3>4. g.active = {}
      BY <2>4, <2>6
    <3>5. Ended(d, g.active, G)
      BY <3>1, <3>4 DEF Ended
    <3>6. Pictures(d, g.active, D, G)
      BY <1>3, <2>1, <2>2, <3>2, <3>3, <3>4, <3>5 DEF Pictures
    <3>7. QED
      BY <1>5, <2>4, <3>6 DEF g, D, c, F, G
  <2>7. QED
    BY <2>5, <2>6
<1>9. CASE c.kind = "FinishBreak"
  <2>1. SoundBackend(Quiet(b))
    BY BackendRecords
  <2>2. g = Finish(Quiet(b), c.lock, answer)
    BY <1>9 DEF HandleCommand
  <2>3. SoundBackend(g) /\ g.active = {}
    BY <2>1, <2>2, FinishLeavesNone
  <2>4. Carries(C, "FinishBreak") /\ ~Carries(D, "FinishBreak")
        /\ (Carries(C, "StartBreak") <=> Carries(D, "StartBreak"))
    BY <1>2, <1>9, OrderedAfterTake DEF Pictures
  <2> HIDE DEF g, D, c
  <2>5. ~CarriesAny(E, Endings)
    BY <2>4 DEF Pictures
  <2>6. d.current = {} \/ Carries(D, "StartBreak")
    BY <2>4 DEF Pictures
  <2>7. Carries(D, "StartBreak") => d.current # {} /\ Starting(d.current, D)
    BY <1>4, <2>4 DEF Pictures
  <2>8. Pictures(d, g.active, D, E)
    BY <1>3, <2>3, <2>4, <2>5, <2>6, <2>7 DEF Pictures
  <2>9. QED
    BY <1>5, <1>7, <2>3, <2>8 DEF g, D, c, F
<1>10. CASE c.kind = "RequestLock"
  <2>1. /\ SoundBackend(g)
        /\ g.active = {} <=> A = {}
        /\ \A o \in g.active : o.lock = TRUE
    BY <1>10, LockHandled
  <2>2. /\ Carries(C, "FinishBreak") <=> Carries(D, "FinishBreak")
        /\ Carries(C, "StartBreak") <=> Carries(D, "StartBreak")
        /\ Carries(C, "RequestLock")
        /\ Carries(D, "RequestLock") => Carries(C, "RequestLock")
    BY <1>2, <1>10
  <2> HIDE DEF g, D, c
  <2>3. Showing(d.current, A, C, E) => Showing(d.current, g.active, D, E)
    <3>1. SUFFICES ASSUME Showing(d.current, A, C, E) PROVE Showing(d.current, g.active, D, E)
      OBVIOUS
    <3>2. \E o : o \in A
      BY <3>1 DEF Showing
    <3>3. \A h \in d.current : h.lock
      BY <2>2, <3>1, <3>2 DEF Showing, SameLock
    <3>4. SameLock(d.current, g.active, D, E)
      BY <2>1, <3>3 DEF SameLock
    <3>5. QED
      BY <2>1, <3>1, <3>4 DEF Showing
  <2>4. Ended(d, A, E) => Ended(d, g.active, E)
    BY <2>1 DEF Ended
  <2>5. Carries(D, "StartBreak") => d.current # {} /\ Starting(d.current, D)
    BY <1>4, <2>2 DEF Pictures
  <2>6. Carries(D, "FinishBreak") \/ Carries(D, "StartBreak") \/ d.current = {}
            => g.active = {} /\ ~CarriesAny(E, Endings)
    BY <2>1, <2>2 DEF Pictures
  <2>7. d.current # {} /\ ~Carries(D, "StartBreak")
           => ~Carries(D, "FinishBreak") /\ (Showing(d.current, g.active, D, E) \/ Ended(d, g.active, E))
    BY <2>2, <2>3, <2>4 DEF Pictures
  <2>8. Pictures(d, g.active, D, E)
    BY <1>3, <2>5, <2>6, <2>7 DEF Pictures
  <2>9. QED
    BY <1>5, <1>7, <2>1, <2>8 DEF g, D, c, F
<1>11. QED
  BY <1>1, <1>8, <1>9, <1>10

-----------------------------------------------------------------------------
(* What the backend samples                                                *)

LEMMA ActivityEventsType ==
    ASSUME NEW active
    PROVE  ActivityEvents(1, 0, active) \in Seq(TimeReports)
<1> DEFINE k == IF active THEN "ActiveTimeElapsed" ELSE "IdleTimeElapsed"
           w == WallClockElapsed(1)
           last == [kind |-> k, elapsed |-> 1]
<1>1. k \in {"ActiveTimeElapsed", "IdleTimeElapsed"}
  OBVIOUS
<1> HIDE DEF k
<1>2. w \in TimeReports /\ last \in TimeReports
  BY <1>1 DEF WallClockElapsed, TimeReports
<1>3. ActivityEvents(1, 0, active) = <<w>> \o <<>> \o <<last>>
  BY DEF ActivityEvents, k
<1> HIDE DEF w, last
<1>4. <<w>> \in Seq(TimeReports) /\ <<>> \in Seq(TimeReports) /\ <<last>> \in Seq(TimeReports)
  BY <1>2
<1>5. \A p, q, r \in Seq(TimeReports) : p \o q \o r \in Seq(TimeReports)
  OBVIOUS
<1>6. QED
  BY <1>3, <1>4, <1>5

\* A sample finds the break to be over, and one finds the control clicked.
Released(b, s) == s = "unlocked" /\ (Deferred(b) \/ Over(b, Present))
AskedFor(b) == b.clicked /\ ~Deferred(b)

LEMMA OverlayReports ==
    ASSUME NEW b, NEW a \in ActiveBreaks, b.active = {a}, a.seen <= Present, NEW s
    PROVE  LET F == OverlayEvents(b, Present, s)
           IN  /\ F \in Seq(Reports) /\ AtMostOne(F, Endings)
               /\ Carries(F, "LockAfterCurrentBreak") <=> AskedFor(b)
               /\ Carries(F, "BreakFinished") <=> Released(b, s)
               /\ ~Carries(F, "BreakStartFailed")
<1> DEFINE w == WallClockElapsed(Present - a.seen)
           l == Event("LockAfterCurrentBreak")
           e == Event("BreakFinished")
           L == IF AskedFor(b) THEN <<l>> ELSE <<>>
           B == IF Released(b, s) THEN <<e>> ELSE <<>>
           H == <<w>> \o L
           F == OverlayEvents(b, Present, s)
<1>1. F = H \o B
  <2>1. (CHOOSE o \in b.active : TRUE) = a
    OBVIOUS
  <2>2. Elapsed(b, Present) = w
    BY <2>1 DEF Elapsed
  <2> HIDE DEF w, l, e
  <2>3. QED
    BY <2>2 DEF OverlayEvents, AskedFor, Released, l, e
<1>2. Present - a.seen \in Nat
  BY HorizonAssumption DEF Present, ActiveBreaks
<1>3. /\ w \in Reports /\ w.kind = "WallClockElapsed"
      /\ l \in Reports /\ l.kind = "LockAfterCurrentBreak"
      /\ e \in Reports /\ e.kind = "BreakFinished"
  BY <1>2 DEF WallClockElapsed, Event, Reports, TimeReports
<1> HIDE DEF w, l, e, F
<1>4. /\ <<w>> \in Seq(Reports) /\ L \in Seq(Reports) /\ B \in Seq(Reports)
  BY <1>3
<1>5. \A k : Carries(L, k) <=> AskedFor(b) /\ k = "LockAfterCurrentBreak"
  BY <1>3, NoneCarried, CarriedAlone
<1>6. \A k : Carries(B, k) <=> Released(b, s) /\ k = "BreakFinished"
  BY <1>3, NoneCarried, CarriedAlone
<1>7. AtMostOne(B, Endings)
  BY NoneCarried, CarriedAlone
<1> HIDE DEF L, B
<1>8. H \in Seq(Reports) /\ \A k : Carries(H, k) <=> Carries(<<w>>, k) \/ Carries(L, k)
  <2>1. H \in Seq(Reports)
    BY <1>4
  <2>2. \A k : Carries(<<w>> \o L, k) <=> Carries(<<w>>, k) \/ Carries(L, k)
    BY <1>4, CarriedAfterSend
  <2>3. QED
    BY <2>1, <2>2
<1>9. \A k : Carries(<<w>>, k) <=> k = "WallClockElapsed"
  BY <1>3, CarriedAlone
<1> HIDE DEF H
<1>10. F \in Seq(Reports) /\ \A k : Carries(F, k) <=> Carries(H, k) \/ Carries(B, k)
  BY <1>1, <1>4, <1>8, CarriedAfterSend
<1>11. ~CarriesAny(H, Endings)
  BY <1>5, <1>8, <1>9 DEF CarriesAny, Endings
<1>12. AtMostOne(H, Endings)
  BY <1>11 DEF AtMostOne, CarriesAny, Carries
<1>13. AtMostOne(F, Endings)
  BY <1>1, <1>4, <1>7, <1>8, <1>11, <1>12, CarriedAfterSend
<1>14. /\ Carries(F, "LockAfterCurrentBreak") <=> AskedFor(b)
       /\ Carries(F, "BreakFinished") <=> Released(b, s)
       /\ ~Carries(F, "BreakStartFailed")
  BY <1>5, <1>6, <1>8, <1>9, <1>10
<1>15. QED
  BY <1>10, <1>13, <1>14 DEF F

\* A break that is released is gone; one that is kept takes a click along unless
\* its end is put off already.
LEMMA OverlayAfterSample ==
    ASSUME NEW b, SoundBackend(b), NEW a \in b.active, NEW s \in {"locked", "unlocked"}
    PROVE  LET g == SampleOverlay(b, Present, s)
           IN  /\ SoundBackend(g)
               /\ Released(b, s) => g.active = {}
               /\ ~Released(b, s) => \E o : g.active = {o} /\ (o.lock <=> a.lock \/ AskedFor(b))
<1> DEFINE q == Quiet(b)
           u == [q EXCEPT !.clicked = FALSE]
           v == [a EXCEPT !.seen = Present]
           x == [v EXCEPT !.lock = AsksForLock(b)]
           y == [x EXCEPT !.deferred = TRUE]
           k == Seen(b, Present)
           t == [k EXCEPT !.active = {x}]
           g == SampleOverlay(b, Present, s)
<1>1. b.active = {a} /\ a \in ActiveBreaks /\ Present \in Int /\ b.clicked \in BOOLEAN
  BY HorizonAssumption DEF SoundBackend, SoundActive, Present
<1>2. AsksForLock(b) <=> b.clicked \/ a.lock
  BY <1>1 DEF AsksForLock
<1>3. AsksForLock(b) \in BOOLEAN
  BY <1>1 DEF AsksForLock, ActiveBreaks
<1>4. /\ v \in ActiveBreaks /\ v.seen = Present /\ v.lock = a.lock
      /\ x \in ActiveBreaks /\ x.seen = Present /\ x.lock = AsksForLock(b)
      /\ y \in ActiveBreaks /\ y.seen = Present /\ y.lock = AsksForLock(b)
  BY <1>1, <1>3 DEF ActiveBreaks
<1>5. SoundBackend(q) /\ q.active = {a} /\ DOMAIN q = BackendFields
  BY <1>1, BackendRecords DEF SoundBackend
<1>6. {[c EXCEPT !.seen = Present] : c \in {a}} = {v}
  OBVIOUS
<1>7. {[c EXCEPT !.lock = AsksForLock(b)] : c \in {v}} = {x}
  OBVIOUS
<1>8. {[c EXCEPT !.deferred = TRUE] : c \in {x}} = {y}
  OBVIOUS
<1>9. k = [u EXCEPT !.active = {v}]
  BY <1>5, <1>6 DEF Seen, BackendFields
<1> HIDE DEF q, v, x, y
<1>10. SoundActive({v}) /\ SoundActive({x}) /\ SoundActive({y})
  BY <1>1, <1>4 DEF SoundActive
<1>11. SoundBackend(u)
  BY <1>5 DEF SoundBackend, BackendFields
<1> HIDE DEF u
<1>12. SoundBackend(k) /\ k.active = {v}
  BY <1>9, <1>10, <1>11, ActiveReplaced
<1> HIDE DEF k
<1>13. SoundBackend(t) /\ t.active = {x}
  BY <1>10, <1>12, ActiveReplaced
<1>14. t = [Seen(b, Present) EXCEPT !.active = {[c EXCEPT !.lock = AsksForLock(b)] : c \in @}]
  BY <1>7, <1>12 DEF k
<1> HIDE DEF t
<1>15. g = IF Deferred(b)
           THEN IF s = "locked" THEN k
                ELSE [Finish(k, FALSE, "done") EXCEPT !.end = "deferred"]
           ELSE IF ~Over(b, Present) THEN Updated(t, AsksForLock(b))
           ELSE IF s = "locked"
                THEN [t EXCEPT !.active = {[c EXCEPT !.deferred = TRUE] : c \in @}]
                ELSE Finish(t, AsksForLock(b), "done")
  BY <1>14 DEF SampleOverlay, k
<1> HIDE DEF g
<1>16. CASE Deferred(b) /\ s = "locked"
  BY <1>4, <1>12, <1>15, <1>16 DEF Released, AskedFor, g
<1>17. CASE Deferred(b) /\ s = "unlocked"
  <2>1. SoundBackend(Finish(k, FALSE, "done")) /\ Finish(k, FALSE, "done").active = {}
    BY <1>12, FinishLeavesNone
  <2>2. SoundBackend(g) /\ g.active = {}
    BY <1>15, <1>17, <2>1 DEF SoundBackend, BackendFields
  <2>3. QED
    BY <1>17, <2>2 DEF Released, g
<1>18. CASE ~Deferred(b) /\ ~Over(b, Present)
  <2>1. SoundBackend(g) /\ g.active = {x}
    BY <1>13, <1>15, <1>18, OverlayShown
  <2>2. QED
    BY <1>2, <1>4, <1>18, <2>1 DEF Released, AskedFor, g
<1>19. CASE ~Deferred(b) /\ Over(b, Present) /\ s = "locked"
  <2>1. g = [t EXCEPT !.active = {y}]
    BY <1>8, <1>13, <1>15, <1>19
  <2>2. SoundBackend(g) /\ g.active = {y}
    BY <1>10, <1>13, <2>1, ActiveReplaced
  <2>3. QED
    BY <1>2, <1>4, <1>19, <2>2 DEF Released, AskedFor, g
<1>20. CASE ~Deferred(b) /\ Over(b, Present) /\ s = "unlocked"
  <2>1. SoundBackend(g) /\ g.active = {}
    BY <1>13, <1>15, <1>20, FinishLeavesNone
  <2>2. QED
    BY <1>20, <2>1 DEF Released, g
<1>21. QED
  BY <1>16, <1>17, <1>18, <1>19, <1>20

LEMMA BreakSampled ==
    ASSUME NEW d, NEW b, NEW E \in Seq(Reports), SoundBackend(b),
           Pictures(d, b.active, <<>>, E), b.active # {},
           NEW s \in {"locked", "unlocked"}
    PROVE  LET g == SampleOverlay(b, Present, s)
               F == OverlayEvents(b, Present, s)
           IN  SoundBackend(g) /\ F \in Seq(Reports) /\ Pictures(d, g.active, <<>>, E \o F)
<1> DEFINE g == SampleOverlay(b, Present, s)
           A == g.active
           F == OverlayEvents(b, Present, s)
           G == E \o F
<1>1. PICK a \in b.active : TRUE
  OBVIOUS
<1>2. b.active = {a} /\ a \in ActiveBreaks /\ a.seen <= Present
  BY <1>1 DEF SoundBackend, SoundActive
<1>3. /\ F \in Seq(Reports) /\ AtMostOne(F, Endings)
      /\ Carries(F, "LockAfterCurrentBreak") <=> AskedFor(b)
      /\ Carries(F, "BreakFinished") <=> Released(b, s)
      /\ ~Carries(F, "BreakStartFailed")
  BY <1>2, OverlayReports
<1>4. /\ SoundBackend(g)
      /\ Released(b, s) => A = {}
      /\ ~Released(b, s) => \E o : A = {o} /\ (o.lock <=> a.lock \/ AskedFor(b))
  BY <1>1, OverlayAfterSample
<1> HIDE DEF g, F
<1>5. \A k : Carries(G, k) <=> Carries(E, k) \/ Carries(F, k)
  BY <1>3, CarriedAfterSend
<1>6. \A k : ~Carries(<<>>, k)
  BY NoneCarried
<1>7. d.current # {} /\ Showing(d.current, b.active, <<>>, E)
  BY <1>1, <1>6 DEF Pictures, Ended
<1>8. ~CarriesAny(E, Endings)
  BY <1>7 DEF Showing
<1>9. AtMostOne(G, Endings)
  BY <1>3, <1>8, CarriedAfterSend DEF Pictures
<1> HIDE DEF G
<1>10. ~Carries(G, "BreakStartFailed")
  BY <1>3, <1>5, <1>8 DEF CarriesAny, Endings
<1>11. CASE Released(b, s)
  <2>1. Ended(d, A, G)
    BY <1>3, <1>4, <1>5, <1>11 DEF Ended
  <2>2. Pictures(d, A, <<>>, G)
    BY <1>6, <1>7, <1>9, <1>10, <2>1 DEF Pictures
  <2>3. QED
    BY <1>3, <1>4, <2>2 DEF g, F, G
<1>12. CASE ~Released(b, s)
  <2>1. PICK o : A = {o} /\ (o.lock <=> a.lock \/ AskedFor(b))
    BY <1>4, <1>12
  <2>2. SameLock(d.current, A, <<>>, G)
    <3>1. SUFFICES ASSUME NEW c \in d.current
                   PROVE  (c.lock => o.lock) /\ (o.lock => c.lock \/ Carries(G, "LockAfterCurrentBreak"))
      BY <1>6, <2>1 DEF SameLock
    <3>2. (c.lock => a.lock) /\ (a.lock => c.lock \/ Carries(E, "LockAfterCurrentBreak"))
      BY <1>2, <1>6, <1>7 DEF Showing, SameLock
    <3>3. QED
      BY <1>3, <1>5, <2>1, <3>2
  <2>3. ~CarriesAny(G, Endings)
    BY <1>3, <1>5, <1>8, <1>12 DEF CarriesAny, Endings
  <2>4. Showing(d.current, A, <<>>, G)
    BY <2>1, <2>2, <2>3 DEF Showing
  <2>5. Pictures(d, A, <<>>, G)
    BY <1>6, <1>7, <1>9, <1>10, <2>4 DEF Pictures
  <2>6. QED
    BY <1>3, <1>4, <2>5 DEF g, F, G
<1>13. QED
  BY <1>11, <1>12

-----------------------------------------------------------------------------
(* What the runtime does with an event                                     *)

\* The runtime f that d becomes tells the backend what follows C, and both go on
\* from the reports G.
Handled(d, f, A, C, G) ==
    /\ f.up = d.up /\ LockKnown(f)
    /\ f.cmds \in Seq(BreakCommands)
    /\ Joint(f, A, C \o f.cmds, G)

\* A handler that may have started a break.
LEMMA MayStartHandled ==
    ASSUME NEW d, SoundRuntime(d), NEW f, MayStart(d, f),
           NEW A, NEW C \in Seq(BreakCommands), NEW E, NEW G, Joint(d, A, C, E),
           SameNews(d, d, E, G)
    PROVE  Handled(d, f, A, C, G)
<1>1. ASSUME Does(d, f, d.current, <<>>) PROVE Handled(d, f, A, C, G)
  <2>1. /\ f.current = d.current /\ f.up = d.up /\ f.cmds = <<>>
        /\ d.up => f.running = d.running
    BY <1>1 DEF Does
  <2>2. LockKnown(f)
    BY <2>1 DEF LockKnown, SoundRuntime
  <2>3. d.up => SameNews(d, f, E, G)
    BY <2>1 DEF SameNews
  <2>4. d.up => Pictures(f, A, C, G)
    BY <2>1, <2>3, NothingNew DEF Joint
  <2>5. Joint(f, A, C, G)
    BY <2>1, <2>4 DEF Joint
  <2>6. QED
    BY <2>1, <2>2, <2>5, NothingSent DEF Handled
<1>2. ASSUME d.current = {}, NEW c, NEW n \in Nat, "lock" \in DOMAIN c, c.lock \in BOOLEAN,
             Does(d, f, {c}, <<[kind |-> "StartBreak", lock |-> c.lock, remaining |-> n]>>)
      PROVE  Handled(d, f, A, C, G)
  <2> DEFINE cmd == [kind |-> "StartBreak", lock |-> c.lock, remaining |-> n]
  <2>1. cmd \in BreakCommands /\ cmd.kind = "StartBreak" /\ c.lock = cmd.lock
    BY <1>2 DEF BreakCommands
  <2>2. Does(d, f, {c}, <<cmd>>)
    BY <1>2
  <2> HIDE DEF cmd
  <2>3. /\ f.current = {c} /\ f.up = d.up
        /\ IF d.up THEN f.running = d.running /\ f.cmds = <<cmd>> ELSE f.cmds = <<>>
    BY <2>2 DEF Does
  <2>4. LockKnown(f)
    BY <1>2, <2>3 DEF LockKnown
  <2>5. CASE d.up
    <3>1. SameNews(d, f, E, G)
      BY <2>3, <2>5 DEF SameNews
    <3>2. Pictures(d, A, C, E)
      BY <2>5 DEF Joint
    <3>3. Pictures(f, A, C \o <<cmd>>, G)
      BY <1>2, <2>1, <2>3, <3>1, <3>2, BreakStarts
    <3>4. <<cmd>> \in Seq(BreakCommands)
      BY <2>1
    <3>5. QED
      BY <2>3, <2>4, <2>5, <3>3, <3>4 DEF Handled, Joint
  <2>6. CASE ~d.up
    <3>1. Joint(f, A, C, G)
      BY <2>3, <2>6 DEF Joint
    <3>2. QED
      BY <2>3, <2>4, <2>6, <3>1, NothingSent DEF Handled
  <2>7. QED
    BY <2>5, <2>6
<1>3. QED
  BY <1>1, <1>2 DEF MayStart

\* A handler that stops the runtime.
LEMMA StopsHandled ==
    ASSUME NEW d, SoundRuntime(d), NEW f, Stops(d, f),
           NEW A, NEW C \in Seq(BreakCommands), NEW E, NEW G, Joint(d, A, C, E),
           SameNews(d, f, E, G)
    PROVE  Handled(d, f, A, C, G)
<1>1. f.current = d.current /\ f.up = d.up /\ f.cmds = <<>>
  BY DEF Stops, SoundRuntime
<1>2. LockKnown(f)
  BY <1>1 DEF LockKnown, SoundRuntime
<1>3. Joint(f, A, C, G)
  BY <1>1, NothingNew DEF Joint
<1>4. QED
  BY <1>1, <1>2, <1>3, NothingSent DEF Handled

\* request_lock_after_current_break, whoever asks.
LEMMA LockRequestHandled ==
    ASSUME NEW d, SoundRuntime(d), NEW f,
           IF \E c \in d.current : ~c.lock
           THEN Does(d, f, {[c EXCEPT !.lock = TRUE] : c \in d.current}, <<[kind |-> "RequestLock"]>>)
           ELSE f = d,
           NEW A, NEW C \in Seq(BreakCommands), NEW E, NEW G, Joint(d, A, C, E),
           \A k \in Endings \cup {"Shutdown"} : Carries(G, k) <=> Carries(E, k),
           AtMostOne(E, Endings) => AtMostOne(G, Endings)
    PROVE  Handled(d, f, A, C, G)
<1>1. LockKnown(d) /\ d.cmds = <<>> /\ DOMAIN d = DaemonFields
  BY DEF SoundRuntime, LockKnown, Coherent, Agreed
<1>2. CASE \E c \in d.current : ~c.lock
  <2> DEFINE cmd == [kind |-> "RequestLock"]
             L == {[c EXCEPT !.lock = TRUE] : c \in d.current}
  <2>1. /\ L # {} /\ d.current # {}
        /\ \A c \in L : "lock" \in DOMAIN c /\ c.lock = TRUE
    BY <1>1, <1>2 DEF LockKnown
  <2>2. cmd \in BreakCommands /\ cmd.kind = "RequestLock" /\ <<cmd>> \in Seq(BreakCommands)
    BY DEF BreakCommands
  <2>3. Does(d, f, L, <<cmd>>)
    BY <1>2
  <2> HIDE DEF cmd, L
  <2>4. /\ f.current = L /\ f.up = d.up
        /\ IF d.up THEN f.running = d.running /\ f.cmds = <<cmd>> ELSE f.cmds = <<>>
    BY <2>3 DEF Does
  <2>5. LockKnown(f)
    BY <2>1, <2>4 DEF LockKnown
  <2>6. CASE d.up
    <3>1. Pictures(f, A, C \o <<cmd>>, G)
      BY <2>1, <2>2, <2>4, <2>6, LockAskedFor DEF Joint
    <3>2. QED
      BY <2>2, <2>4, <2>5, <2>6, <3>1 DEF Handled, Joint
  <2>7. CASE ~d.up
    BY <2>4, <2>5, <2>7, NothingSent DEF Handled, Joint
  <2>8. QED
    BY <2>6, <2>7
<1>3. CASE ~\E c \in d.current : ~c.lock
  <2>1. f = d
    BY <1>3
  <2>2. MayStart(d, f)
    BY <1>1, <2>1 DEF MayStart, Does
  <2>3. SameNews(d, d, E, G)
    BY <1>3 DEF SameNews
  <2>4. QED
    BY <2>2, <2>3, MayStartHandled
<1>4. QED
  BY <1>2, <1>3

\* handle_event of a report of the backend.
LEMMA ReportHandled ==
    ASSUME NEW d, SoundRuntime(d), NEW A, NEW C \in Seq(BreakCommands),
           NEW E \in Seq(Reports), E # <<>>, Joint(d, A, C, E)
    PROVE  /\ Coherent(LocalEvent(d, Head(E)))
           /\ Handled(d, LocalEvent(d, Head(E)), A, C, Tail(E))
<1> DEFINE e == Head(E)
           f == LocalEvent(d, e)
           G == Tail(E)
<1>1. Coherent(d) /\ d.cmds = <<>> /\ LockKnown(d) /\ DOMAIN d = DaemonFields
  BY DEF SoundRuntime, LockKnown, Coherent, Agreed
<1>2. e \in Reports
  OBVIOUS
<1>3. CASE e \in TimeReports
  <2>1. MayStart(d, f) /\ Coherent(f)
    BY <1>3, TimeReportHandled
  <2>2. SameNews(d, d, E, G)
    BY <1>3, NewsOfRest DEF TimeReports, Endings
  <2> HIDE DEF f, G
  <2>3. Handled(d, f, A, C, G)
    BY <2>1, <2>2, MayStartHandled
  <2>4. QED
    BY <2>1, <2>3 DEF f, G
<1>4. CASE e = [kind |-> "Shutdown"]
  <2>1. Stops(d, f) /\ Coherent(f)
    BY <1>1, <1>4, LocalEventDoes, LocalEventCoherent
  <2>2. SameNews(d, f, E, G)
    BY <1>4, <2>1, NewsOfRest DEF Stops, Endings
  <2> HIDE DEF f, G
  <2>3. Handled(d, f, A, C, G)
    BY <2>1, <2>2, StopsHandled
  <2>4. QED
    BY <2>1, <2>3 DEF f, G
<1>5. CASE e = [kind |-> "BreakStartFailed"]
  <2>1. Does(d, f, {}, <<>>) /\ Coherent(f)
    BY <1>1, <1>5, LocalEventDoes, LocalEventCoherent
  <2>2. e.kind = "BreakStartFailed"
    BY <1>5
  <2> HIDE DEF f, e
  <2>3. f.current = {} /\ f.up = d.up /\ f.cmds = <<>> /\ LockKnown(f)
    BY <2>1 DEF Does, LockKnown
  <2>4. Carries(E, "BreakStartFailed")
    BY <2>2, CarriedAfterTake DEF e
  <2>5. ~d.up
    BY <2>4 DEF Joint, Pictures
  <2>6. Handled(d, f, A, C, G)
    BY <2>3, <2>5, NothingSent DEF Handled, Joint
  <2>7. QED
    BY <2>1, <2>6 DEF f, e
<1>6. CASE e = [kind |-> "BreakFinished"]
  <2> DEFINE cmd == [kind |-> "FinishBreak", lock |-> \E c \in d.current : c.lock]
  <2>1. Coherent(f)
    BY <1>1, <1>6, LocalEventCoherent
  <2>2. Does(d, f, {}, IF d.current = {} THEN <<>> ELSE <<cmd>>)
    BY <1>1, <1>6, LocalEventDoes
  <2>3. e.kind = "BreakFinished"
    BY <1>6
  <2>4. cmd \in BreakCommands /\ cmd.kind = "FinishBreak"
    BY DEF BreakCommands
  <2> HIDE DEF f, e, cmd
  <2>5. f.current = {} /\ f.up = d.up /\ LockKnown(f)
    BY <2>2 DEF Does, LockKnown
  <2>6. CASE d.up
    <3>1. d.current # {} /\ Pictures(f, A, C \o <<cmd>>, G)
      BY <2>3, <2>4, <2>5, <2>6, BreakEnds DEF Joint, e
    <3>2. f.cmds = <<cmd>> /\ <<cmd>> \in Seq(BreakCommands)
      BY <2>2, <2>4, <2>6, <3>1 DEF Does
    <3>3. QED
      BY <2>1, <2>5, <2>6, <3>1, <3>2 DEF Handled, Joint, f, e
  <2>7. CASE ~d.up
    <3>1. f.cmds = <<>>
      BY <2>2, <2>7 DEF Does
    <3>2. Handled(d, f, A, C, G)
      BY <2>5, <2>7, <3>1, NothingSent DEF Handled, Joint
    <3>3. QED
      BY <2>1, <3>2 DEF f, e
  <2>8. QED
    BY <2>6, <2>7
<1>7. CASE e = [kind |-> "LockAfterCurrentBreak"]
  <2>1. Coherent(f)
    BY <1>1, <1>7, LocalEventCoherent
  <2>2. e.kind = "LockAfterCurrentBreak"
    BY <1>7
  <2>3. IF \E c \in d.current : ~c.lock
        THEN Does(d, f, {[c EXCEPT !.lock = TRUE] : c \in d.current}, <<[kind |-> "RequestLock"]>>)
        ELSE f = d
    BY <1>1, <1>7, LocalEventDoes
  <2>4. \A k \in Endings \cup {"Shutdown"} : Carries(G, k) <=> Carries(E, k)
    BY <2>2, CarriedAfterTake DEF Endings
  <2>5. AtMostOne(E, Endings) => AtMostOne(G, Endings)
    BY CarriedAfterTake
  <2> HIDE DEF f, G
  <2>6. Handled(d, f, A, C, G)
    BY <2>3, <2>4, <2>5, LockRequestHandled
  <2>7. QED
    BY <2>1, <2>6 DEF f, G
<1>8. QED
  BY <1>2, <1>3, <1>4, <1>5, <1>6, <1>7 DEF Reports

\* handle_event of what the user asks for at the tray.
LEMMA TrayHandled ==
    ASSUME NEW d, SoundRuntime(d), NEW A, NEW C \in Seq(BreakCommands), NEW E,
           Joint(d, A, C, E), NEW e,
           \/ \E name : e = [kind |-> "StartManualBreak", name |-> name]
           \/ e = [kind |-> "Shutdown"]
    PROVE  Coherent(LocalEvent(d, e)) /\ Handled(d, LocalEvent(d, e), A, C, E)
<1> DEFINE f == LocalEvent(d, e)
<1>1. Coherent(d) /\ d.cmds = <<>>
  BY DEF SoundRuntime
<1>2. CASE \E name : e = [kind |-> "StartManualBreak", name |-> name]
  <2>1. MayStart(d, f) /\ Coherent(f)
    BY <1>1, <1>2, LocalEventDoes, LocalEventCoherent
  <2>2. SameNews(d, d, E, E)
    BY DEF SameNews
  <2> HIDE DEF f
  <2>3. Handled(d, f, A, C, E)
    BY <2>1, <2>2, MayStartHandled
  <2>4. QED
    BY <2>1, <2>3 DEF f
<1>3. CASE e = [kind |-> "Shutdown"]
  <2>1. Stops(d, f) /\ Coherent(f)
    BY <1>1, <1>3, LocalEventDoes, LocalEventCoherent
  <2>2. SameNews(d, f, E, E)
    BY <2>1 DEF SameNews, Stops
  <2> HIDE DEF f
  <2>3. Handled(d, f, A, C, E)
    BY <2>1, <2>2, StopsHandled
  <2>4. QED
    BY <2>1, <2>3 DEF f
<1>4. QED
  BY <1>2, <1>3

\* handle_sync_event of a peer's request for a lock, which is not passed on.
LEMMA PeerHandled ==
    ASSUME NEW d, SoundRuntime(d), NEW A, NEW C \in Seq(BreakCommands), NEW E, Joint(d, A, C, E)
    PROVE  LET f == SyncEvent(d, 2, [kind |-> "LockAfterCurrentBreak"])
           IN  Coherent(f) /\ Handled(d, f, A, C, E)
<1> DEFINE f == SyncEvent(d, 2, [kind |-> "LockAfterCurrentBreak"])
<1>1. Coherent(d) /\ d.cmds = <<>> /\ DOMAIN d = DaemonFields
  BY DEF SoundRuntime, Coherent, Agreed
<1>2. f = RequestLock(d, FALSE)
  BY DEF SyncEvent
<1>3. Coherent(f)
  BY <1>1, <1>2, RequestLockCoherent
<1>4. IF \E c \in d.current : ~c.lock
      THEN Does(d, f, {[c EXCEPT !.lock = TRUE] : c \in d.current}, <<[kind |-> "RequestLock"]>>)
      ELSE f = d
  <2>1. IF \E c \in d.current : ~c.lock
        THEN Does(d, RequestLock(d, FALSE), {[c EXCEPT !.lock = TRUE] : c \in d.current},
                  <<[kind |-> "RequestLock"]>>)
        ELSE RequestLock(d, FALSE) = d
    BY <1>1, BreakEventsDo
  <2> HIDE DEF f
  <2>2. QED
    BY <1>2, <2>1
<1> HIDE DEF f
<1>5. Handled(d, f, A, C, E)
  BY <1>4, LockRequestHandled
<1>6. QED
  BY <1>3, <1>5 DEF f

-----------------------------------------------------------------------------
(* The steps                                                               *)

LEMMA LinkedValues == Linked <=> AreLinked(daemon, m, commands, events, session)
BY DEF Linked

\* What a handler sent has been taken out of the record.
LEMMA TurnLinked ==
    ASSUME NEW d, NEW f, Coherent(f), NEW b, SoundBackend(b), NEW C \in Seq(BreakCommands),
           NEW G \in Seq(Reports), NEW s \in {"locked", "unlocked"},
           Handled(d, f, b.active, C, G)
    PROVE  AreLinked([f EXCEPT !.cmds = <<>>, !.sent = <<>>], Quiet(b), C \o f.cmds, G, s)
<1> DEFINE g == [f EXCEPT !.cmds = <<>>, !.sent = <<>>]
<1>1. DOMAIN f = DaemonFields
  BY DEF Coherent, Agreed
<1>2. /\ Alike(f, g) /\ g.cmds = <<>> /\ g.up = f.up /\ g.running = f.running
      /\ g.current = f.current
  BY <1>1 DEF Alike, DaemonFields
<1> HIDE DEF g
<1>3. Coherent(g)
  BY <1>2, AlikeCoherent
<1>4. SoundRuntime(g)
  BY <1>2, <1>3 DEF SoundRuntime, Handled, LockKnown
<1>5. C \o f.cmds \in Seq(BreakCommands)
  BY DEF Handled
<1>6. Joint(g, b.active, C \o f.cmds, G)
  BY <1>2 DEF Handled, Joint, Pictures, Ended
<1>7. SoundBackend(Quiet(b)) /\ Quiet(b).active = b.active
  BY BackendRecords
<1>8. AreLinked(g, Quiet(b), C \o f.cmds, G, s)
  BY <1>4, <1>5, <1>6, <1>7 DEF AreLinked
<1>9. QED
  BY <1>8 DEF g

\* A turn of the runtime that leaves the reports G.
LEMMA TurnsLinked ==
    ASSUME NEW f, NEW G, Linked, Turn(f), events' = G, G \in Seq(Reports),
           Coherent(f), Handled(daemon, f, m.active, commands, G)
    PROVE  Linked'
<1>1. PICK b, C, s : b = m /\ C = commands /\ s = session
  OBVIOUS
<1>2. /\ daemon' = [f EXCEPT !.cmds = <<>>, !.sent = <<>>]
      /\ commands' = C \o f.cmds /\ m' = Quiet(b) /\ session' = s
  BY <1>1 DEF Turn
<1>3. /\ SoundBackend(b) /\ C \in Seq(BreakCommands) /\ s \in {"locked", "unlocked"}
      /\ Handled(daemon, f, b.active, C, G)
  BY <1>1 DEF Linked, AreLinked
<1>4. AreLinked([f EXCEPT !.cmds = <<>>, !.sent = <<>>], Quiet(b), C \o f.cmds, G, s)
  BY <1>3, TurnLinked
<1>5. AreLinked(daemon', m', commands', events', session')
  BY <1>2, <1>4
<1>6. QED
  BY <1>5 DEF Linked, AreLinked

LEMMA TakeEventLinked == Linked /\ TakeEvent => Linked'
<1>1. SUFFICES ASSUME Linked, TakeEvent PROVE Linked'
  OBVIOUS
<1> DEFINE f == LocalEvent(daemon, Head(events))
<1>2. /\ SoundRuntime(daemon) /\ commands \in Seq(BreakCommands) /\ events \in Seq(Reports)
      /\ Joint(daemon, m.active, commands, events)
  BY <1>1 DEF Linked, AreLinked
<1>3. events # <<>> /\ Turn(f) /\ events' = Tail(events)
  BY <1>1 DEF TakeEvent
<1>4. Coherent(f) /\ Handled(daemon, f, m.active, commands, Tail(events))
  BY <1>2, <1>3, ReportHandled
<1>5. Tail(events) \in Seq(Reports)
  BY <1>2, <1>3
<1> HIDE DEF f
<1>6. QED
  BY <1>1, <1>3, <1>4, <1>5, TurnsLinked

LEMMA TrayLinked ==
    ASSUME NEW e,
           \/ \E name : e = [kind |-> "StartManualBreak", name |-> name]
           \/ e = [kind |-> "Shutdown"]
    PROVE  Linked /\ FromTray(e) => Linked'
<1>1. SUFFICES ASSUME Linked, FromTray(e) PROVE Linked'
  OBVIOUS
<1> DEFINE f == LocalEvent(daemon, e)
<1>2. /\ SoundRuntime(daemon) /\ commands \in Seq(BreakCommands) /\ events \in Seq(Reports)
      /\ Joint(daemon, m.active, commands, events)
  BY <1>1 DEF Linked, AreLinked
<1>3. Turn(f) /\ events' = events
  BY <1>1 DEF FromTray
<1>4. Coherent(f) /\ Handled(daemon, f, m.active, commands, events)
  BY <1>2, TrayHandled
<1> HIDE DEF f
<1>5. QED
  BY <1>1, <1>2, <1>3, <1>4, TurnsLinked

LEMMA PeerLinked == Linked /\ PeerAsksForLock => Linked'
<1>1. SUFFICES ASSUME Linked, PeerAsksForLock PROVE Linked'
  OBVIOUS
<1> DEFINE f == SyncEvent(daemon, 2, [kind |-> "LockAfterCurrentBreak"])
<1>2. /\ SoundRuntime(daemon) /\ commands \in Seq(BreakCommands) /\ events \in Seq(Reports)
      /\ Joint(daemon, m.active, commands, events)
  BY <1>1 DEF Linked, AreLinked
<1>3. Turn(f) /\ events' = events
  BY <1>1 DEF PeerAsksForLock
<1>4. Coherent(f) /\ Handled(daemon, f, m.active, commands, events)
  BY <1>2, PeerHandled
<1> HIDE DEF f
<1>5. QED
  BY <1>1, <1>2, <1>3, <1>4, TurnsLinked

\* A step of the backend, to what it holds then.
LEMMA BackendLinked ==
    ASSUME NEW g, NEW D, NEW G, Linked, daemon.up, daemon' = daemon,
           m' = g, commands' = D, events' = G, session' \in {"locked", "unlocked"},
           SoundBackend(g), D \in Seq(BreakCommands), G \in Seq(Reports),
           Pictures(daemon, g.active, D, G)
    PROVE  Linked'
<1>1. PICK d : d = daemon
  OBVIOUS
<1>2. SoundRuntime(d)
  BY <1>1 DEF Linked, AreLinked
<1>3. AreLinked(d, g, D, G, session')
  BY <1>1, <1>2 DEF AreLinked, Joint
<1>4. AreLinked(daemon', m', commands', events', session')
  BY <1>1, <1>3
<1>5. QED
  BY <1>4 DEF Linked, AreLinked

LEMMA TakeCommandLinked == \A answer \in Answers : Linked /\ TakeCommand(answer) => Linked'
<1>1. SUFFICES ASSUME NEW answer \in Answers, Linked, TakeCommand(answer) PROVE Linked'
  OBVIOUS
<1> DEFINE g == HandleCommand(m, Present, Head(commands), answer)
           F == CommandEvents(answer)
           G == events \o F
<1>2. /\ SoundRuntime(daemon) /\ SoundBackend(m)
      /\ commands \in Seq(BreakCommands) /\ events \in Seq(Reports)
      /\ session \in {"locked", "unlocked"} /\ Joint(daemon, m.active, commands, events)
  BY <1>1 DEF Linked, AreLinked
<1>3. /\ daemon.up /\ commands # <<>> /\ m' = g /\ daemon' = daemon
      /\ commands' = Tail(commands) /\ events' = G
      /\ session' \in {"locked", session}
  BY <1>1 DEF TakeCommand, Queue, Locking
<1>4. Pictures(daemon, m.active, commands, events)
  BY <1>2, <1>3 DEF Joint
<1>5. /\ SoundBackend(g) /\ F \in Seq(Reports)
      /\ Pictures(daemon, g.active, Tail(commands), G)
  BY <1>2, <1>3, <1>4, CommandTaken
<1> HIDE DEF g, F
<1>6. G \in Seq(Reports) /\ Tail(commands) \in Seq(BreakCommands)
  BY <1>2, <1>3, <1>5
<1>7. session' \in {"locked", "unlocked"}
  BY <1>2, <1>3
<1> HIDE DEF G
<1>8. QED
  BY <1>1, <1>3, <1>5, <1>6, <1>7, BackendLinked

LEMMA SampleActivityLinked == \A active \in BOOLEAN : Linked /\ SampleActivity(active) => Linked'
<1>1. SUFFICES ASSUME NEW active \in BOOLEAN, Linked, SampleActivity(active) PROVE Linked'
  OBVIOUS
<1> DEFINE q == Quiet(m)
           g == [q EXCEPT !.clicked = FALSE]
           F == ActivityEvents(1, 0, active)
           G == events \o F
<1>2. /\ SoundBackend(m) /\ commands \in Seq(BreakCommands) /\ events \in Seq(Reports)
      /\ session \in {"locked", "unlocked"} /\ Joint(daemon, m.active, commands, events)
  BY <1>1 DEF Linked, AreLinked
<1>3. /\ daemon.up /\ m' = g /\ daemon' = daemon
      /\ commands' = commands /\ events' = G /\ session' = session
  BY <1>1 DEF SampleActivity, Sampling, Queue
<1>4. F \in Seq(Reports) /\ ~CarriesAny(F, Endings)
  BY ActivityEventsType, TimeReportsOnly
<1>5. SoundBackend(q) /\ q.active = m.active
  BY <1>2, BackendRecords
<1> HIDE DEF F, q
<1>6. SoundBackend(g) /\ g.active = m.active
  BY <1>5 DEF SoundBackend, BackendFields
<1> HIDE DEF g
<1>7. Pictures(daemon, g.active, commands, events)
  BY <1>2, <1>3, <1>6 DEF Joint
<1>8. Pictures(daemon, g.active, commands, G) /\ G \in Seq(Reports)
  BY <1>2, <1>4, <1>7, ReportsFollow
<1> HIDE DEF G
<1>9. session' \in {"locked", "unlocked"}
  BY <1>2, <1>3
<1>10. QED
  BY <1>1, <1>2, <1>3, <1>6, <1>8, <1>9, BackendLinked

LEMMA SampleBreakLinked == Linked /\ SampleActiveBreak => Linked'
<1>1. SUFFICES ASSUME Linked, SampleActiveBreak PROVE Linked'
  OBVIOUS
<1> DEFINE g == SampleOverlay(m, Present, session)
           F == OverlayEvents(m, Present, session)
           G == events \o F
<1>2. /\ SoundBackend(m) /\ events \in Seq(Reports)
      /\ session \in {"locked", "unlocked"} /\ Joint(daemon, m.active, commands, events)
  BY <1>1 DEF Linked, AreLinked
<1>3. /\ daemon.up /\ commands = <<>> /\ m.active # {} /\ m' = g /\ daemon' = daemon
      /\ commands' = <<>> /\ events' = G
      /\ session' \in {"locked", session}
  BY <1>1 DEF SampleActiveBreak, Sampling, Queue, Locking
<1>4. Pictures(daemon, m.active, <<>>, events)
  BY <1>2, <1>3 DEF Joint
<1>5. SoundBackend(g) /\ F \in Seq(Reports) /\ Pictures(daemon, g.active, <<>>, G)
  BY <1>2, <1>3, <1>4, BreakSampled
<1> HIDE DEF g, F
<1>6. G \in Seq(Reports) /\ <<>> \in Seq(BreakCommands)
  BY <1>2, <1>5
<1>7. session' \in {"locked", "unlocked"}
  BY <1>2, <1>3
<1> HIDE DEF G
<1>8. QED
  BY <1>1, <1>3, <1>5, <1>6, <1>7, BackendLinked

\* The user, who reaches the helper and the session but not the break.
LEMMA UserLinked == Linked /\ User => Linked'
<1>1. SUFFICES ASSUME Linked, User PROVE Linked'
  OBVIOUS
<1>2. PICK d, b, C, E : d = daemon /\ b = m /\ C = commands /\ E = events
  OBVIOUS
<1> DEFINE q == Quiet(b)
<1>3. AreLinked(d, b, C, E, session)
  BY <1>1, <1>2, LinkedValues
<1>4. /\ daemon' = d /\ commands' = C /\ events' = E
      /\ m' \in {q, Click(q)} /\ session' \in {session, "locked", "unlocked"}
  BY <1>1, <1>2 DEF User, ClickLock, LockSession, UnlockSession
<1>5. SoundBackend(q) /\ q.active = b.active
  BY <1>3, BackendRecords DEF AreLinked
<1> HIDE DEF q
<1>6. SoundBackend(Click(q)) /\ Click(q).active = b.active
  BY <1>5, BackendRecords
<1>7. PICK g : g = m' /\ SoundBackend(g) /\ g.active = b.active
  BY <1>4, <1>5, <1>6
<1>8. session' \in {"locked", "unlocked"}
  BY <1>3, <1>4 DEF AreLinked
<1>9. AreLinked(d, g, C, E, session')
  BY <1>3, <1>7, <1>8 DEF AreLinked
<1>10. AreLinked(daemon', m', commands', events', session')
  BY <1>4, <1>7, <1>9
<1>11. QED
  BY <1>10 DEF Linked, AreLinked

\* The backend ends, with or without an error.
LEMMA BackendEndsLinked == Linked /\ (BackendFails \/ BackendDrops) => Linked'
<1>1. SUFFICES ASSUME Linked, BackendFails \/ BackendDrops PROVE Linked'
  OBVIOUS
<1>2. PICK d, b, C, E, s : d = daemon /\ b = m /\ C = commands /\ E = events /\ s = session
  OBVIOUS
<1> DEFINE h == [d EXCEPT !.up = FALSE]
           q == Quiet(b)
           g == Cleared(q)
<1>3. AreLinked(d, b, C, E, s)
  BY <1>1, <1>2, LinkedValues
<1>4. /\ daemon' = h /\ m' = g /\ commands' = <<>> /\ session' = s
      /\ events' \in {E, Append(E, Event("Shutdown"))}
  BY <1>1, <1>2 DEF BackendFails, BackendDrops
<1>5. events' \in Seq(Reports)
  <2>1. Event("Shutdown") \in Reports
    BY DEF Event, Reports
  <2>2. QED
    BY <1>3, <1>4, <2>1 DEF AreLinked
<1>6. SoundBackend(q)
  BY <1>3, BackendRecords DEF AreLinked
<1> HIDE DEF q
<1>7. SoundBackend(g) /\ g.active = {}
  BY <1>6, BackendRecords
<1>8. DOMAIN d = DaemonFields /\ Coherent(d)
  BY <1>3 DEF AreLinked, SoundRuntime, Coherent, Agreed
<1>9. Alike(d, h) /\ h.up = FALSE /\ h.cmds = d.cmds /\ h.current = d.current
  BY <1>8 DEF Alike, DaemonFields
<1> HIDE DEF h, g
<1>10. Coherent(h)
  BY <1>8, <1>9, AlikeCoherent
<1>11. SoundRuntime(h)
  BY <1>3, <1>9, <1>10 DEF AreLinked, SoundRuntime
<1>12. <<>> \in Seq(BreakCommands)
  OBVIOUS
<1>13. AreLinked(h, g, <<>>, events', s)
  BY <1>3, <1>5, <1>7, <1>9, <1>11, <1>12 DEF AreLinked, Joint
<1>14. AreLinked(daemon', m', commands', events', session')
  BY <1>4, <1>13
<1>15. QED
  BY <1>14 DEF Linked, AreLinked

\* A tick brings ends nearer; it changes no lock and ends no break.
Aged(c) == [c EXCEPT !.at = Older(@)]
Nearer(a) == [a EXCEPT !.ends = LaterOf(@ - 1, Present), !.seen = Sighted(@)]
AgedRuntime(d) == [d EXCEPT !.current = {Aged(c) : c \in @}]
AgedBackend(b) == [Quiet(b) EXCEPT !.active = {Nearer(a) : a \in @}]

LEMMA AgedActive ==
    ASSUME NEW A, SoundActive(A)
    PROVE  LET N == {Nearer(a) : a \in A}
           IN  /\ SoundActive(N)
               /\ N = {} <=> A = {}
               /\ \A a \in N : \E k \in A : a.lock = k.lock
<1> DEFINE N == {Nearer(a) : a \in A}
<1>1. Present \in Int
  BY HorizonAssumption DEF Present
<1>2. \A k \in A : k \in ActiveBreaks /\ k.seen <= Present
  BY DEF SoundActive
<1>3. \A n \in Int : LaterOf(n - 1, Present) \in Int /\ Sighted(n) \in Int
  BY <1>1 DEF LaterOf, Sighted
<1>4. \A k \in A : /\ Nearer(k).lock = k.lock /\ Nearer(k).seen = Sighted(k.seen)
                    /\ Nearer(k) \in ActiveBreaks
  BY <1>2, <1>3 DEF ActiveBreaks, Nearer
<1>5. /\ \A a \in N : \E k \in A : a = Nearer(k)
      /\ \A k \in A : Nearer(k) \in N
  OBVIOUS
<1> HIDE DEF N
<1>6. ASSUME NEW a \in N PROVE a.seen <= Present
  <2>1. PICK k \in A : a.seen = Sighted(k.seen) /\ k.seen \in Int /\ k.seen <= Present
    BY <1>2, <1>4, <1>5 DEF ActiveBreaks
  <2>2. QED
    BY <1>1, <2>1 DEF Sighted, LaterOf
<1>7. N \subseteq ActiveBreaks /\ \A a, o \in N : a = o
  BY <1>4, <1>5 DEF SoundActive
<1>8. SoundActive(N)
  BY <1>6, <1>7 DEF SoundActive
<1>9. (N = {} <=> A = {}) /\ \A a \in N : \E k \in A : a.lock = k.lock
  BY <1>4, <1>5
<1>10. QED
  BY <1>8, <1>9 DEF N

LEMMA AgedSound ==
    ASSUME NEW d, SoundRuntime(d), NEW b, SoundBackend(b)
    PROVE  LET h == AgedRuntime(d)
               g == AgedBackend(b)
           IN  /\ SoundRuntime(h) /\ h.up = d.up /\ h.running = d.running
               /\ h.current = {} <=> d.current = {}
               /\ \A c \in h.current : \E k \in d.current : c.lock = k.lock
               /\ SoundBackend(g) /\ g.tap = b.tap
               /\ g.active = {} <=> b.active = {}
               /\ \A a \in g.active : \E k \in b.active : a.lock = k.lock
<1> DEFINE cur == {Aged(c) : c \in d.current}
           act == {Nearer(a) : a \in b.active}
           h == AgedRuntime(d)
           q == Quiet(b)
           g == AgedBackend(b)
<1>1. DOMAIN d = DaemonFields /\ Coherent(d)
  BY DEF SoundRuntime, Coherent, Agreed
<1>2. /\ \A c \in cur : \E k \in d.current : c = Aged(k)
      /\ \A k \in d.current : Aged(k) \in cur
      /\ \A k \in d.current : "lock" \in DOMAIN Aged(k) /\ Aged(k).lock = k.lock
  BY DEF SoundRuntime, Aged
<1>3. /\ DOMAIN h = DaemonFields /\ h.current = cur
      /\ h.sched = d.sched /\ h.disable = d.disable /\ h.avail = d.avail /\ h.status = d.status
      /\ h.budget = d.budget /\ h.now = d.now /\ h.cmds = d.cmds
      /\ h.up = d.up /\ h.running = d.running
  BY <1>1 DEF DaemonFields, AgedRuntime
<1>4. SoundBackend(q) /\ q.active = b.active /\ q.tap = b.tap /\ DOMAIN q = BackendFields
  <2>1. SoundBackend(q) /\ q.active = b.active
    BY BackendRecords
  <2>2. q.tap = b.tap /\ DOMAIN q = BackendFields
    BY DEF Quiet, SoundBackend, BackendFields
  <2>3. QED
    BY <2>1, <2>2
<1>5. g = [q EXCEPT !.active = act]
  BY <1>4 DEF AgedBackend
<1>6. /\ SoundActive(act) /\ (act = {} <=> b.active = {})
      /\ \A a \in act : \E k \in b.active : a.lock = k.lock
  BY AgedActive DEF SoundBackend
<1> HIDE DEF cur, act, h, q, g
<1>7. (h.current = {} <=> d.current = {}) /\ \A c \in h.current : \E k \in d.current : c.lock = k.lock
  BY <1>2, <1>3
<1>8. Coherent(h)
  <2>1. \A c, k \in h.current : c = k
    BY <1>1, <1>2, <1>3 DEF Coherent, Agreed
  <2>2. QED
    BY <1>1, <1>3, <1>7, <2>1 DEF Coherent, Agreed, StatusRight
<1>9. SoundRuntime(h)
  <2>1. \A c \in h.current : "lock" \in DOMAIN c /\ c.lock \in BOOLEAN
    BY <1>2, <1>3 DEF SoundRuntime
  <2>2. QED
    BY <1>3, <1>8, <2>1 DEF SoundRuntime
<1>10. SoundBackend(g) /\ g.active = act
  BY <1>4, <1>5, <1>6, ActiveReplaced
<1>11. g.tap = b.tap
  BY <1>4, <1>5 DEF BackendFields
<1>12. QED
  BY <1>3, <1>6, <1>7, <1>9, <1>10, <1>11 DEF h, g

LEMMA TickLinked == Linked /\ Tick => Linked'
<1>1. SUFFICES ASSUME Linked, Tick PROVE Linked'
  OBVIOUS
<1>2. PICK d, b, C, E, s : d = daemon /\ b = m /\ C = commands /\ E = events /\ s = session
  OBVIOUS
<1> DEFINE h == AgedRuntime(d)
           g == AgedBackend(b)
<1>3. AreLinked(d, b, C, E, s)
  BY <1>1, <1>2, LinkedValues
<1>4. daemon' = h /\ m' = g /\ session' = s /\ commands' = C /\ events' = E
  BY <1>1, <1>2 DEF Tick, AgedRuntime, AgedBackend, Aged, Nearer
<1>5. /\ SoundRuntime(h) /\ h.up = d.up /\ h.running = d.running
      /\ h.current = {} <=> d.current = {}
      /\ \A c \in h.current : \E k \in d.current : c.lock = k.lock
      /\ SoundBackend(g)
      /\ g.active = {} <=> b.active = {}
      /\ \A a \in g.active : \E k \in b.active : a.lock = k.lock
  BY <1>3, AgedSound DEF AreLinked
<1> HIDE DEF h, g
<1>6. Joint(h, g.active, C, E)
  <2>1. ASSUME Starting(d.current, C) PROVE Starting(h.current, C)
    <3>1. SUFFICES ASSUME NEW c \in h.current, NEW i \in DOMAIN C, C[i].kind = "StartBreak"
                   PROVE  c.lock <=> C[i].lock \/ LockFollows(C, i)
      BY DEF Starting
    <3>2. PICK k \in d.current : c.lock = k.lock
      BY <1>5
    <3>3. k.lock <=> C[i].lock \/ LockFollows(C, i)
      BY <2>1, <3>1 DEF Starting
    <3>4. QED
      BY <3>2, <3>3
  <2>2. ASSUME SameLock(d.current, b.active, C, E) PROVE SameLock(h.current, g.active, C, E)
    <3>1. SUFFICES ASSUME NEW c \in h.current, NEW o \in g.active
                   PROVE  /\ c.lock => o.lock \/ Carries(C, "RequestLock")
                          /\ Carries(C, "RequestLock") => c.lock
                          /\ o.lock => c.lock \/ Carries(E, "LockAfterCurrentBreak")
      BY DEF SameLock
    <3>2. PICK k \in d.current : c.lock = k.lock
      BY <1>5
    <3>3. PICK p \in b.active : o.lock = p.lock
      BY <1>5
    <3>4. /\ k.lock => p.lock \/ Carries(C, "RequestLock")
          /\ Carries(C, "RequestLock") => k.lock
          /\ p.lock => k.lock \/ Carries(E, "LockAfterCurrentBreak")
      BY <2>2 DEF SameLock
    <3>5. QED
      BY <3>2, <3>3, <3>4
  <2>3. Showing(d.current, b.active, C, E) => Showing(h.current, g.active, C, E)
    BY <1>5, <2>2 DEF Showing
  <2>4. Ended(d, b.active, E) => Ended(h, g.active, E)
    BY <1>5 DEF Ended
  <2>5. Pictures(d, b.active, C, E) => Pictures(h, g.active, C, E)
    BY <1>5, <2>1, <2>3, <2>4 DEF Pictures
  <2>6. QED
    BY <1>3, <1>5, <2>5 DEF AreLinked, Joint
<1>7. AreLinked(h, g, C, E, s)
  BY <1>3, <1>5, <1>6 DEF AreLinked
<1>8. AreLinked(daemon', m', commands', events', session')
  BY <1>4, <1>7
<1>9. QED
  BY <1>8 DEF Linked, AreLinked

LEMMA InitLinked == Init => Linked
<1>1. SUFFICES ASSUME Init PROVE Linked
  OBVIOUS
<1> DEFINE n == [NewDaemon(1) EXCEPT !.now = Present]
           d == UpdateStatus(n)
<1>2. daemon = d /\ m = NoBreak /\ commands = <<>> /\ events = <<>> /\ session = "unlocked"
  BY <1>1 DEF Init
<1>3. Agreed(n) /\ n.current = {} /\ n.cmds = <<>>
  <2>1. SoundScheduler(NewScheduler)
    BY RulesAssumption, AfterActiveAssumption
       DEF SoundScheduler, NewScheduler, Schedulers, WireValid, Modes
  <2>2. Present \in Nat
    BY HorizonAssumption DEF Present
  <2>3. QED
    BY <2>1, <2>2 DEF Agreed, NewDaemon, NewScheduler, Enabled, DaemonFields
<1>4. DOMAIN n = DaemonFields
  BY <1>3 DEF Agreed
<1> HIDE DEF n
<1>5. Coherent(d) /\ d.current = {}
  BY <1>3, <1>4, UpdateStatusShows
<1>6. d.cmds = <<>>
  BY <1>3, <1>4 DEF UpdateStatus, DaemonFields
<1>7. SoundRuntime(daemon)
  BY <1>2, <1>5, <1>6 DEF SoundRuntime
<1>8. SoundBackend(m) /\ m.active = {}
  BY <1>2 DEF SoundBackend, SoundActive, NoBreak, BackendFields
<1>9. Pictures(daemon, {}, <<>>, <<>>)
  <2>1. /\ \A k : ~Carries(<<>>, k)
        /\ \A K : ~CarriesAny(<<>>, K) /\ AtMostOne(<<>>, K)
    BY NoneCarried
  <2>2. Ordered(<<>>)
    BY <2>1 DEF Ordered
  <2>3. daemon.current = {}
    BY <1>2, <1>5
  <2>4. QED
    BY <2>1, <2>2, <2>3 DEF Pictures
<1>10. <<>> \in Seq(BreakCommands) /\ <<>> \in Seq(Reports)
  OBVIOUS
<1>11. Joint(daemon, m.active, commands, events)
  BY <1>2, <1>8, <1>9 DEF Joint
<1>12. QED
  BY <1>2, <1>7, <1>8, <1>10, <1>11 DEF Linked, AreLinked

LEMMA StepLinked == Linked /\ [Undisturbed]_vars => Linked'
<1>1. Linked /\ Backend => Linked'
  BY TakeCommandLinked, SampleActivityLinked, SampleBreakLinked, BackendEndsLinked DEF Backend
<1>2. \A name : Linked /\ StartByHand(name) => Linked'
  BY TrayLinked DEF StartByHand
<1>3. Linked /\ Quit => Linked'
  BY TrayLinked DEF Quit
<1>4. Linked /\ UNCHANGED vars => Linked'
  BY DEF Linked, vars
<1>5. QED
  BY <1>1, <1>2, <1>3, <1>4, TakeEventLinked, PeerLinked, BackendEndsLinked, UserLinked, TickLinked
     DEF Undisturbed

\* Whatever is on its way in either direction, the runtime's picture of the break
\* and the backend's fit together with it.
THEOREM ThreadsLinked == UndisturbedSpec => []Linked
<1>1. Init => Linked
  BY InitLinked
<1>2. Linked /\ [Undisturbed]_vars => Linked'
  BY StepLinked
<1>3. QED
  BY <1>1, <1>2, PTL DEF UndisturbedSpec

\* Once both channels are empty, the macOS backend has a break exactly when the
\* runtime has a current one, and both will end it with a lock or neither, although
\* apply_overlay_sample ends breaks before the runtime knows.
THEOREM ThreadsMeet == UndisturbedSpec => []ThreadsAgree
<1>1. Linked => ThreadsAgree
  <2>1. SUFFICES ASSUME Linked, Settled
                 PROVE  {c.lock : c \in daemon.current} = {a.lock : a \in m.active}
    BY DEF ThreadsAgree
  <2>2. /\ Pictures(daemon, m.active, <<>>, <<>>) /\ daemon.running
        /\ SoundRuntime(daemon) /\ SoundBackend(m)
    BY <2>1 DEF Linked, AreLinked, Settled, Joint
  <2>3. \A k : ~Carries(<<>>, k)
    BY NoneCarried
  <2>4. CASE daemon.current = {}
    <3>1. m.active = {}
      BY <2>2, <2>4 DEF Pictures
    <3>2. QED
      BY <2>4, <3>1
  <2>5. CASE daemon.current # {}
    <3>1. Showing(daemon.current, m.active, <<>>, <<>>)
      BY <2>2, <2>3, <2>5 DEF Pictures, Ended
    <3>2. PICK c \in daemon.current : daemon.current = {c}
      BY <2>2, <2>5 DEF SoundRuntime, Coherent, Agreed
    <3>3. PICK o \in m.active : m.active = {o}
      BY <2>2, <3>1 DEF SoundBackend, SoundActive, Showing
    <3>4. c.lock <=> o.lock
      BY <2>3, <3>1 DEF Showing, SameLock
    <3>5. c.lock \in BOOLEAN /\ o.lock \in BOOLEAN
      BY <2>2 DEF SoundRuntime, SoundBackend, SoundActive, ActiveBreaks
    <3>6. c.lock = o.lock
      BY <3>4, <3>5
    <3>7. {b.lock : b \in daemon.current} = {c.lock}
      BY <3>2
    <3>8. {b.lock : b \in m.active} = {o.lock}
      BY <3>3
    <3>9. QED
      BY <3>6, <3>7, <3>8
  <2>6. QED
    BY <2>4, <2>5
<1>2. QED
  BY <1>1, ThreadsLinked, PTL

-----------------------------------------------------------------------------
(* Who locks the session                                                   *)

\* A finish that the helper carries out: the input is let go, and there is a lock only
\* if one was asked for.
LEMMA FinishDone ==
    ASSUME NEW b, DOMAIN b = BackendFields, NEW lock \in BOOLEAN
    PROVE  LET g == Finish(b, lock, "done")
           IN  /\ DOMAIN g = BackendFields
               /\ IF b.active = {} THEN g.tap = b.tap /\ g.active = {} /\ g.locks = b.locks
                                  ELSE ~g.tap
               /\ b.locks = 0 /\ ~lock => g.locks = 0
<1> DEFINE f == [b EXCEPT !.active = {}, !.end = IF lock THEN "locked" ELSE "unlocked"]
           h == [Taken(f) EXCEPT !.locks = IF lock THEN 1 ELSE 0]
           g == Finish(b, lock, "done")
<1>1. g = IF b.active = {} THEN [b EXCEPT !.end = "none"] ELSE h
  BY DEF Finish, Reached
<1>2. DOMAIN f = BackendFields
  BY DEF BackendFields
<1> HIDE DEF f
<1>3. DOMAIN Taken(f) = BackendFields /\ ~Taken(f).tap
  BY <1>2 DEF Taken, BackendFields
<1>4. DOMAIN h = BackendFields /\ ~h.tap /\ (~lock => h.locks = 0)
  BY <1>3 DEF BackendFields
<1> HIDE DEF h, g
<1>5. CASE b.active = {}
  BY <1>1, <1>5 DEF BackendFields, g
<1>6. CASE b.active # {}
  BY <1>1, <1>4, <1>6 DEF g
<1>7. QED
  BY <1>5, <1>6

\* A step that handles a command locks nothing: the FinishBreak of a break the
\* backend has ended itself finds none.
LEMMA CommandLocksNothing ==
    ASSUME NEW b, SoundBackend(b), NEW d, NEW C \in Seq(BreakCommands), NEW E,
           Pictures(d, b.active, C, E), C # <<>>, NEW answer
    PROVE  HandleCommand(b, Present, Head(C), answer).locks = 0
<1> DEFINE c == Head(C)
           q == Quiet(b)
           g == HandleCommand(b, Present, c, answer)
<1>1. c.kind \in {"StartBreak", "FinishBreak", "RequestLock"}
  BY DEF BreakCommands
<1>2. Carries(C, c.kind)
  BY CarriedAfterTake
<1>3. DOMAIN q = BackendFields /\ q.active = b.active /\ q.locks = 0
  BY DEF SoundBackend, Quiet, BackendFields
<1> HIDE DEF c, q
<1>4. CASE c.kind = "StartBreak"
  <2>1. g = StartBreak(q, Present, c, answer)
    BY <1>4 DEF HandleCommand, q
  <2> DEFINE s == Reached(q, Shown(q, c.lock, answer), answer)
  <2>2. s.locks = 0 /\ DOMAIN s = BackendFields
    BY <1>3 DEF Reached, Shown, Taken, BackendFields
  <2>3. g = s \/ \E A : g = [s EXCEPT !.active = A]
    BY <2>1 DEF StartBreak
  <2> HIDE DEF g, s
  <2>4. g.locks = 0
    BY <2>2, <2>3 DEF BackendFields
  <2>5. QED
    BY <2>4 DEF g, c
<1>5. CASE c.kind = "FinishBreak"
  <2>1. q.active = {}
    BY <1>2, <1>3, <1>5 DEF Pictures
  <2>2. g = [q EXCEPT !.end = "none"]
    BY <1>5, <2>1 DEF HandleCommand, Finish, q
  <2> HIDE DEF g
  <2>3. g.locks = 0
    BY <1>3, <2>2 DEF BackendFields
  <2>4. QED
    BY <2>3 DEF g, c
<1>6. CASE c.kind = "RequestLock"
  <2> DEFINE k == [q EXCEPT !.active = {[a EXCEPT !.lock = TRUE] : a \in @}]
  <2>1. g \in {q, k, Updated(k, TRUE)}
    BY <1>6 DEF HandleCommand, RequestLockAfter, Reached, q
  <2>2. k.locks = 0 /\ DOMAIN k = BackendFields
    BY <1>3 DEF BackendFields
  <2> HIDE DEF g, k
  <2>3. Updated(k, TRUE).locks = 0
    BY <2>2 DEF Updated, BackendFields
  <2>4. g.locks = 0
    BY <1>3, <2>1, <2>2, <2>3
  <2>5. QED
    BY <2>4 DEF g, c
<1>7. QED
  BY <1>1, <1>4, <1>5, <1>6

\* A sample locks only what it ends in its time.
LEMMA SampleLocksInTime ==
    ASSUME NEW b, SoundBackend(b), NEW s \in {"locked", "unlocked"},
           Deferred(b) \/ s # "unlocked"
    PROVE  SampleOverlay(b, Present, s).locks = 0
<1> DEFINE q == Quiet(b)
           k == Seen(b, Present)
           A == {[a EXCEPT !.lock = AsksForLock(b)] : a \in k.active}
           t == [k EXCEPT !.active = A]
           g == SampleOverlay(b, Present, s)
<1>1. DOMAIN q = BackendFields /\ q.locks = 0
  BY DEF SoundBackend, Quiet, BackendFields
<1> HIDE DEF q
<1>2. DOMAIN k = BackendFields /\ k.locks = 0
  BY <1>1 DEF Seen, q, BackendFields
<1> HIDE DEF k, A
<1>3. DOMAIN t = BackendFields /\ t.locks = 0
  BY <1>2 DEF BackendFields
<1>4. t = [Seen(b, Present) EXCEPT !.active = {[a EXCEPT !.lock = AsksForLock(b)] : a \in @}]
  BY <1>2 DEF k, A, BackendFields
<1> HIDE DEF t
<1>5. CASE Deferred(b) /\ s = "locked"
  BY <1>2, <1>5 DEF SampleOverlay, k
<1>6. CASE Deferred(b) /\ s # "locked"
  <2> DEFINE h == Finish(k, FALSE, "done")
  <2>1. DOMAIN h = BackendFields /\ h.locks = 0
    BY <1>2, FinishDone
  <2>2. g = [h EXCEPT !.end = "deferred"]
    BY <1>6 DEF SampleOverlay, k
  <2> HIDE DEF h, g
  <2>3. g.locks = 0
    BY <2>1, <2>2 DEF BackendFields
  <2>4. QED
    BY <2>3 DEF g
<1>7. CASE ~Deferred(b) /\ ~Over(b, Present)
  <2>1. g = Updated(t, AsksForLock(b))
    BY <1>4, <1>7 DEF SampleOverlay
  <2> HIDE DEF g
  <2>2. g.locks = 0
    BY <1>3, <2>1 DEF Updated, BackendFields
  <2>3. QED
    BY <2>2 DEF g
<1>8. CASE ~Deferred(b) /\ Over(b, Present) /\ s = "locked"
  <2>1. g = [t EXCEPT !.active = {[a EXCEPT !.deferred = TRUE] : a \in @}]
    BY <1>4, <1>8 DEF SampleOverlay
  <2> HIDE DEF g
  <2>2. g.locks = 0
    BY <1>3, <2>1 DEF BackendFields
  <2>3. QED
    BY <2>2 DEF g
<1>9. QED
  BY <1>5, <1>6, <1>7, <1>8

\* The session is locked only by a sample that ends a break in its time, and only
\* when it is not locked yet: neither a break whose end was put off nor the
\* FinishBreak that follows every end locks it again.
THEOREM LocksOnce == UndisturbedSpec => NoSecondLock
<1> DEFINE Once == m'.locks > 0 => ~Deferred(m) /\ session = "unlocked"
<1>1. ASSUME Linked, [Undisturbed]_vars PROVE [Once]_vars
  <2>1. SUFFICES ASSUME Undisturbed PROVE Once
    BY <1>1
  <2>2. SoundBackend(m) /\ SoundRuntime(daemon) /\ Joint(daemon, m.active, commands, events)
        /\ session \in {"locked", "unlocked"} /\ commands \in Seq(BreakCommands)
    BY <1>1 DEF Linked, AreLinked
  <2>3. DOMAIN m = BackendFields
    BY <2>2 DEF SoundBackend
  <2>4. Quiet(m).locks = 0 /\ DOMAIN Quiet(m) = BackendFields
    BY <2>3 DEF Quiet, BackendFields
  <2>5. ASSUME m' = Quiet(m) PROVE Once
    BY <2>4, <2>5
  <2>6. ASSUME NEW answer \in Answers, TakeCommand(answer) PROVE Once
    <3>1. daemon.up /\ commands # <<>> /\ m' = HandleCommand(m, Present, Head(commands), answer)
      BY <2>6 DEF TakeCommand
    <3>2. m'.locks = 0
      BY <2>2, <3>1, CommandLocksNothing DEF Joint
    <3>3. QED
      BY <3>2
  <2>7. ASSUME SampleActiveBreak PROVE Once
    <3>1. m' = SampleOverlay(m, Present, session)
      BY <2>7 DEF SampleActiveBreak
    <3>2. Deferred(m) \/ session # "unlocked" => m'.locks = 0
      BY <2>2, <3>1, SampleLocksInTime
    <3>3. QED
      BY <3>2
  <2>8. ASSUME NEW active, SampleActivity(active) PROVE Once
    <3>1. m' = [Quiet(m) EXCEPT !.clicked = FALSE]
      BY <2>8 DEF SampleActivity
    <3>2. m'.locks = 0
      BY <2>4, <3>1 DEF BackendFields
    <3>3. QED
      BY <3>2
  <2>9. ASSUME BackendFails \/ BackendDrops PROVE Once
    <3>1. m' = Cleared(Quiet(m))
      BY <2>9 DEF BackendFails, BackendDrops
    <3>2. m'.locks = 0
      BY <2>4, <3>1 DEF Cleared, Taken, BackendFields
    <3>3. QED
      BY <3>2
  <2>10. ASSUME User PROVE Once
    <3>1. m' = Quiet(m) \/ m' = Click(Quiet(m))
      BY <2>10 DEF User, ClickLock, LockSession, UnlockSession
    <3>2. Click(Quiet(m)).locks = 0
      BY <2>4 DEF Click, BackendFields
    <3>3. QED
      BY <2>5, <3>1, <3>2
  <2>11. ASSUME Tick PROVE Once
    <3>1. PICK A : m' = [Quiet(m) EXCEPT !.active = A]
      BY <2>11 DEF Tick
    <3>2. m'.locks = 0
      BY <2>4, <3>1 DEF BackendFields
    <3>3. QED
      BY <3>2
  <2>12. ASSUME TakeEvent \/ (\E name \in Names : StartByHand(name)) \/ Quit \/ PeerAsksForLock
         PROVE  Once
    BY <2>5, <2>12 DEF TakeEvent, StartByHand, Quit, PeerAsksForLock, FromTray, Turn
  <2>13. ASSUME Backend PROVE Once
    BY <2>6, <2>7, <2>8, <2>9, <2>13 DEF Backend
  <2>14. QED
    BY <2>1, <2>9, <2>10, <2>11, <2>12, <2>13 DEF Undisturbed
<1>2. UndisturbedSpec => [][Once]_vars
  BY <1>1, ThreadsLinked, PTL DEF UndisturbedSpec
<1>3. QED
  BY <1>2 DEF NoSecondLock

-----------------------------------------------------------------------------
(* Keyboard and pointer, also when breaks are disabled: what the runtime    *)
(* tells the backend then may clear a break at any time.                    *)

AllCommands == BreakCommands \cup [kind : {"ClearBreak"}]

Held(b) == b.tap => b.active # {}

\* The runtime stops, or will once it hears of an error.
Ceasing(d, E) == ~d.running \/ Carries(E, "Shutdown")

\* The inductive invariant, for values and for the state.  No command, whatever
\* its order, leaves the helper holding the input without a break, unless its request
\* failed; and then the runtime is told to stop.
AreGuarded(d, b, C, E, s) ==
    /\ SoundRuntime(d) /\ SoundBackend(b) /\ (Held(b) \/ Ceasing(d, E))
    /\ C \in Seq(AllCommands) /\ E \in Seq(Reports)
    /\ s \in {"locked", "unlocked"}
Guarded == AreGuarded(daemon, m, commands, events, session)

\* The runtime f may send what it has for the backend.
ReadyToSend(f) == Coherent(f) /\ LockKnown(f) /\ f.cmds \in Seq(AllCommands)

LEMMA DoesTells ==
    ASSUME NEW d, NEW f, Coherent(f), NEW cur, NEW cs \in Seq(AllCommands), Does(d, f, cur, cs),
           \A c \in cur : "lock" \in DOMAIN c /\ c.lock \in BOOLEAN
    PROVE  ReadyToSend(f)
<1>1. f.current = cur /\ (f.cmds = cs \/ f.cmds = <<>>)
  BY DEF Does
<1>2. <<>> \in Seq(AllCommands)
  OBVIOUS
<1>3. QED
  BY <1>1, <1>2 DEF ReadyToSend, LockKnown

LEMMA EndTells ==
    ASSUME NEW d, NEW f, Coherent(f), NEW cs \in Seq(AllCommands), Does(d, f, {}, cs)
    PROVE  ReadyToSend(f)
<1>1. \A c \in {} : "lock" \in DOMAIN c /\ c.lock \in BOOLEAN
  OBVIOUS
<1> DEFINE none == {}
<1>2. Does(d, f, none, cs) /\ \A c \in none : "lock" \in DOMAIN c /\ c.lock \in BOOLEAN
  BY <1>1
<1> HIDE DEF none
<1>3. QED
  BY <1>2, DoesTells

LEMMA OneCommand ==
    ASSUME NEW c \in AllCommands
    PROVE  <<c>> \in Seq(AllCommands) /\ <<>> \in Seq(AllCommands)
OBVIOUS

LEMMA MayStartTells ==
    ASSUME NEW d, SoundRuntime(d), NEW f, Coherent(f), MayStart(d, f)
    PROVE  ReadyToSend(f)
<1>1. LockKnown(d)
  BY DEF SoundRuntime, LockKnown
<1>2. CASE Does(d, f, d.current, <<>>)
  <2>1. <<>> \in Seq(AllCommands)
    OBVIOUS
  <2>2. QED
    BY <1>1, <1>2, <2>1, DoesTells DEF LockKnown
<1>3. ASSUME NEW c, NEW n \in Nat, "lock" \in DOMAIN c, c.lock \in BOOLEAN,
             Does(d, f, {c}, <<[kind |-> "StartBreak", lock |-> c.lock, remaining |-> n]>>)
      PROVE  ReadyToSend(f)
  <2> DEFINE cmd == [kind |-> "StartBreak", lock |-> c.lock, remaining |-> n]
  <2>1. cmd \in AllCommands
    BY <1>3 DEF AllCommands, BreakCommands
  <2>2. Does(d, f, {c}, <<cmd>>)
    BY <1>3
  <2> HIDE DEF cmd
  <2>3. <<cmd>> \in Seq(AllCommands)
    BY <2>1, OneCommand
  <2>4. \A k \in {c} : "lock" \in DOMAIN k /\ k.lock \in BOOLEAN
    BY <1>3
  <2> DEFINE cur == {c}
  <2>5. Does(d, f, cur, <<cmd>>) /\ \A k \in cur : "lock" \in DOMAIN k /\ k.lock \in BOOLEAN
    BY <2>2, <2>4
  <2> HIDE DEF cur
  <2>6. QED
    BY <2>3, <2>5, DoesTells
<1>4. QED
  BY <1>2, <1>3 DEF MayStart

LEMMA StopsTells ==
    ASSUME NEW d, SoundRuntime(d), NEW f, Coherent(f), Stops(d, f)
    PROVE  ReadyToSend(f)
<1>1. f.current = d.current /\ f.cmds = <<>>
  BY DEF Stops, SoundRuntime
<1>2. <<>> \in Seq(AllCommands)
  OBVIOUS
<1>3. QED
  BY <1>1, <1>2 DEF ReadyToSend, LockKnown, SoundRuntime

LEMMA LockRequestTells ==
    ASSUME NEW d, SoundRuntime(d), NEW f, Coherent(f),
           IF \E c \in d.current : ~c.lock
           THEN Does(d, f, {[c EXCEPT !.lock = TRUE] : c \in d.current}, <<[kind |-> "RequestLock"]>>)
           ELSE f = d
    PROVE  ReadyToSend(f)
<1>1. LockKnown(d) /\ d.cmds = <<>> /\ DOMAIN d = DaemonFields
  BY DEF SoundRuntime, LockKnown, Coherent, Agreed
<1>2. CASE \E c \in d.current : ~c.lock
  <2> DEFINE cmd == [kind |-> "RequestLock"]
             L == {[c EXCEPT !.lock = TRUE] : c \in d.current}
  <2>1. \A c \in L : "lock" \in DOMAIN c /\ c.lock \in BOOLEAN
    BY <1>1 DEF LockKnown
  <2>2. cmd \in AllCommands
    BY DEF AllCommands, BreakCommands
  <2>3. Does(d, f, L, <<cmd>>)
    BY <1>2
  <2> HIDE DEF cmd, L
  <2>4. <<cmd>> \in Seq(AllCommands)
    BY <2>2, OneCommand
  <2>5. QED
    BY <2>1, <2>3, <2>4, DoesTells
<1>3. CASE ~\E c \in d.current : ~c.lock
  <2>1. f = d /\ <<>> \in Seq(AllCommands)
    BY <1>3
  <2>2. QED
    BY <1>1, <2>1 DEF ReadyToSend
<1>4. QED
  BY <1>2, <1>3

\* handle_event, of a report of the backend and of what the tray offers.
LEMMA EventTells ==
    ASSUME NEW d, SoundRuntime(d), NEW e,
           \/ e \in Reports
           \/ \E name : e = [kind |-> "StartManualBreak", name |-> name]
           \/ e \in [kind : {"DisableUntilRestart", "Enable"}]
    PROVE  ReadyToSend(LocalEvent(d, e))
<1> DEFINE f == LocalEvent(d, e)
<1>1. Coherent(d) /\ d.cmds = <<>> /\ LockKnown(d) /\ DOMAIN d = DaemonFields
  BY DEF SoundRuntime, LockKnown, Coherent, Agreed
<1>2. <<>> \in Seq(AllCommands)
  OBVIOUS
<1>3. CASE e \in TimeReports
  <2>1. MayStart(d, f) /\ Coherent(f)
    BY <1>3, TimeReportHandled
  <2> HIDE DEF f
  <2>2. ReadyToSend(f)
    BY <2>1, MayStartTells
  <2>3. QED
    BY <2>2 DEF f
<1>4. CASE \E name : e = [kind |-> "StartManualBreak", name |-> name]
  <2>1. MayStart(d, f) /\ Coherent(f)
    BY <1>1, <1>4, LocalEventDoes, LocalEventCoherent
  <2> HIDE DEF f
  <2>2. ReadyToSend(f)
    BY <2>1, MayStartTells
  <2>3. QED
    BY <2>2 DEF f
<1>5. CASE e = [kind |-> "Shutdown"]
  <2>1. Stops(d, f) /\ Coherent(f)
    BY <1>1, <1>5, LocalEventDoes, LocalEventCoherent
  <2> HIDE DEF f
  <2>2. ReadyToSend(f)
    BY <2>1, StopsTells
  <2>3. QED
    BY <2>2 DEF f
<1>6. CASE e = [kind |-> "BreakStartFailed"]
  <2>1. Does(d, f, {}, <<>>) /\ Coherent(f)
    BY <1>1, <1>6, LocalEventDoes, LocalEventCoherent
  <2> HIDE DEF f
  <2>2. ReadyToSend(f)
    BY <1>2, <2>1, EndTells
  <2>3. QED
    BY <2>2 DEF f
<1>7. CASE e = [kind |-> "BreakFinished"]
  <2> DEFINE cmd == [kind |-> "FinishBreak", lock |-> \E c \in d.current : c.lock]
             cs == IF d.current = {} THEN <<>> ELSE <<cmd>>
  <2>1. Does(d, f, {}, cs) /\ Coherent(f)
    BY <1>1, <1>7, LocalEventDoes, LocalEventCoherent
  <2>2. cmd \in AllCommands
    BY DEF AllCommands, BreakCommands
  <2> HIDE DEF f, cmd
  <2>3. cs \in Seq(AllCommands)
    BY <1>2, <2>2, OneCommand
  <2> HIDE DEF cs
  <2>4. ReadyToSend(f)
    BY <2>1, <2>3, EndTells
  <2>5. QED
    BY <2>4 DEF f
<1>8. CASE e = [kind |-> "LockAfterCurrentBreak"]
  <2>1. Coherent(f)
    BY <1>1, <1>8, LocalEventCoherent
  <2>2. IF \E c \in d.current : ~c.lock
        THEN Does(d, f, {[c EXCEPT !.lock = TRUE] : c \in d.current}, <<[kind |-> "RequestLock"]>>)
        ELSE f = d
    BY <1>1, <1>8, LocalEventDoes
  <2> HIDE DEF f
  <2>3. ReadyToSend(f)
    BY <2>1, <2>2, LockRequestTells
  <2>4. QED
    BY <2>3 DEF f
<1>9. CASE e = [kind |-> "DisableUntilRestart"]
  <2>1. Coherent(f) /\ f = DisableUntilRestart(d, TRUE)
    BY <1>1, <1>9, LocalEventCoherent DEF LocalEvent
  <2> HIDE DEF f
  <2>2. PICK cs \in {<<>>, <<[kind |-> "ClearBreak"]>>} : Does(d, f, {}, cs)
    BY <1>1, <2>1, DisablingDoes
  <2>3. [kind |-> "ClearBreak"] \in AllCommands
    BY DEF AllCommands
  <2>4. cs \in Seq(AllCommands)
    BY <1>2, <2>2, <2>3, OneCommand
  <2>5. ReadyToSend(f)
    BY <2>1, <2>2, <2>4, EndTells
  <2>6. QED
    BY <2>5 DEF f
<1>10. CASE e = [kind |-> "Enable"]
  <2>1. Coherent(f) /\ f = EnableBreaks(d, TRUE)
    BY <1>1, <1>10, LocalEventCoherent DEF LocalEvent
  <2> HIDE DEF f
  <2>2. Does(d, f, d.current, <<>>)
    BY <1>1, <2>1, DisablingDoes
  <2>3. ReadyToSend(f)
    BY <1>1, <1>2, <2>1, <2>2, DoesTells DEF LockKnown
  <2>4. QED
    BY <2>3 DEF f
<1>11. QED
  BY <1>3, <1>4, <1>5, <1>6, <1>7, <1>8, <1>9, <1>10 DEF Reports

\* What ends a break lets go of the input; what shows one over it holds one.
LEMMA LetGo ==
    ASSUME NEW b, SoundBackend(b), NEW lock \in BOOLEAN
    PROVE  /\ ~Cleared(b).tap
           /\ Held(b) => Held(Finish(b, lock, "done"))
           /\ Updated(b, lock).tap = b.tap
           /\ Quiet(b).tap = b.tap /\ Click(b).tap = b.tap
<1>1. DOMAIN b = BackendFields
  BY DEF SoundBackend
<1>2. ~Cleared(b).tap
  BY <1>1 DEF Cleared, Taken, BackendFields
<1>3. Held(b) => Held(Finish(b, lock, "done"))
  BY <1>1, FinishDone DEF Held
<1>4. Updated(b, lock).tap = b.tap /\ Quiet(b).tap = b.tap /\ Click(b).tap = b.tap
  BY <1>1 DEF Updated, Quiet, Click, BackendFields
<1>5. QED
  BY <1>2, <1>3, <1>4

\* clear_break, whatever becomes of its request.
LEMMA ClearHandled ==
    ASSUME NEW b, SoundBackend(b), NEW answer
    PROVE  SoundBackend(ClearBreak(b, answer)) /\ ~ClearBreak(b, "done").tap
<1>1. SoundBackend(Cleared(b)) /\ ~Cleared(b).tap
  BY BackendRecords, LetGo
<1>2. SoundBackend(Taken(b))
  BY DEF SoundBackend, Taken, BackendFields
<1>3. QED
  BY <1>1, <1>2 DEF ClearBreak, Reached

\* A command whose request is answered keeps the input and the break together; one
\* whose request fails leaves a backend all the same.
LEMMA CommandHolds ==
    ASSUME NEW b, SoundBackend(b), NEW c \in AllCommands, NEW answer \in Answers
    PROVE  LET g == HandleCommand(b, Present, c, answer)
           IN  SoundBackend(g) /\ (Held(b) /\ answer = "done" => Held(g))
<1> DEFINE q == Quiet(b)
           g == HandleCommand(b, Present, c, answer)
<1>1. /\ SoundBackend(q) /\ DOMAIN q = BackendFields /\ q.active = b.active /\ q.tap = b.tap
      /\ Held(b) => Held(q)
  BY BackendRecords, LetGo DEF Held, SoundBackend
<1>2. CASE c.kind = "StartBreak"
  <2>1. c \in BreakCommands
    BY <1>2 DEF AllCommands
  <2>2. SoundBackend(g) /\ (answer = "done" => g.active # {})
    BY <1>2, <2>1, StartHandled
  <2> HIDE DEF g
  <2>3. answer = "done" => Held(g)
    BY <2>2 DEF Held
  <2>4. QED
    BY <2>2, <2>3 DEF g
<1>3. CASE c.kind = "FinishBreak"
  <2>1. g = Finish(q, c.lock, answer) /\ c.lock \in BOOLEAN
    BY <1>3 DEF HandleCommand, AllCommands, BreakCommands
  <2> HIDE DEF q, g
  <2>2. SoundBackend(g)
    BY <1>1, <2>1, FinishLeavesNone
  <2>3. Held(b) /\ answer = "done" => Held(g)
    BY <1>1, <2>1, LetGo
  <2>4. QED
    BY <2>2, <2>3 DEF g
<1>4. CASE c.kind = "RequestLock"
  <2> DEFINE A == {[a EXCEPT !.lock = TRUE] : a \in q.active}
             k == [q EXCEPT !.active = A]
  <2>1. SoundBackend(g) /\ (g.active = {} <=> b.active = {})
    BY <1>4, LockHandled
  <2>2. g \in {q, k, Updated(k, TRUE)}
    BY <1>4 DEF HandleCommand, RequestLockAfter, Reached
  <2>3. k.tap = q.tap /\ Updated(k, TRUE).tap = k.tap
    BY <1>1 DEF Updated, BackendFields
  <2> HIDE DEF k, q, g
  <2>4. g.tap = b.tap
    BY <1>1, <2>2, <2>3
  <2>5. Held(b) => Held(g)
    BY <2>1, <2>4 DEF Held
  <2>6. QED
    BY <2>1, <2>5 DEF g
<1>5. CASE c.kind = "ClearBreak"
  <2>1. g = ClearBreak(q, answer)
    BY <1>5 DEF HandleCommand
  <2> HIDE DEF q, g
  <2>2. SoundBackend(g) /\ (answer = "done" => ~g.tap)
    BY <1>1, <2>1, ClearHandled
  <2>3. QED
    BY <2>2 DEF g, Held
<1>6. QED
  BY <1>2, <1>3, <1>4, <1>5 DEF AllCommands, BreakCommands

\* apply_overlay_sample: a break that is kept is there to hold the input.
LEMMA SampleHolds ==
    ASSUME NEW b, SoundBackend(b), NEW a \in b.active, NEW s \in {"locked", "unlocked"}
    PROVE  LET g == SampleOverlay(b, Present, s)
           IN  SoundBackend(g) /\ Held(g)
<1> DEFINE g == SampleOverlay(b, Present, s)
           k == Seen(b, Present)
           t == [k EXCEPT !.active = {[c EXCEPT !.lock = AsksForLock(b)] : c \in @}]
<1>1. /\ SoundBackend(g)
      /\ ~Released(b, s) => \E o : g.active = {o}
  BY OverlayAfterSample
<1>2. CASE ~Released(b, s)
  <2> HIDE DEF g
  <2>1. Held(g)
    BY <1>1, <1>2 DEF Held
  <2>2. QED
    BY <1>1, <2>1 DEF g
<1>3. CASE Released(b, s)
  <2>1. s # "locked" /\ (Deferred(b) \/ Over(b, Present))
    BY <1>3 DEF Released
  <2>2. g \in {[Finish(k, FALSE, "done") EXCEPT !.end = "deferred"], Finish(t, AsksForLock(b), "done")}
    BY <2>1 DEF SampleOverlay
  <2>3. DOMAIN b = BackendFields
    BY DEF SoundBackend
  <2>4. DOMAIN k = BackendFields /\ k.active # {}
    <3> DEFINE N == {[c EXCEPT !.seen = Present] : c \in b.active}
    <3>1. N # {}
      OBVIOUS
    <3>2. k = [Quiet(b) EXCEPT !.clicked = FALSE, !.active = N]
      BY <2>3 DEF Seen, Quiet, BackendFields
    <3> HIDE DEF N, k
    <3>3. DOMAIN Quiet(b) = BackendFields
      BY <2>3 DEF Quiet
    <3>4. DOMAIN k = BackendFields /\ k.active = N
      BY <3>2, <3>3 DEF BackendFields
    <3>5. QED
      BY <3>1, <3>4 DEF k
  <2> HIDE DEF k, g
  <2>5. DOMAIN t = BackendFields /\ t.active # {}
    <3> DEFINE N == {[c EXCEPT !.lock = AsksForLock(b)] : c \in k.active}
    <3>1. N # {}
      BY <2>4
    <3>2. t = [k EXCEPT !.active = N]
      OBVIOUS
    <3> HIDE DEF N, t
    <3>3. DOMAIN t = BackendFields /\ t.active = N
      BY <2>4, <3>2 DEF BackendFields
    <3>4. QED
      BY <3>1, <3>3 DEF t
  <2> HIDE DEF t
  <2>6. ~[Finish(k, FALSE, "done") EXCEPT !.end = "deferred"].tap
    <3> DEFINE h == Finish(k, FALSE, "done")
    <3>1. DOMAIN h = BackendFields /\ ~h.tap
      BY <2>4, FinishDone
    <3> HIDE DEF h
    <3>2. ~[h EXCEPT !.end = "deferred"].tap
      BY <3>1 DEF BackendFields
    <3>3. QED
      BY <3>2 DEF h
  <2>7. ~Finish(t, AsksForLock(b), "done").tap
    <3>1. AsksForLock(b) \in BOOLEAN
      BY DEF AsksForLock, SoundBackend
    <3>2. QED
      BY <2>5, <3>1, FinishDone
  <2>8. Held(g)
    BY <2>2, <2>6, <2>7 DEF Held
  <2>9. QED
    BY <1>1, <2>8 DEF g
<1>4. QED
  BY <1>2, <1>3

\* handle_sync_event of a peer's request for a lock.
LEMMA PeerTells ==
    ASSUME NEW d, SoundRuntime(d)
    PROVE  ReadyToSend(SyncEvent(d, 2, [kind |-> "LockAfterCurrentBreak"]))
<1> DEFINE f == RequestLock(d, FALSE)
<1>1. Coherent(d) /\ d.cmds = <<>> /\ DOMAIN d = DaemonFields
  BY DEF SoundRuntime, Coherent, Agreed
<1>2. Coherent(f)
  BY <1>1, RequestLockCoherent
<1>3. IF \E c \in d.current : ~c.lock
      THEN Does(d, f, {[c EXCEPT !.lock = TRUE] : c \in d.current}, <<[kind |-> "RequestLock"]>>)
      ELSE f = d
  BY <1>1, BreakEventsDo
<1>4. SyncEvent(d, 2, [kind |-> "LockAfterCurrentBreak"]) = f
  BY DEF SyncEvent
<1> HIDE DEF f
<1>5. ReadyToSend(f)
  BY <1>2, <1>3, LockRequestTells
<1>6. QED
  BY <1>4, <1>5

LEMMA GuardedValues == Guarded <=> AreGuarded(daemon, m, commands, events, session)
BY DEF Guarded

LEMMA TurnGuarded ==
    ASSUME NEW f, Guarded, Turn(f), ReadyToSend(f), events' \in Seq(Reports),
           Carries(events, "Shutdown") => Ceasing(f, events')
    PROVE  Guarded'
<1>1. PICK b, C, s : b = m /\ C = commands /\ s = session
  OBVIOUS
<1> DEFINE g == [f EXCEPT !.cmds = <<>>, !.sent = <<>>]
<1>2. /\ daemon' = g /\ commands' = C \o f.cmds /\ m' = Quiet(b) /\ session' = s
  BY <1>1 DEF Turn
<1>3. /\ SoundBackend(b) /\ C \in Seq(AllCommands) /\ s \in {"locked", "unlocked"}
      /\ Held(b) \/ Carries(events, "Shutdown")
  BY <1>1 DEF Guarded, AreGuarded, Turn, Ceasing
<1>4. DOMAIN f = DaemonFields
  BY DEF ReadyToSend, Coherent, Agreed
<1>5. Alike(f, g) /\ g.cmds = <<>> /\ g.current = f.current /\ g.running = f.running
  BY <1>4 DEF Alike, DaemonFields
<1> HIDE DEF g
<1>6. SoundRuntime(g)
  BY <1>5, AlikeCoherent DEF ReadyToSend, SoundRuntime, LockKnown
<1>7. SoundBackend(Quiet(b)) /\ (Held(b) => Held(Quiet(b)))
  BY <1>3, BackendRecords, LetGo DEF Held
<1>8. C \o f.cmds \in Seq(AllCommands)
  BY <1>3 DEF ReadyToSend
<1>9. Held(Quiet(b)) \/ Ceasing(g, events')
  BY <1>3, <1>5, <1>7 DEF Ceasing
<1>10. AreGuarded(daemon', m', commands', events', session')
  BY <1>2, <1>3, <1>6, <1>7, <1>8, <1>9 DEF AreGuarded
<1>11. QED
  BY <1>10 DEF Guarded, AreGuarded, Ceasing, Carries

\* The runtime, when it is told something.
LEMMA RuntimeGuarded ==
    /\ Guarded /\ TakeEvent => Guarded'
    /\ \A name : Guarded /\ StartByHand(name) => Guarded'
    /\ Guarded /\ (Quit \/ Disabling) => Guarded'
    /\ Guarded /\ PeerAsksForLock => Guarded'
<1>1. ASSUME Guarded, TakeEvent PROVE Guarded'
  <2> DEFINE f == LocalEvent(daemon, Head(events))
  <2>1. SoundRuntime(daemon) /\ events \in Seq(Reports)
    BY <1>1 DEF Guarded, AreGuarded
  <2>2. events # <<>> /\ Turn(f) /\ events' = Tail(events)
    BY <1>1 DEF TakeEvent
  <2>3. Head(events) \in Reports /\ events' \in Seq(Reports)
    BY <2>1, <2>2
  <2>4. ReadyToSend(f)
    BY <2>1, <2>3, EventTells
  <2>5. Head(events).kind = "Shutdown" => ~f.running
    <3>1. DOMAIN ClearNotice(daemon) = DaemonFields
      BY <2>1 DEF ClearNotice, SoundRuntime, Coherent, Agreed
    <3>2. Head(events).kind = "Shutdown" => f = [ClearNotice(daemon) EXCEPT !.running = FALSE]
      BY DEF LocalEvent
    <3> HIDE DEF f
    <3>3. QED
      BY <3>1, <3>2 DEF DaemonFields
  <2>6. Carries(events, "Shutdown") => Ceasing(f, events')
    <3> HIDE DEF f
    <3>1. QED
      BY <2>1, <2>2, <2>5, CarriedAfterTake DEF Ceasing
  <2> HIDE DEF f
  <2>7. QED
    BY <1>1, <2>2, <2>3, <2>4, <2>6, TurnGuarded
<1>2. ASSUME NEW e, Guarded, FromTray(e),
             \/ e \in Reports
             \/ \E name : e = [kind |-> "StartManualBreak", name |-> name]
             \/ e \in [kind : {"DisableUntilRestart", "Enable"}]
      PROVE  Guarded'
  <2> DEFINE f == LocalEvent(daemon, e)
  <2>1. SoundRuntime(daemon) /\ events \in Seq(Reports)
    BY <1>2 DEF Guarded, AreGuarded
  <2>2. Turn(f) /\ events' = events
    BY <1>2 DEF FromTray
  <2>3. ReadyToSend(f)
    BY <1>2, <2>1, EventTells
  <2> HIDE DEF f
  <2>4. QED
    BY <1>2, <2>1, <2>2, <2>3, TurnGuarded DEF Ceasing
<1>3. \A name : Guarded /\ StartByHand(name) => Guarded'
  BY <1>2 DEF StartByHand
<1>4. Guarded /\ Quit => Guarded'
  <2>1. [kind |-> "Shutdown"] \in Reports
    BY DEF Reports
  <2>2. QED
    BY <1>2, <2>1 DEF Quit
<1>5. Guarded /\ Disabling => Guarded'
  <2>1. [kind |-> "DisableUntilRestart"] \in [kind : {"DisableUntilRestart", "Enable"}]
    OBVIOUS
  <2>2. [kind |-> "Enable"] \in [kind : {"DisableUntilRestart", "Enable"}]
    OBVIOUS
  <2>3. QED
    BY <1>2, <2>1, <2>2 DEF Disabling, DisableForGood, EnableByHand
<1>6. ASSUME Guarded, PeerAsksForLock PROVE Guarded'
  <2> DEFINE f == SyncEvent(daemon, 2, [kind |-> "LockAfterCurrentBreak"])
  <2>1. SoundRuntime(daemon) /\ events \in Seq(Reports)
    BY <1>6 DEF Guarded, AreGuarded
  <2>2. Turn(f) /\ events' = events
    BY <1>6 DEF PeerAsksForLock
  <2>3. ReadyToSend(f)
    BY <2>1, PeerTells
  <2> HIDE DEF f
  <2>4. QED
    BY <1>6, <2>1, <2>2, <2>3, TurnGuarded DEF Ceasing
<1>7. QED
  BY <1>1, <1>3, <1>4, <1>5, <1>6

\* A step that leaves the runtime alone.
LEMMA OthersGuarded ==
    ASSUME NEW g, Guarded, daemon' = daemon, m' = g, SoundBackend(g),
           Held(g) \/ Ceasing(daemon, events'),
           commands' \in Seq(AllCommands), events' \in Seq(Reports),
           session' \in {"locked", "unlocked"}
    PROVE  Guarded'
<1>1. PICK d : d = daemon
  OBVIOUS
<1>2. SoundRuntime(d)
  BY <1>1 DEF Guarded, AreGuarded
<1>3. AreGuarded(d, g, commands', events', session')
  BY <1>1, <1>2 DEF AreGuarded
<1>4. AreGuarded(daemon', m', commands', events', session')
  BY <1>1, <1>3
<1>5. QED
  BY <1>4 DEF Guarded, AreGuarded, Ceasing, Carries

LEMMA TakeCommandGuarded == \A answer \in Answers : Guarded /\ TakeCommand(answer) => Guarded'
<1>1. SUFFICES ASSUME NEW answer \in Answers, Guarded, TakeCommand(answer) PROVE Guarded'
  OBVIOUS
<1> DEFINE g == HandleCommand(m, Present, Head(commands), answer)
           F == CommandEvents(answer)
<1>2. /\ SoundBackend(m) /\ (Held(m) \/ Ceasing(daemon, events)) /\ commands \in Seq(AllCommands) /\ events \in Seq(Reports)
      /\ session \in {"locked", "unlocked"}
  BY <1>1 DEF Guarded, AreGuarded
<1>3. /\ commands # <<>> /\ m' = g /\ daemon' = daemon
      /\ commands' = Tail(commands) /\ events' = events \o F
      /\ session' \in {"locked", session}
  BY <1>1 DEF TakeCommand, Queue, Locking
<1>4. Head(commands) \in AllCommands /\ commands' \in Seq(AllCommands)
  BY <1>2, <1>3
<1>5. SoundBackend(g) /\ (Held(m) /\ answer = "done" => Held(g))
  BY <1>2, <1>4, CommandHolds
<1>6. F \in Seq(Reports) /\ (answer # "done" => Carries(F, "Shutdown"))
  <2>1. Event("Shutdown") \in Reports
    BY DEF Event, Reports
  <2>2. Carries(<<Event("Shutdown")>>, "Shutdown")
    BY <2>1, CarriedAlone DEF Event
  <2>3. QED
    BY <2>1, <2>2 DEF CommandEvents
<1> HIDE DEF g, F
<1>7. events' \in Seq(Reports) /\ session' \in {"locked", "unlocked"}
  BY <1>2, <1>3, <1>6
<1>8. Held(g) \/ Ceasing(daemon, events')
  BY <1>2, <1>3, <1>5, <1>6, CarriedAfterSend DEF Ceasing
<1>9. QED
  BY <1>1, <1>3, <1>4, <1>5, <1>7, <1>8, OthersGuarded

LEMMA SampleActivityGuarded == \A active \in BOOLEAN : Guarded /\ SampleActivity(active) => Guarded'
<1>1. SUFFICES ASSUME NEW active \in BOOLEAN, Guarded, SampleActivity(active) PROVE Guarded'
  OBVIOUS
<1> DEFINE q == Quiet(m)
           g == [q EXCEPT !.clicked = FALSE]
           F == ActivityEvents(1, 0, active)
<1>2. /\ SoundBackend(m) /\ (Held(m) \/ Ceasing(daemon, events)) /\ commands \in Seq(AllCommands) /\ events \in Seq(Reports)
      /\ session \in {"locked", "unlocked"}
  BY <1>1 DEF Guarded, AreGuarded
<1>3. /\ m' = g /\ daemon' = daemon
      /\ commands' = commands /\ events' = events \o F /\ session' = session
  BY <1>1 DEF SampleActivity, Sampling, Queue
<1>4. F \in Seq(Reports)
  BY ActivityEventsType, TimeReportsOnly
<1>5. SoundBackend(q) /\ (Held(m) => Held(q))
  BY <1>2, BackendRecords, LetGo DEF Held
<1> HIDE DEF F, q
<1>6. SoundBackend(g) /\ (Held(m) => Held(g))
  BY <1>5 DEF SoundBackend, BackendFields, Held
<1> HIDE DEF g
<1>7. events' \in Seq(Reports)
  BY <1>2, <1>3, <1>4
<1>8. Held(g) \/ Ceasing(daemon, events')
  BY <1>2, <1>3, <1>4, <1>6, CarriedAfterSend DEF Ceasing
<1>9. QED
  BY <1>1, <1>2, <1>3, <1>6, <1>7, <1>8, OthersGuarded

LEMMA SampleBreakGuarded == Guarded /\ SampleActiveBreak => Guarded'
<1>1. SUFFICES ASSUME Guarded, SampleActiveBreak PROVE Guarded'
  OBVIOUS
<1> DEFINE g == SampleOverlay(m, Present, session)
           F == OverlayEvents(m, Present, session)
<1>2. /\ SoundBackend(m) /\ commands \in Seq(AllCommands) /\ events \in Seq(Reports)
      /\ session \in {"locked", "unlocked"}
  BY <1>1 DEF Guarded, AreGuarded
<1>3. /\ m.active # {} /\ m' = g /\ daemon' = daemon
      /\ commands' = commands /\ events' = events \o F /\ session' \in {"locked", session}
  BY <1>1 DEF SampleActiveBreak, Sampling, Queue, Locking
<1>4. PICK a \in m.active : TRUE
  BY <1>3
<1>5. m.active = {a} /\ a \in ActiveBreaks /\ a.seen <= Present
  BY <1>2, <1>4 DEF SoundBackend, SoundActive
<1>6. SoundBackend(g) /\ Held(g)
  BY <1>2, <1>4, SampleHolds
<1>7. F \in Seq(Reports)
  BY <1>5, OverlayReports
<1> HIDE DEF g, F
<1>8. events' \in Seq(Reports) /\ session' \in {"locked", "unlocked"}
  BY <1>2, <1>3, <1>7
<1>9. QED
  BY <1>1, <1>2, <1>3, <1>6, <1>8, OthersGuarded

LEMMA UserGuarded == Guarded /\ User => Guarded'
<1>1. SUFFICES ASSUME Guarded, User PROVE Guarded'
  OBVIOUS
<1> DEFINE q == Quiet(m)
<1>2. /\ SoundBackend(m) /\ (Held(m) \/ Ceasing(daemon, events)) /\ commands \in Seq(AllCommands) /\ events \in Seq(Reports)
      /\ session \in {"locked", "unlocked"}
  BY <1>1 DEF Guarded, AreGuarded
<1>3. /\ daemon' = daemon /\ commands' = commands /\ events' = events
      /\ m' \in {q, Click(q)} /\ session' \in {session, "locked", "unlocked"}
  BY <1>1 DEF User, ClickLock, LockSession, UnlockSession
<1>4. SoundBackend(q) /\ (Held(m) => Held(q))
  BY <1>2, BackendRecords, LetGo DEF Held
<1> HIDE DEF q
<1>5. SoundBackend(Click(q)) /\ (Held(m) => Held(Click(q)))
  BY <1>4, BackendRecords, LetGo DEF Held
<1>6. PICK g : g = m' /\ SoundBackend(g) /\ (Held(m) => Held(g))
  BY <1>3, <1>4, <1>5
<1>7. Held(g) \/ Ceasing(daemon, events')
  BY <1>2, <1>3, <1>6
<1>8. QED
  BY <1>1, <1>2, <1>3, <1>6, <1>7, OthersGuarded

LEMMA BackendEndsGuarded == Guarded /\ (BackendFails \/ BackendDrops) => Guarded'
<1>1. SUFFICES ASSUME Guarded, BackendFails \/ BackendDrops PROVE Guarded'
  OBVIOUS
<1>2. PICK d, b, C, E, s : d = daemon /\ b = m /\ C = commands /\ E = events /\ s = session
  OBVIOUS
<1> DEFINE h == [d EXCEPT !.up = FALSE]
           q == Quiet(b)
           g == Cleared(q)
<1>3. AreGuarded(d, b, C, E, s)
  BY <1>1, <1>2, GuardedValues
<1>4. /\ daemon' = h /\ m' = g /\ commands' = <<>> /\ session' = s
      /\ events' \in {E, Append(E, Event("Shutdown"))}
  BY <1>1, <1>2 DEF BackendFails, BackendDrops
<1>5. events' \in Seq(Reports)
  <2>1. Event("Shutdown") \in Reports
    BY DEF Event, Reports
  <2>2. QED
    BY <1>3, <1>4, <2>1 DEF AreGuarded
<1>6. SoundBackend(q)
  BY <1>3, BackendRecords DEF AreGuarded
<1> HIDE DEF q
<1>7. SoundBackend(g) /\ Held(g)
  BY <1>6, BackendRecords, LetGo DEF Held
<1>8. DOMAIN d = DaemonFields /\ Coherent(d)
  BY <1>3 DEF AreGuarded, SoundRuntime, Coherent, Agreed
<1>9. Alike(d, h) /\ h.cmds = d.cmds /\ h.current = d.current
  BY <1>8 DEF Alike, DaemonFields
<1> HIDE DEF h, g
<1>10. Coherent(h)
  BY <1>8, <1>9, AlikeCoherent
<1>11. SoundRuntime(h)
  BY <1>3, <1>9, <1>10 DEF AreGuarded, SoundRuntime
<1>12. <<>> \in Seq(AllCommands)
  OBVIOUS
<1>13. AreGuarded(h, g, <<>>, events', s)
  BY <1>3, <1>5, <1>7, <1>11, <1>12 DEF AreGuarded
<1>14. AreGuarded(daemon', m', commands', events', session')
  BY <1>4, <1>13
<1>15. QED
  BY <1>14 DEF Guarded, AreGuarded

LEMMA TickGuarded == Guarded /\ Tick => Guarded'
<1>1. SUFFICES ASSUME Guarded, Tick PROVE Guarded'
  OBVIOUS
<1>2. PICK d, b, C, E, s : d = daemon /\ b = m /\ C = commands /\ E = events /\ s = session
  OBVIOUS
<1> DEFINE h == AgedRuntime(d)
           g == AgedBackend(b)
<1>3. AreGuarded(d, b, C, E, s)
  BY <1>1, <1>2, GuardedValues
<1>4. daemon' = h /\ m' = g /\ session' = s /\ commands' = C /\ events' = E
  BY <1>1, <1>2 DEF Tick, AgedRuntime, AgedBackend, Aged, Nearer
<1>5. /\ SoundRuntime(h) /\ SoundBackend(g) /\ g.tap = b.tap
      /\ g.active = {} <=> b.active = {}
  BY <1>3, AgedSound DEF AreGuarded
<1>6. h.running = d.running
  BY <1>3 DEF AgedRuntime, AreGuarded, SoundRuntime, Coherent, Agreed, DaemonFields
<1> HIDE DEF h, g
<1>7. AreGuarded(h, g, C, E, s)
  BY <1>3, <1>5, <1>6 DEF AreGuarded, Held, Ceasing
<1>8. AreGuarded(daemon', m', commands', events', session')
  BY <1>4, <1>7
<1>9. QED
  BY <1>8 DEF Guarded, AreGuarded

\* The helper blocks keyboard and pointer only while the backend of
\* src/macos_helper.rs has a break that will end, or everything stops: not when
\* either thread ended, not when breaks were disabled, and not between the end of a
\* break and the runtime's own FinishBreak; and after a request that failed only
\* until the error that was queued has ended the runtime.
THEOREM InputComesBack == Spec => []InputBlockedOnlyInBreak
<1>1. Init => Guarded
  <2>1. SUFFICES ASSUME Init PROVE Guarded
    OBVIOUS
  <2>2. Linked /\ m = NoBreak /\ commands = <<>>
    BY <2>1, InitLinked DEF Init
  <2>3. Held(m) /\ commands \in Seq(AllCommands)
    BY <2>2 DEF Held, NoBreak
  <2>4. QED
    BY <2>2, <2>3 DEF Linked, AreLinked, Guarded, AreGuarded
<1>2. Guarded /\ [Next]_vars => Guarded'
  <2>1. Guarded /\ Backend => Guarded'
    BY TakeCommandGuarded, SampleActivityGuarded, SampleBreakGuarded, BackendEndsGuarded DEF Backend
  <2>2. Guarded /\ UNCHANGED vars => Guarded'
    BY DEF Guarded, vars
  <2>3. QED
    BY <2>1, <2>2, RuntimeGuarded, BackendEndsGuarded, UserGuarded, TickGuarded DEF Next, Undisturbed
<1>3. Guarded => InputBlockedOnlyInBreak
  BY DEF Guarded, AreGuarded, Held, Ceasing, Carries, Stopping, InputBlockedOnlyInBreak
<1>4. QED
  BY <1>1, <1>2, <1>3, PTL DEF Spec
=============================================================================
