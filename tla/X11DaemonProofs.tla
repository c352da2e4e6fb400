-------------------------- MODULE X11DaemonProofs ---------------------------
(***************************************************************************)
(* The two threads of the daemon on Linux agree about the break, for every *)
(* schedule, retry limit and length of the channels, and for every event a *)
(* peer may send: what each takes the other to be doing follows from its   *)
(* own state and from what is still in the two channels.  The invariant    *)
(* says what, for every content of both.                                   *)
(***************************************************************************)
EXTENDS X11Daemon, OperatorProofs, FiniteSetTheorems

-----------------------------------------------------------------------------
(* What the threads may hold                                               *)

BackendFields == {"active", "pending", "bells", "locks"}

Overlays == [ends : Int, seen : Int, reported : BOOLEAN, lock : BOOLEAN]
Waits == [waited : Nat, left : Nat, lock : BOOLEAN]

\* One overlay, or one break that waits, and no end reported before its time.
SoundBackend(b) ==
    /\ DOMAIN b = BackendFields
    /\ b.active \subseteq Overlays /\ b.pending \subseteq Waits
    /\ \A a, o \in b.active : a = o
    /\ \A p, o \in b.pending : p = o
    /\ b.active = {} \/ b.pending = {}
    /\ \A a \in b.active : a.seen <= Present /\ (a.reported => a.ends <= Present)

-----------------------------------------------------------------------------
(* What is on its way to the backend                                       *)

Commands ==
    BreakCommands
        \cup [kind : {"ReplaceActiveBreak"}, lock : BOOLEAN, remaining : Nat]
        \cup [kind : {"ClearBreak"}]

Shows == {"StartBreak", "ReplaceActiveBreak"}
TakesDown == {"FinishBreak", "ClearBreak"}
Keeps == {"ReplaceActiveBreak", "RequestLock"}

\* The command that decides what the backend will show: behind it only locks are
\* asked for.
OnlyLocks(C) == \A i \in DOMAIN C : C[i].kind = "RequestLock"
Latest(C, k) ==
    /\ k \in DOMAIN C /\ C[k].kind # "RequestLock"
    /\ \A j \in DOMAIN C : j > k => C[j].kind = "RequestLock"

Bare(b) == b.active = {} /\ b.pending = {}

\* With all of C handled, none of it failing, the backend b has a break or has none.
KeptFrom(C, n) == \A j \in DOMAIN C : j > n => C[j].kind \in Keeps
Held(b, C) ==
    \/ ~Bare(b) /\ KeptFrom(C, 0)
    \/ \E h \in DOMAIN C : C[h].kind = "StartBreak" /\ KeptFrom(C, h)
Emptied(b, C) ==
    \/ Bare(b) /\ OnlyLocks(C)
    \/ \E k \in DOMAIN C : Latest(C, k) /\ C[k].kind \in TakesDown

\* Its overlay is over, and has been reported.
IsOver(b) == b.active # {} /\ \A a \in b.active : a.reported

\* A FinishBreak is of the break on display.
EndsTheShown(b, C) ==
    \A i \in DOMAIN C : C[i].kind = "FinishBreak" =>
        IsOver(b) /\ \A j \in DOMAIN C : j < i => C[j].kind = "RequestLock"

-----------------------------------------------------------------------------
(* What the channels make of the two pictures                              *)

\* A lock the runtime has recorded has reached the backend or is on its way, and
\* the other way round.
SameLock(cur, b, C, E) ==
    \A c \in cur, o \in b.active \cup b.pending :
        /\ c.lock => o.lock \/ Carries(C, "RequestLock")
        /\ Carries(C, "RequestLock") => c.lock
        /\ o.lock => c.lock \/ Carries(E, "LockAfterCurrentBreak")

\* The same of the break a command under way will show.
LockOnItsWay(cur, C) ==
    \A c \in cur, k \in DOMAIN C : Latest(C, k) =>
        C[k].kind \in Shows /\ (c.lock <=> C[k].lock \/ LockFollows(C, k))

\* The runtime will hear that it has to stop, or has.
Doomed(d, E) == Carries(E, "Shutdown") \/ ~d.running

\* The end of a break is on its way to the runtime while nothing that starts,
\* replaces or ends one is on its way to the backend; the current break is what
\* the backend will come to hold, unless it could not be started.
Pictures(d, b, C, E) ==
    /\ AtMostOne(E, Endings)
    /\ CarriesAny(E, Endings) => OnlyLocks(C) /\ d.current # {}
    /\ Carries(E, "BreakStartFailed") => Bare(b)
    /\ Carries(E, "BreakFinished") => IsOver(b)
    /\ d.current # {} => Held(b, C) \/ Carries(E, "BreakStartFailed") \/ Doomed(d, E)
    /\ d.current = {} => Emptied(b, C)
    /\ LockOnItsWay(d.current, C)
    /\ OnlyLocks(C) => SameLock(d.current, b, C, E)
    /\ EndsTheShown(b, C)

\* A backend that has ended holds nothing and is sent nothing.
Joint(d, b, C, E) == IF d.up THEN Pictures(d, b, C, E) ELSE C = <<>> /\ Bare(b)

\* The inductive invariant.
Linked ==
    /\ SoundRuntime(daemon) /\ SoundBackend(x)
    /\ commands \in Seq(Commands) /\ events \in Seq(Reports)
    /\ sampled \subseteq Int /\ \A s, t \in sampled : s = t
    /\ Joint(daemon, x, commands, events)

-----------------------------------------------------------------------------
(* The queue of commands, with one more and with one less                  *)

LEMMA PlacesAfterSend ==
    ASSUME NEW S, NEW C \in Seq(S), NEW m \in S
    PROVE  LET D == C \o <<m>>
               n == Len(C) + 1
           IN  /\ D \in Seq(S) /\ n \in DOMAIN D /\ D[n] = m
               /\ \A i \in DOMAIN C : i \in DOMAIN D /\ D[i] = C[i] /\ i < n /\ i \in Int
               /\ \A i \in DOMAIN D : i = n \/ i \in DOMAIN C
OBVIOUS

LEMMA PlacesAfterTake ==
    ASSUME NEW S, NEW C \in Seq(S), C # <<>>
    PROVE  LET D == Tail(C)
           IN  /\ D \in Seq(S) /\ 1 \in DOMAIN C /\ C[1] = Head(C) /\ Head(C) \in S
               /\ \A i \in DOMAIN D : i \in Nat /\ i > 0 /\ i + 1 \in DOMAIN C /\ C[i + 1] = D[i]
               /\ \A i \in DOMAIN C : /\ i \in Int
                                      /\ i = 1 \/ (i > 1 /\ i - 1 \in DOMAIN D /\ D[i - 1] = C[i])
OBVIOUS

\* A lock asked for changes neither which command decides nor what it decides.
LEMMA QueueAfterLock ==
    ASSUME NEW C \in Seq(Commands), NEW m \in Commands, m.kind = "RequestLock", NEW b
    PROVE  LET D == C \o <<m>>
           IN  /\ OnlyLocks(D) <=> OnlyLocks(C)
               /\ \A k \in DOMAIN D : Latest(D, k) =>
                      k \in DOMAIN C /\ Latest(C, k) /\ D[k] = C[k] /\ LockFollows(D, k)
               /\ Held(b, C) => Held(b, D)
               /\ EndsTheShown(b, C) => EndsTheShown(b, D)
<1> DEFINE D == C \o <<m>>
           n == Len(C) + 1
<1>1. /\ n \in DOMAIN D /\ D[n] = m
      /\ \A i \in DOMAIN C : i \in DOMAIN D /\ D[i] = C[i] /\ i < n /\ i \in Int
      /\ \A i \in DOMAIN D : i = n \/ i \in DOMAIN C
  BY PlacesAfterSend
<1> HIDE DEF D, n
<1>2. OnlyLocks(D) <=> OnlyLocks(C)
  BY <1>1 DEF OnlyLocks
<1>3. ASSUME NEW k \in DOMAIN D, Latest(D, k)
      PROVE  k \in DOMAIN C /\ Latest(C, k) /\ D[k] = C[k] /\ LockFollows(D, k)
  <2>1. k \in DOMAIN C /\ D[k] = C[k]
    BY <1>1, <1>3 DEF Latest
  <2>2. n > k
    BY <1>1, <2>1
  <2>3. LockFollows(D, k)
    BY <1>1, <2>2 DEF LockFollows
  <2>4. QED
    BY <1>1, <1>3, <2>1, <2>3 DEF Latest
<1>4. ASSUME Held(b, C) PROVE Held(b, D)
  <2>1. \A h : KeptFrom(C, h) => KeptFrom(D, h)
    BY <1>1 DEF KeptFrom, Keeps
  <2>2. QED
    BY <1>1, <1>4, <2>1 DEF Held
<1>5. ASSUME EndsTheShown(b, C) PROVE EndsTheShown(b, D)
  BY <1>1, <1>5 DEF EndsTheShown
<1>6. QED
  BY <1>2, <1>3, <1>4, <1>5 DEF D

\* Any other command decides.
LEMMA QueueAfterDecision ==
    ASSUME NEW C \in Seq(Commands), NEW m \in Commands, m.kind # "RequestLock", NEW b
    PROVE  LET D == C \o <<m>>
           IN  /\ ~OnlyLocks(D)
               /\ \A k \in DOMAIN D : Latest(D, k) => D[k] = m /\ ~LockFollows(D, k)
               /\ m.kind = "StartBreak" => Held(b, D)
               /\ m.kind = "ReplaceActiveBreak" /\ Held(b, C) => Held(b, D)
               /\ m.kind \in TakesDown => Emptied(b, D)
               /\ EndsTheShown(b, C) /\ m.kind # "FinishBreak" => EndsTheShown(b, D)
               /\ OnlyLocks(C) /\ IsOver(b) => EndsTheShown(b, D)
<1> DEFINE D == C \o <<m>>
           n == Len(C) + 1
<1>1. /\ n \in DOMAIN D /\ D[n] = m /\ n \in Int
      /\ \A i \in DOMAIN C : i \in DOMAIN D /\ D[i] = C[i] /\ i < n /\ i \in Int
      /\ \A i \in DOMAIN D : i = n \/ i \in DOMAIN C
  BY PlacesAfterSend
<1> HIDE DEF D, n
<1>2. ~OnlyLocks(D)
  BY <1>1 DEF OnlyLocks
<1>3. Latest(D, n) /\ \A j \in DOMAIN D : ~(j > n)
  BY <1>1 DEF Latest
<1>4. ASSUME NEW k \in DOMAIN D, Latest(D, k) PROVE D[k] = m /\ ~LockFollows(D, k)
  <2>1. k = n
    BY <1>1, <1>4 DEF Latest
  <2>2. QED
    BY <1>1, <1>3, <2>1 DEF LockFollows
<1>5. ASSUME m.kind = "StartBreak" PROVE Held(b, D)
  BY <1>1, <1>3, <1>5 DEF Held, KeptFrom
<1>6. ASSUME m.kind = "ReplaceActiveBreak", Held(b, C) PROVE Held(b, D)
  <2>1. \A h : KeptFrom(C, h) => KeptFrom(D, h)
    BY <1>1, <1>6 DEF KeptFrom, Keeps
  <2>2. QED
    BY <1>1, <1>6, <2>1 DEF Held
<1>7. ASSUME m.kind \in TakesDown PROVE Emptied(b, D)
  BY <1>1, <1>3, <1>7 DEF Emptied
<1>8. ASSUME EndsTheShown(b, C), m.kind # "FinishBreak" PROVE EndsTheShown(b, D)
  BY <1>1, <1>8 DEF EndsTheShown
<1>9. ASSUME OnlyLocks(C), IsOver(b) PROVE EndsTheShown(b, D)
  BY <1>1, <1>9 DEF EndsTheShown, OnlyLocks
<1>10. QED
  BY <1>2, <1>4, <1>5, <1>6, <1>7, <1>8, <1>9 DEF D

\* With the first command handled, b having become g, the rest decides as before,
\* or nothing is left to decide.
LEMMA QueueAfterTake ==
    ASSUME NEW C \in Seq(Commands), C # <<>>
    PROVE  LET D == Tail(C)
               m == Head(C)
           IN  /\ OnlyLocks(C) <=> m.kind = "RequestLock" /\ OnlyLocks(D)
               /\ \A k \in DOMAIN D : Latest(D, k) =>
                      /\ k + 1 \in DOMAIN C /\ Latest(C, k + 1) /\ C[k + 1] = D[k]
                      /\ LockFollows(C, k + 1) <=> LockFollows(D, k)
               /\ OnlyLocks(D) /\ m.kind # "RequestLock" =>
                      /\ 1 \in DOMAIN C /\ Latest(C, 1) /\ C[1] = m
                      /\ LockFollows(C, 1) <=> Carries(D, "RequestLock")
<1> DEFINE D == Tail(C)
           m == Head(C)
<1>1. /\ 1 \in DOMAIN C /\ C[1] = m
      /\ \A i \in DOMAIN D : i \in Nat /\ i > 0 /\ i + 1 \in DOMAIN C /\ C[i + 1] = D[i]
      /\ \A i \in DOMAIN C : /\ i \in Int
                             /\ i = 1 \/ (i > 1 /\ i - 1 \in DOMAIN D /\ D[i - 1] = C[i])
  BY PlacesAfterTake
<1> HIDE DEF D, m
<1>2. OnlyLocks(C) <=> m.kind = "RequestLock" /\ OnlyLocks(D)
  <2>1. ASSUME OnlyLocks(C) PROVE m.kind = "RequestLock" /\ OnlyLocks(D)
    <3>1. \A i \in DOMAIN D : D[i] = C[i + 1] /\ i + 1 \in DOMAIN C
      BY <1>1
    <3>2. QED
      BY <1>1, <2>1, <3>1 DEF OnlyLocks
  <2>2. ASSUME m.kind = "RequestLock", OnlyLocks(D), NEW i \in DOMAIN C
        PROVE  C[i].kind = "RequestLock"
    <3>1. i = 1 \/ (i - 1 \in DOMAIN D /\ D[i - 1] = C[i])
      BY <1>1
    <3>2. QED
      BY <1>1, <2>2, <3>1 DEF OnlyLocks
  <2>3. QED
    BY <2>1, <2>2 DEF OnlyLocks
<1>3. ASSUME NEW k \in DOMAIN D
      PROVE  LockFollows(C, k + 1) <=> LockFollows(D, k)
  <2>1. ASSUME NEW j \in DOMAIN C, j > k + 1, C[j].kind = "RequestLock" PROVE LockFollows(D, k)
    <3>1. j - 1 \in DOMAIN D /\ D[j - 1] = C[j] /\ j - 1 > k
      BY <1>1, <2>1
    <3>2. QED
      BY <2>1, <3>1 DEF LockFollows
  <2>2. ASSUME NEW j \in DOMAIN D, j > k, D[j].kind = "RequestLock" PROVE LockFollows(C, k + 1)
    <3>1. j + 1 \in DOMAIN C /\ C[j + 1] = D[j] /\ j + 1 > k + 1
      BY <1>1, <2>2
    <3>2. QED
      BY <2>2, <3>1 DEF LockFollows
  <2>3. QED
    BY <2>1, <2>2 DEF LockFollows
<1>4. ASSUME NEW k \in DOMAIN D, Latest(D, k) PROVE Latest(C, k + 1)
  <2>1. k + 1 \in DOMAIN C /\ C[k + 1] = D[k]
    BY <1>1
  <2>2. ASSUME NEW j \in DOMAIN C, j > k + 1 PROVE C[j].kind = "RequestLock"
    <3>1. j - 1 \in DOMAIN D /\ D[j - 1] = C[j] /\ j - 1 > k
      BY <1>1, <2>2
    <3>2. QED
      BY <1>4, <3>1 DEF Latest
  <2>3. QED
    BY <1>4, <2>1, <2>2 DEF Latest
<1>5. ASSUME OnlyLocks(D), m.kind # "RequestLock"
      PROVE  Latest(C, 1) /\ (LockFollows(C, 1) <=> Carries(D, "RequestLock"))
  <2>1. ASSUME NEW j \in DOMAIN C, j > 1 PROVE C[j].kind = "RequestLock"
    <3>1. j - 1 \in DOMAIN D /\ D[j - 1] = C[j]
      BY <1>1, <2>1
    <3>2. QED
      BY <1>5, <3>1 DEF OnlyLocks
  <2>2. Latest(C, 1)
    BY <1>1, <1>5, <2>1 DEF Latest
  <2>3. ASSUME LockFollows(C, 1) PROVE Carries(D, "RequestLock")
    <3>1. PICK j \in DOMAIN C : j > 1 /\ C[j].kind = "RequestLock"
      BY <2>3 DEF LockFollows
    <3>2. j - 1 \in DOMAIN D /\ D[j - 1] = C[j]
      BY <1>1, <3>1
    <3>3. QED
      BY <3>1, <3>2 DEF Carries
  <2>4. ASSUME Carries(D, "RequestLock") PROVE LockFollows(C, 1)
    <3>1. PICK j \in DOMAIN D : D[j].kind = "RequestLock"
      BY <2>4 DEF Carries
    <3>2. j + 1 \in DOMAIN C /\ C[j + 1] = D[j] /\ j + 1 > 1
      BY <1>1
    <3>3. QED
      BY <3>1, <3>2 DEF LockFollows
  <2>5. QED
    BY <2>2, <2>3, <2>4
<1>6. QED
  BY <1>1, <1>2, <1>3, <1>4, <1>5 DEF D, m

\* What the backend comes to hold is what it would have come to hold.
LEMMA BackendAfterTake ==
    ASSUME NEW C \in Seq(Commands), C # <<>>, NEW b, NEW g,
           Head(C).kind \in TakesDown => Bare(g),
           Head(C).kind \in Keeps => (Bare(g) <=> Bare(b)),
           Head(C).kind = "RequestLock" => (IsOver(b) => IsOver(g))
    PROVE  LET D == Tail(C)
           IN  /\ Held(b, C) /\ (Head(C).kind = "StartBreak" => ~Bare(g)) => Held(g, D)
               /\ Emptied(b, C) => Emptied(g, D)
               /\ EndsTheShown(b, C) => EndsTheShown(g, D)
<1> DEFINE D == Tail(C)
           m == Head(C)
<1>1. /\ 1 \in DOMAIN C /\ C[1] = m
      /\ \A i \in DOMAIN D : i \in Nat /\ i > 0 /\ i + 1 \in DOMAIN C /\ C[i + 1] = D[i]
      /\ \A i \in DOMAIN C : /\ i \in Int
                             /\ i = 1 \/ (i > 1 /\ i - 1 \in DOMAIN D /\ D[i - 1] = C[i])
  BY PlacesAfterTake
<1>2. /\ m.kind \in TakesDown => Bare(g)
      /\ m.kind \in Keeps => (Bare(g) <=> Bare(b))
      /\ m.kind = "RequestLock" => (IsOver(b) => IsOver(g))
  OBVIOUS
<1> HIDE DEF D, m
<1>3. \A h \in Int : KeptFrom(C, h + 1) => KeptFrom(D, h)
  <2> TAKE h \in Int
  <2> SUFFICES ASSUME KeptFrom(C, h + 1), NEW j \in DOMAIN D, j > h PROVE D[j].kind \in Keeps
    BY DEF KeptFrom
  <2>1. j + 1 \in DOMAIN C /\ C[j + 1] = D[j] /\ j + 1 > h + 1
    BY <1>1
  <2>2. QED
    BY <2>1 DEF KeptFrom
<1>4. ASSUME Held(b, C), m.kind = "StartBreak" => ~Bare(g) PROVE Held(g, D)
  <2>1. CASE ~Bare(b) /\ KeptFrom(C, 0)
    <3>1. m.kind \in Keeps
      BY <1>1, <2>1 DEF KeptFrom
    <3>2. KeptFrom(C, 0 + 1)
      BY <1>1, <2>1 DEF KeptFrom
    <3>3. KeptFrom(D, 0)
      BY <1>3, <3>2
    <3>4. QED
      BY <1>2, <2>1, <3>1, <3>3 DEF Held
  <2>2. ASSUME NEW h \in DOMAIN C, C[h].kind = "StartBreak", KeptFrom(C, h) PROVE Held(g, D)
    <3>1. CASE h = 1
      <4>1. KeptFrom(C, 0 + 1)
        BY <2>2, <3>1
      <4>2. KeptFrom(D, 0)
        BY <1>3, <4>1
      <4>3. QED
        BY <1>1, <1>4, <2>2, <3>1, <4>2 DEF Held
    <3>2. CASE h # 1
      <4>1. h - 1 \in DOMAIN D /\ D[h - 1] = C[h] /\ h - 1 \in Int /\ (h - 1) + 1 = h
        BY <1>1, <3>2
      <4>2. KeptFrom(D, h - 1)
        BY <1>3, <2>2, <4>1
      <4>3. QED
        BY <2>2, <4>1, <4>2 DEF Held
    <3>3. QED
      BY <3>1, <3>2
  <2>3. QED
    BY <1>4, <2>1, <2>2 DEF Held
<1>5. ASSUME Emptied(b, C) PROVE Emptied(g, D)
  <2>1. CASE Bare(b) /\ OnlyLocks(C)
    BY <1>1, <1>2, <2>1 DEF Emptied, OnlyLocks, Keeps
  <2>2. ASSUME NEW k \in DOMAIN C, Latest(C, k), C[k].kind \in TakesDown PROVE Emptied(g, D)
    <3>1. CASE k = 1
      <4>1. \A j \in DOMAIN D : D[j].kind = "RequestLock"
        <5> TAKE j \in DOMAIN D
        <5>1. j + 1 \in DOMAIN C /\ C[j + 1] = D[j] /\ j + 1 > 1
          BY <1>1
        <5>2. QED
          BY <2>2, <3>1, <5>1 DEF Latest
      <4>2. QED
        BY <1>1, <1>2, <2>2, <3>1, <4>1 DEF Emptied, OnlyLocks
    <3>2. CASE k # 1
      <4>1. k - 1 \in DOMAIN D /\ D[k - 1] = C[k]
        BY <1>1, <3>2
      <4>2. ASSUME NEW j \in DOMAIN D, j > k - 1 PROVE D[j].kind = "RequestLock"
        <5>1. j + 1 \in DOMAIN C /\ C[j + 1] = D[j] /\ j + 1 > k
          BY <1>1, <4>2
        <5>2. QED
          BY <2>2, <5>1 DEF Latest
      <4>3. QED
        BY <2>2, <4>1, <4>2 DEF Emptied, Latest
    <3>3. QED
      BY <3>1, <3>2
  <2>3. QED
    BY <1>5, <2>1, <2>2 DEF Emptied
<1>6. ASSUME EndsTheShown(b, C) PROVE EndsTheShown(g, D)
  <2>1. SUFFICES ASSUME NEW i \in DOMAIN D, D[i].kind = "FinishBreak"
                 PROVE  IsOver(g) /\ \A j \in DOMAIN D : j < i => D[j].kind = "RequestLock"
    BY DEF EndsTheShown
  <2>2. i + 1 \in DOMAIN C /\ C[i + 1].kind = "FinishBreak" /\ 1 < i + 1
    BY <1>1, <2>1
  <2>3. IsOver(b) /\ \A j \in DOMAIN C : j < i + 1 => C[j].kind = "RequestLock"
    BY <1>6, <2>2 DEF EndsTheShown
  <2>4. m.kind = "RequestLock"
    BY <1>1, <2>2, <2>3
  <2>5. ASSUME NEW j \in DOMAIN D, j < i PROVE D[j].kind = "RequestLock"
    <3>1. j + 1 \in DOMAIN C /\ C[j + 1] = D[j] /\ j + 1 < i + 1
      BY <1>1, <2>5
    <3>2. QED
      BY <2>3, <3>1
  <2>6. QED
    BY <1>2, <2>3, <2>4, <2>5
<1>7. QED
  BY <1>4, <1>5, <1>6 DEF D, m

-----------------------------------------------------------------------------
(* What the runtime does keeps the pictures right.  E is the queue of       *)
(* reports before, G after.                                                *)

LEMMA NewsKept ==
    ASSUME NEW d, NEW f, NEW E, NEW G, SameNews(d, f, E, G)
    PROVE  /\ CarriesAny(G, Endings) <=> CarriesAny(E, Endings)
           /\ \A k \in Endings : Carries(G, k) <=> Carries(E, k)
           /\ AtMostOne(E, Endings) => AtMostOne(G, Endings)
           /\ Doomed(d, E) => Doomed(f, G)
           /\ \A b, C : SameLock(d.current, b, C, E) => SameLock(d.current, b, C, G)
<1>1. \A b, C : SameLock(d.current, b, C, E) => SameLock(d.current, b, C, G)
  BY DEF SameLock, SameNews
<1>2. QED
  BY <1>1 DEF SameNews, CarriesAny, Doomed

LEMMA NothingNew ==
    ASSUME NEW d, NEW f, NEW b, NEW C, NEW E, NEW G, Pictures(d, b, C, E),
           f.current = d.current, SameNews(d, f, E, G)
    PROVE  Pictures(f, b, C, G)
<1>1. /\ CarriesAny(G, Endings) <=> CarriesAny(E, Endings)
      /\ Carries(G, "BreakFinished") <=> Carries(E, "BreakFinished")
      /\ Carries(G, "BreakStartFailed") <=> Carries(E, "BreakStartFailed")
      /\ AtMostOne(E, Endings) => AtMostOne(G, Endings)
      /\ Doomed(d, E) => Doomed(f, G)
      /\ SameLock(d.current, b, C, E) => SameLock(f.current, b, C, G)
  BY NewsKept DEF Endings
<1>2. QED
  BY <1>1 DEF Pictures

\* No end is on its way: neither does one come with another command.
LEMMA NoEndings ==
    ASSUME NEW E, ~CarriesAny(E, Endings)
    PROVE  ~Carries(E, "BreakFinished") /\ ~Carries(E, "BreakStartFailed") /\ AtMostOne(E, Endings)
BY DEF CarriesAny, Carries, Endings, AtMostOne

\* A break the runtime starts.
LEMMA BreakStarts ==
    ASSUME NEW d, NEW f, NEW b, NEW C \in Seq(Commands), NEW E, NEW G,
           Pictures(d, b, C, E), SameNews(d, f, E, G), d.current = {},
           NEW c, f.current = {c}, NEW m \in Commands,
           m.kind = "StartBreak", c.lock = m.lock
    PROVE  Pictures(f, b, C \o <<m>>, G)
<1> DEFINE D == C \o <<m>>
<1>1. ~CarriesAny(E, Endings) /\ EndsTheShown(b, C)
  BY DEF Pictures
<1>2. ~CarriesAny(G, Endings)
  BY <1>1, NewsKept
<1>3. ~Carries(G, "BreakFinished") /\ ~Carries(G, "BreakStartFailed") /\ AtMostOne(G, Endings)
  BY <1>2, NoEndings
<1>4. /\ ~OnlyLocks(D) /\ Held(b, D) /\ EndsTheShown(b, D)
      /\ \A k \in DOMAIN D : Latest(D, k) => D[k] = m /\ ~LockFollows(D, k)
  BY <1>1, QueueAfterDecision
<1> HIDE DEF D
<1>5. LockOnItsWay(f.current, D)
  BY <1>4 DEF LockOnItsWay, Shows
<1>6. Pictures(f, b, D, G)
  BY <1>2, <1>3, <1>4, <1>5 DEF Pictures
<1>7. QED
  BY <1>6 DEF D

\* A break a peer's takes the place of.
LEMMA BreakReplaced ==
    ASSUME NEW d, NEW f, NEW b, NEW C \in Seq(Commands), NEW E,
           Pictures(d, b, C, E), ~CarriesAny(E, Endings), d.current # {},
           f.running = d.running,
           NEW c, f.current = {c}, NEW m \in Commands,
           m.kind = "ReplaceActiveBreak", c.lock = m.lock
    PROVE  Pictures(f, b, C \o <<m>>, E)
<1> DEFINE D == C \o <<m>>
<1>1. ~Carries(E, "BreakFinished") /\ ~Carries(E, "BreakStartFailed") /\ AtMostOne(E, Endings)
  BY NoEndings
<1>2. EndsTheShown(b, C) /\ (Held(b, C) \/ Doomed(d, E))
  BY <1>1 DEF Pictures
<1>3. /\ ~OnlyLocks(D) /\ (Held(b, C) => Held(b, D)) /\ EndsTheShown(b, D)
      /\ \A k \in DOMAIN D : Latest(D, k) => D[k] = m /\ ~LockFollows(D, k)
  BY <1>2, QueueAfterDecision
<1> HIDE DEF D
<1>4. LockOnItsWay(f.current, D)
  BY <1>3 DEF LockOnItsWay, Shows
<1>5. Held(b, D) \/ Doomed(f, E)
  BY <1>2, <1>3 DEF Doomed
<1>6. Pictures(f, b, D, E)
  BY <1>1, <1>3, <1>4, <1>5 DEF Pictures
<1>7. QED
  BY <1>6 DEF D

\* A break that is taken away: breaks are disabled, or a peer's that takes its place
\* is already over.
LEMMA BreakCleared ==
    ASSUME NEW d, NEW f, NEW b, NEW C \in Seq(Commands), NEW E,
           Pictures(d, b, C, E), ~CarriesAny(E, Endings),
           f.current = {}, NEW m \in Commands, m.kind = "ClearBreak"
    PROVE  Pictures(f, b, C \o <<m>>, E)
<1> DEFINE D == C \o <<m>>
<1>1. ~Carries(E, "BreakFinished") /\ ~Carries(E, "BreakStartFailed") /\ AtMostOne(E, Endings)
  BY NoEndings
<1>2. EndsTheShown(b, C) /\ m.kind \in TakesDown
  BY DEF Pictures, TakesDown
<1>3. ~OnlyLocks(D) /\ Emptied(b, D) /\ EndsTheShown(b, D)
  BY <1>2, QueueAfterDecision
<1> HIDE DEF D
<1>4. Pictures(f, b, D, E)
  BY <1>1, <1>3 DEF Pictures, LockOnItsWay
<1>5. QED
  BY <1>4 DEF D

\* The report of a break that could not be started.
LEMMA BreakGivenUp ==
    ASSUME NEW d, NEW f, NEW b, NEW C, NEW E \in Seq(Reports), Pictures(d, b, C, E),
           E # <<>>, Head(E).kind = "BreakStartFailed", f.current = {}
    PROVE  Pictures(f, b, C, Tail(E))
<1>1. Head(E).kind \in Endings
  BY DEF Endings
<1>2. ~CarriesAny(Tail(E), Endings) /\ CarriesAny(E, Endings) /\ Carries(E, "BreakStartFailed")
  BY <1>1, CarriedAfterTake DEF Pictures
<1>3. /\ ~Carries(Tail(E), "BreakFinished") /\ ~Carries(Tail(E), "BreakStartFailed")
      /\ AtMostOne(Tail(E), Endings)
  BY <1>2, NoEndings
<1>4. OnlyLocks(C) /\ Bare(b) /\ EndsTheShown(b, C)
  BY <1>2 DEF Pictures
<1>5. Emptied(b, C)
  BY <1>4 DEF Emptied
<1>6. SameLock(f.current, b, C, Tail(E)) /\ LockOnItsWay(f.current, C)
  BY DEF SameLock, LockOnItsWay
<1>7. QED
  BY <1>2, <1>3, <1>4, <1>5, <1>6 DEF Pictures

\* The report of a break whose time is up: the overlay is still there, and the
\* runtime asks for it to be taken down.
LEMMA BreakEnds ==
    ASSUME NEW d, NEW f, NEW b, NEW C \in Seq(Commands),
           NEW E \in Seq(Reports), Pictures(d, b, C, E),
           E # <<>>, Head(E).kind = "BreakFinished", f.current = {},
           NEW m \in Commands, m.kind = "FinishBreak"
    PROVE  d.current # {} /\ Pictures(f, b, C \o <<m>>, Tail(E))
<1> DEFINE D == C \o <<m>>
<1>1. Head(E).kind \in Endings
  BY DEF Endings
<1>2. ~CarriesAny(Tail(E), Endings) /\ CarriesAny(E, Endings) /\ Carries(E, "BreakFinished")
  BY <1>1, CarriedAfterTake DEF Pictures
<1>3. /\ ~Carries(Tail(E), "BreakFinished") /\ ~Carries(Tail(E), "BreakStartFailed")
      /\ AtMostOne(Tail(E), Endings)
  BY <1>2, NoEndings
<1>4. d.current # {} /\ OnlyLocks(C) /\ IsOver(b)
  BY <1>2 DEF Pictures
<1>5. m.kind \in TakesDown /\ m.kind # "RequestLock"
  BY DEF TakesDown
<1>6. ~OnlyLocks(D) /\ Emptied(b, D) /\ EndsTheShown(b, D)
  BY <1>4, <1>5, QueueAfterDecision
<1> HIDE DEF D
<1>7. Pictures(f, b, D, Tail(E))
  BY <1>2, <1>3, <1>6 DEF Pictures, LockOnItsWay
<1>8. QED
  BY <1>4, <1>7 DEF D

\* A lock asked for, at the overlay or by a peer.
LEMMA LockAskedFor ==
    ASSUME NEW d, NEW f, NEW b, NEW C \in Seq(Commands), NEW E, NEW G,
           Pictures(d, b, C, E), d.current # {}, f.current # {}, f.running = d.running,
           \A c \in f.current : c.lock = TRUE,
           \A k \in Endings \cup {"Shutdown"} : Carries(G, k) <=> Carries(E, k),
           AtMostOne(E, Endings) => AtMostOne(G, Endings),
           NEW m \in Commands, m.kind = "RequestLock"
    PROVE  Pictures(f, b, C \o <<m>>, G)
<1> DEFINE D == C \o <<m>>
<1>1. /\ CarriesAny(G, Endings) <=> CarriesAny(E, Endings)
      /\ Carries(G, "BreakFinished") <=> Carries(E, "BreakFinished")
      /\ Carries(G, "BreakStartFailed") <=> Carries(E, "BreakStartFailed")
      /\ Doomed(d, E) => Doomed(f, G)
  BY DEF CarriesAny, Endings, Doomed
<1>2. /\ OnlyLocks(D) <=> OnlyLocks(C)
      /\ \A k \in DOMAIN D : Latest(D, k) =>
             k \in DOMAIN C /\ Latest(C, k) /\ D[k] = C[k] /\ LockFollows(D, k)
      /\ Held(b, C) => Held(b, D)
      /\ EndsTheShown(b, C) => EndsTheShown(b, D)
  BY QueueAfterLock
<1>3. Carries(D, "RequestLock")
  BY CarriedAfterOne
<1> HIDE DEF D
<1>4. LockOnItsWay(f.current, D)
  <2>1. LockOnItsWay(d.current, C)
    BY DEF Pictures
  <2>2. PICK c \in d.current : TRUE
    OBVIOUS
  <2>3. \A k \in DOMAIN C : Latest(C, k) => C[k].kind \in Shows
    BY <2>1, <2>2 DEF LockOnItsWay
  <2>4. QED
    BY <1>2, <2>3 DEF LockOnItsWay
<1>5. SameLock(f.current, b, D, G)
  BY <1>3 DEF SameLock
<1>6. Held(b, D) \/ Carries(G, "BreakStartFailed") \/ Doomed(f, G)
  BY <1>1, <1>2 DEF Pictures
<1>7. CarriesAny(G, Endings) => OnlyLocks(D)
  BY <1>1, <1>2 DEF Pictures
<1>8. EndsTheShown(b, D) /\ AtMostOne(G, Endings)
  BY <1>2 DEF Pictures
<1>9. (Carries(G, "BreakStartFailed") => Bare(b)) /\ (Carries(G, "BreakFinished") => IsOver(b))
  BY <1>1 DEF Pictures
<1>10. Pictures(f, b, D, G)
  BY <1>4, <1>5, <1>6, <1>7, <1>8, <1>9 DEF Pictures
<1>11. QED
  BY <1>10 DEF D

-----------------------------------------------------------------------------
(* What the backend does with a command                                    *)

\* How g follows b when the command m has been handled, or, if it was to start a
\* break, refused.
Obeys(b, g, m) ==
    /\ m.kind \in TakesDown => Bare(g)
    /\ m.kind \in Keeps => (Bare(g) <=> Bare(b))
    /\ m.kind = "RequestLock" =>
           (IsOver(b) => IsOver(g)) /\ \A o \in g.active \cup g.pending : o.lock = TRUE
    /\ m.kind \in Shows => \A o \in g.active \cup g.pending : o.lock = m.lock

\* The pictures still fit together.
LEMMA PicturesAfterCommand ==
    ASSUME NEW d, NEW b, NEW g, NEW C \in Seq(Commands), NEW E, NEW G,
           Pictures(d, b, C, E), C # <<>>, Obeys(b, g, Head(C)), SameNews(d, d, E, G),
           Head(C).kind = "StartBreak" => ~Bare(g) \/ Doomed(d, G)
    PROVE  Pictures(d, g, Tail(C), G)
<1> DEFINE m == Head(C)
           D == Tail(C)
<1>1. m \in Commands /\ m.kind \in {"RequestLock"} \cup Shows \cup TakesDown
  BY DEF Commands, BreakCommands, Shows, TakesDown
<1>2. /\ OnlyLocks(C) <=> m.kind = "RequestLock" /\ OnlyLocks(D)
      /\ \A k \in DOMAIN D : Latest(D, k) =>
             /\ k + 1 \in DOMAIN C /\ Latest(C, k + 1) /\ C[k + 1] = D[k]
             /\ LockFollows(C, k + 1) <=> LockFollows(D, k)
      /\ OnlyLocks(D) /\ m.kind # "RequestLock" =>
             /\ 1 \in DOMAIN C /\ Latest(C, 1) /\ C[1] = m
             /\ LockFollows(C, 1) <=> Carries(D, "RequestLock")
  BY QueueAfterTake
<1>3. /\ m.kind \in TakesDown => Bare(g)
      /\ m.kind \in Keeps => (Bare(g) <=> Bare(b))
      /\ m.kind = "RequestLock" =>
             (IsOver(b) => IsOver(g)) /\ \A o \in g.active \cup g.pending : o.lock = TRUE
      /\ m.kind \in Shows => \A o \in g.active \cup g.pending : o.lock = m.lock
  BY DEF Obeys
<1>4. /\ Held(b, C) /\ (m.kind = "StartBreak" => ~Bare(g)) => Held(g, D)
      /\ Emptied(b, C) => Emptied(g, D)
      /\ EndsTheShown(b, C) => EndsTheShown(g, D)
  BY <1>3, BackendAfterTake
<1>5. Carries(C, "RequestLock") <=> m.kind = "RequestLock" \/ Carries(D, "RequestLock")
  BY CarriedAfterTake
<1>6. /\ CarriesAny(G, Endings) <=> CarriesAny(E, Endings)
      /\ Carries(G, "BreakFinished") <=> Carries(E, "BreakFinished")
      /\ Carries(G, "BreakStartFailed") <=> Carries(E, "BreakStartFailed")
      /\ AtMostOne(E, Endings) => AtMostOne(G, Endings)
      /\ Doomed(d, E) => Doomed(d, G)
  BY NewsKept DEF Endings
<1>7. m.kind = "StartBreak" => ~Bare(g) \/ Doomed(d, G)
  OBVIOUS
<1> HIDE DEF m, D
<1>8. AtMostOne(G, Endings) /\ EndsTheShown(g, D)
  BY <1>4, <1>6 DEF Pictures
<1>9. CarriesAny(G, Endings) => m.kind = "RequestLock" /\ OnlyLocks(D) /\ d.current # {}
  BY <1>2, <1>6 DEF Pictures
<1>10. /\ Carries(G, "BreakStartFailed") => Bare(g)
       /\ Carries(G, "BreakFinished") => IsOver(g)
  <2>1. Carries(G, "BreakStartFailed") \/ Carries(G, "BreakFinished") => CarriesAny(G, Endings)
    BY DEF CarriesAny, Endings
  <2>2. m.kind = "RequestLock" => (Bare(g) <=> Bare(b)) /\ (IsOver(b) => IsOver(g))
    BY <1>3 DEF Keeps
  <2>3. QED
    BY <1>6, <1>9, <2>1, <2>2 DEF Pictures
<1>11. d.current # {} => Held(g, D) \/ Carries(G, "BreakStartFailed") \/ Doomed(d, G)
  BY <1>4, <1>6, <1>7 DEF Pictures
<1>12. d.current = {} => Emptied(g, D)
  BY <1>4 DEF Pictures
<1>13. LockOnItsWay(d.current, D)
  BY <1>2 DEF Pictures, LockOnItsWay
<1>14. ASSUME OnlyLocks(D) PROVE SameLock(d.current, g, D, G)
  <2>1. SUFFICES ASSUME NEW c \in d.current, NEW o \in g.active \cup g.pending
                 PROVE  /\ c.lock => o.lock \/ Carries(D, "RequestLock")
                        /\ Carries(D, "RequestLock") => c.lock
                        /\ o.lock => c.lock \/ Carries(G, "LockAfterCurrentBreak")
    BY DEF SameLock
  <2>2. ~Bare(g)
    BY DEF Bare
  <2>3. CASE m.kind = "RequestLock"
    <3>1. o.lock = TRUE /\ ~Bare(b)
      BY <1>3, <2>2, <2>3 DEF Keeps
    <3>2. PICK p : p \in b.active \cup b.pending
      BY <3>1 DEF Bare
    <3>3. c.lock
      BY <1>2, <1>5, <1>14, <2>3, <3>2 DEF Pictures, SameLock
    <3>4. QED
      BY <3>1, <3>3
  <2>4. CASE m.kind \in Shows
    <3>1. o.lock = m.lock /\ m.kind # "RequestLock"
      BY <1>3, <2>4 DEF Shows
    <3>2. c.lock <=> m.lock \/ Carries(D, "RequestLock")
      BY <1>2, <1>14, <3>1 DEF Pictures, LockOnItsWay
    <3>3. QED
      BY <3>1, <3>2
  <2>5. CASE m.kind \in TakesDown
    BY <1>3, <2>2, <2>5
  <2>6. QED
    BY <1>1, <2>3, <2>4, <2>5
<1>15. Pictures(d, g, D, G)
  BY <1>8, <1>9, <1>10, <1>11, <1>12, <1>13, <1>14 DEF Pictures
<1>16. QED
  BY <1>15 DEF D

LEMMA BackendRecords ==
    ASSUME NEW b, DOMAIN b = BackendFields
    PROVE  /\ \A n : DOMAIN [b EXCEPT !.locks = n] = BackendFields
           /\ \A n : [b EXCEPT !.locks = n].active = b.active
           /\ \A n : [b EXCEPT !.locks = n].pending = b.pending
           /\ DOMAIN Quiet(b) = BackendFields
           /\ Quiet(b).active = b.active /\ Quiet(b).pending = b.pending
           /\ DOMAIN Cleared(b) = BackendFields /\ Bare(Cleared(b))
BY DEF BackendFields, Quiet, Cleared, Bare

LEMMA SoundOfFields ==
    ASSUME NEW b, SoundBackend(b), NEW g, DOMAIN g = BackendFields,
           \/ g.active = b.active /\ g.pending = b.pending
           \/ Bare(g)
    PROVE  SoundBackend(g)
BY DEF SoundBackend, Bare

LEMMA StartHandled ==
    ASSUME NEW b, SoundBackend(b), NEW m \in Commands, m.kind = "StartBreak", NEW answer
    PROVE  LET g == HandleCommand(b, Present, m, answer)
           IN  /\ SoundBackend(g) /\ ~Bare(g)
               /\ \A a \in g.active : ~a.reported
               /\ \A o \in g.active \cup g.pending : o.lock = m.lock
<1> DEFINE q == Quiet(b)
           k == Cleared(q)
           o == Overlay(Present, m.remaining, m.lock)
           w == [waited |-> 0, left |-> m.remaining, lock |-> m.lock]
           g == HandleCommand(b, Present, m, answer)
<1>1. g = IF answer = "shown" THEN [k EXCEPT !.active = {o}] ELSE [k EXCEPT !.pending = {w}]
  BY DEF HandleCommand, StartOverlay
<1>2. DOMAIN k = BackendFields /\ k.active = {} /\ k.pending = {}
  BY BackendRecords DEF Bare, SoundBackend
<1>3. m.remaining \in Nat /\ m.lock \in BOOLEAN
  BY DEF Commands, BreakCommands
<1>4. /\ o \in Overlays /\ w \in Waits
      /\ o.lock = m.lock /\ w.lock = m.lock /\ o.reported = FALSE /\ o.seen = Present
      /\ Present \in Int
  BY <1>3, HorizonAssumption DEF Overlay, Overlays, Waits, Present
<1> HIDE DEF k, o, w
<1>5. CASE answer = "shown"
  <2>1. DOMAIN g = BackendFields /\ g.active = {o} /\ g.pending = {}
    BY <1>1, <1>2, <1>5 DEF BackendFields
  <2> HIDE DEF g
  <2>2. QED
    BY <1>4, <2>1 DEF SoundBackend, Bare, g
<1>6. CASE answer # "shown"
  <2>1. DOMAIN g = BackendFields /\ g.active = {} /\ g.pending = {w}
    BY <1>1, <1>2, <1>6 DEF BackendFields
  <2> HIDE DEF g
  <2>2. QED
    BY <1>4, <2>1 DEF SoundBackend, Bare, g
<1>7. QED
  BY <1>5, <1>6

LEMMA FinishHandled ==
    ASSUME NEW b, SoundBackend(b), NEW m, m.kind \in TakesDown, NEW answer
    PROVE  LET g == HandleCommand(b, Present, m, answer) IN SoundBackend(g) /\ Bare(g)
<1> DEFINE q == Quiet(b)
           g == HandleCommand(b, Present, m, answer)
<1>1. g = FinishOverlay(q, m) \/ g = Cleared(q)
  BY DEF HandleCommand, TakesDown
<1>2. DOMAIN q = BackendFields
  BY BackendRecords DEF SoundBackend
<1> HIDE DEF q
<1>3. DOMAIN Cleared(q) = BackendFields /\ Bare(Cleared(q))
  BY <1>2, BackendRecords
<1>4. DOMAIN g = BackendFields /\ Bare(g)
  BY <1>1, <1>3 DEF FinishOverlay, Bare, BackendFields
<1> HIDE DEF g
<1>5. SoundBackend(g)
  BY <1>4, SoundOfFields
<1>6. QED
  BY <1>4, <1>5 DEF g

LEMMA LockHandled ==
    ASSUME NEW b, SoundBackend(b), NEW m, m.kind = "RequestLock", NEW answer
    PROVE  LET g == HandleCommand(b, Present, m, answer)
           IN  /\ SoundBackend(g)
               /\ g.active = {} <=> b.active = {}
               /\ g.pending = {} <=> b.pending = {}
               /\ (\E a \in g.active : a.reported) <=> \E a \in b.active : a.reported
               /\ (\A a \in b.active : a.reported) => \A a \in g.active : a.reported
               /\ \A o \in g.active \cup g.pending : o.lock = TRUE
<1> DEFINE q == Quiet(b)
           A == {[a EXCEPT !.lock = TRUE] : a \in b.active}
           P == {[p EXCEPT !.lock = TRUE] : p \in b.pending}
           g == HandleCommand(b, Present, m, answer)
<1>1. g = LockOverlay(q)
  BY DEF HandleCommand
<1>2. DOMAIN q = BackendFields /\ q.active = b.active /\ q.pending = b.pending
  BY BackendRecords DEF SoundBackend
<1>3. LockOverlay(q) = IF q.active # {} THEN [q EXCEPT !.active = A] ELSE [q EXCEPT !.pending = P]
  BY <1>2 DEF LockOverlay
<1> HIDE DEF q
<1>4. /\ A \subseteq Overlays
      /\ \A a \in A : \E c \in b.active : a = [c EXCEPT !.lock = TRUE]
      /\ \A c \in b.active : [c EXCEPT !.lock = TRUE] \in A
      /\ \A c \in b.active : LET a == [c EXCEPT !.lock = TRUE]
                             IN  a.lock = TRUE /\ a.ends = c.ends /\ a.seen = c.seen
                                 /\ a.reported = c.reported
  BY DEF Overlays, SoundBackend
<1>5. /\ P \subseteq Waits
      /\ \A p \in P : \E c \in b.pending : p = [c EXCEPT !.lock = TRUE]
      /\ \A c \in b.pending : [c EXCEPT !.lock = TRUE] \in P
      /\ \A c \in b.pending : [c EXCEPT !.lock = TRUE].lock = TRUE
  BY DEF Waits, SoundBackend
<1> HIDE DEF A, P
<1>6. CASE b.active # {}
  <2>1. DOMAIN g = BackendFields /\ g.active = A /\ g.pending = {} /\ b.pending = {}
    BY <1>1, <1>2, <1>3, <1>6 DEF BackendFields, SoundBackend
  <2> HIDE DEF g
  <2>2. \A a, o \in A : a = o
    BY <1>4 DEF SoundBackend
  <2>3. ASSUME NEW a \in A PROVE a.seen <= Present /\ (a.reported => a.ends <= Present)
    <3>1. PICK c \in b.active : a = [c EXCEPT !.lock = TRUE]
      BY <1>4
    <3>2. a.seen = c.seen /\ a.ends = c.ends /\ a.reported = c.reported
      BY <1>4, <3>1
    <3>3. c.seen <= Present /\ (c.reported => c.ends <= Present)
      BY DEF SoundBackend
    <3>4. QED
      BY <3>2, <3>3
  <2>4. SoundBackend(g)
    BY <1>4, <2>1, <2>2, <2>3 DEF SoundBackend
  <2>5. /\ (\E a \in A : a.reported) <=> \E a \in b.active : a.reported
        /\ (\A a \in b.active : a.reported) => \A a \in A : a.reported
        /\ \A o \in A : o.lock = TRUE
        /\ A # {}
    BY <1>4, <1>6
  <2>6. QED
    BY <1>6, <2>1, <2>4, <2>5 DEF g
<1>7. CASE b.active = {}
  <2>1. DOMAIN g = BackendFields /\ g.active = {} /\ g.pending = P
    BY <1>1, <1>2, <1>3, <1>7 DEF BackendFields, SoundBackend
  <2> HIDE DEF g
  <2>2. \A p, o \in P : p = o
    BY <1>5 DEF SoundBackend
  <2>3. SoundBackend(g)
    BY <1>5, <2>1, <2>2 DEF SoundBackend
  <2>4. /\ \A o \in P : o.lock = TRUE
        /\ P = {} <=> b.pending = {}
    BY <1>5
  <2>5. QED
    BY <1>7, <2>1, <2>3, <2>4 DEF g
<1>8. QED
  BY <1>6, <1>7

LEMMA ReplaceHandled ==
    ASSUME NEW b, SoundBackend(b), NEW m \in Commands, m.kind = "ReplaceActiveBreak", NEW answer
    PROVE  LET g == HandleCommand(b, Present, m, answer)
           IN  /\ SoundBackend(g) /\ (Bare(g) <=> Bare(b))
               /\ \A o \in g.active \cup g.pending : o.lock = m.lock
<1> DEFINE q == Quiet(b)
           o == Overlay(Present, m.remaining, m.lock)
           P == {[p EXCEPT !.left = m.remaining, !.lock = m.lock] : p \in b.pending}
           g == HandleCommand(b, Present, m, answer)
<1>1. g = ReplaceOverlay(q, Present, m)
  BY DEF HandleCommand
<1>2. DOMAIN q = BackendFields /\ q.active = b.active /\ q.pending = b.pending
  BY BackendRecords DEF SoundBackend
<1>3. ReplaceOverlay(q, Present, m) =
          IF q.active # {} THEN [q EXCEPT !.active = {o}] ELSE [q EXCEPT !.pending = P]
  BY <1>2 DEF ReplaceOverlay
<1> HIDE DEF q
<1>4. m.remaining \in Nat /\ m.lock \in BOOLEAN
  BY DEF Commands, BreakCommands
<1>5. /\ o \in Overlays /\ o.lock = m.lock /\ o.reported = FALSE /\ o.seen = Present
      /\ Present \in Int
  BY <1>4, HorizonAssumption DEF Overlay, Overlays, Present
<1>6. /\ P \subseteq Waits
      /\ \A p, w \in P : p = w
      /\ P = {} <=> b.pending = {}
      /\ \A p \in P : p.lock = m.lock
  <2>1. \A p \in b.pending : LET w == [p EXCEPT !.left = m.remaining, !.lock = m.lock]
                              IN  w \in Waits /\ w.lock = m.lock
    BY <1>4 DEF SoundBackend, Waits
  <2>2. \A p, w \in b.pending : p = w
    BY DEF SoundBackend
  <2>3. QED
    BY <2>1, <2>2
<1> HIDE DEF o, P
<1>7. CASE b.active # {}
  <2>1. DOMAIN g = BackendFields /\ g.active = {o} /\ g.pending = {} /\ b.pending = {}
    BY <1>1, <1>2, <1>3, <1>7 DEF BackendFields, SoundBackend
  <2> HIDE DEF g
  <2>2. QED
    BY <1>5, <1>7, <2>1 DEF SoundBackend, Bare, g
<1>8. CASE b.active = {}
  <2>1. DOMAIN g = BackendFields /\ g.active = {} /\ g.pending = P
    BY <1>1, <1>2, <1>3, <1>8 DEF BackendFields, SoundBackend
  <2> HIDE DEF g
  <2>2. QED
    BY <1>6, <1>8, <2>1 DEF SoundBackend, Bare, g
<1>9. QED
  BY <1>7, <1>8

\* handle_command
LEMMA CommandObeyed ==
    ASSUME NEW b, SoundBackend(b), NEW m \in Commands, NEW answer
    PROVE  LET g == HandleCommand(b, Present, m, answer)
           IN  SoundBackend(g) /\ Obeys(b, g, m) /\ (m.kind = "StartBreak" => ~Bare(g))
<1> DEFINE g == HandleCommand(b, Present, m, answer)
<1>1. m.kind \in {"StartBreak", "ReplaceActiveBreak", "RequestLock"} \cup TakesDown
  BY DEF Commands, BreakCommands, TakesDown
<1>2. CASE m.kind = "StartBreak"
  <2>1. SoundBackend(g) /\ ~Bare(g) /\ \A o \in g.active \cup g.pending : o.lock = m.lock
    BY <1>2, StartHandled
  <2> HIDE DEF g
  <2>2. QED
    BY <1>2, <2>1 DEF Obeys, TakesDown, Keeps, g
<1>3. CASE m.kind = "ReplaceActiveBreak"
  <2>1. /\ SoundBackend(g) /\ (Bare(g) <=> Bare(b))
        /\ \A o \in g.active \cup g.pending : o.lock = m.lock
    BY <1>3, ReplaceHandled
  <2> HIDE DEF g
  <2>2. QED
    BY <1>3, <2>1 DEF Obeys, TakesDown, g
<1>4. CASE m.kind = "RequestLock"
  <2>1. /\ SoundBackend(g)
        /\ g.active = {} <=> b.active = {}
        /\ g.pending = {} <=> b.pending = {}
        /\ (\A a \in b.active : a.reported) => \A a \in g.active : a.reported
        /\ \A o \in g.active \cup g.pending : o.lock = TRUE
    BY <1>4, LockHandled
  <2> HIDE DEF g
  <2>2. QED
    BY <1>4, <2>1 DEF Obeys, TakesDown, Shows, Bare, IsOver, g
<1>5. CASE m.kind \in TakesDown
  <2>1. SoundBackend(g) /\ Bare(g)
    BY <1>5, FinishHandled
  <2> HIDE DEF g
  <2>2. QED
    BY <1>5, <2>1 DEF Obeys, TakesDown, Keeps, Shows, g
<1>6. QED
  BY <1>1, <1>2, <1>3, <1>4, <1>5

\* A command the backend has handled.
LEMMA CommandTaken ==
    ASSUME NEW d, NEW b, NEW C \in Seq(Commands), NEW E,
           SoundBackend(b), Pictures(d, b, C, E), C # <<>>, NEW answer
    PROVE  LET g == HandleCommand(b, Present, Head(C), answer)
           IN  SoundBackend(g) /\ Pictures(d, g, Tail(C), E)
<1> DEFINE g == HandleCommand(b, Present, Head(C), answer)
<1>1. Head(C) \in Commands
  OBVIOUS
<1>2. SoundBackend(g) /\ Obeys(b, g, Head(C)) /\ (Head(C).kind = "StartBreak" => ~Bare(g))
  BY <1>1, CommandObeyed
<1>3. SameNews(d, d, E, E)
  BY DEF SameNews
<1> HIDE DEF g
<1>4. Pictures(d, g, Tail(C), E)
  BY <1>2, <1>3, PicturesAfterCommand
<1>5. QED
  BY <1>2, <1>4 DEF g

\* More reports that are not of an end take nothing away.
LEMMA ReportsFollow ==
    ASSUME NEW d, NEW E \in Seq(Reports), NEW F \in Seq(Reports), ~CarriesAny(F, Endings)
    PROVE  /\ SameNews(d, d, E, E \o F)
           /\ \A b, C : Pictures(d, b, C, E) => Pictures(d, b, C, E \o F)
<1>1. \A k : Carries(E \o F, k) <=> Carries(E, k) \/ Carries(F, k)
  BY CarriedAfterSend
<1>2. \A k \in Endings : ~Carries(F, k)
  BY DEF CarriesAny
<1>3. AtMostOne(F, Endings)
  BY DEF AtMostOne, CarriesAny, Carries
<1>4. AtMostOne(E, Endings) => AtMostOne(E \o F, Endings)
  BY <1>3, CarriedAfterSend
<1>5. SameNews(d, d, E, E \o F)
  BY <1>1, <1>2, <1>4 DEF SameNews
<1>6. QED
  BY <1>5, NothingNew

\* A command the backend could not carry out: it asks the runtime to stop, and a
\* break that could not be started is gone.
LEMMA CommandRefused ==
    ASSUME NEW d, NEW b, NEW C \in Seq(Commands), NEW E \in Seq(Reports),
           SoundBackend(b), Pictures(d, b, C, E), C # <<>>
    PROVE  LET g == IF Head(C).kind = "StartBreak" THEN Cleared(Quiet(b))
                    ELSE [HandleCommand(b, Present, Head(C), "refused") EXCEPT !.locks = 0]
               G == E \o <<Event("Shutdown")>>
           IN  SoundBackend(g) /\ G \in Seq(Reports) /\ Pictures(d, g, Tail(C), G)
<1> DEFINE m == Head(C)
           h == HandleCommand(b, Present, m, "refused")
           k == Cleared(Quiet(b))
           g == IF m.kind = "StartBreak" THEN k ELSE [h EXCEPT !.locks = 0]
           e == Event("Shutdown")
           G == E \o <<e>>
<1>1. e \in Reports /\ e.kind = "Shutdown" /\ <<e>> \in Seq(Reports)
  BY DEF Event, Reports
<1> HIDE DEF e
<1>2. G \in Seq(Reports) /\ Carries(G, "Shutdown")
  BY <1>1, CarriedAfterOne
<1>3. ~CarriesAny(<<e>>, Endings)
  BY <1>1, CarriedAlone DEF Endings
<1>4. SameNews(d, d, E, G) /\ Doomed(d, G)
  BY <1>1, <1>2, <1>3, ReportsFollow DEF Doomed
<1>5. m \in Commands
  OBVIOUS
<1>6. SoundBackend(g) /\ Obeys(b, g, m)
  <2>1. CASE m.kind = "StartBreak"
    <3>1. DOMAIN k = BackendFields /\ Bare(k) /\ g = k
      BY <2>1, BackendRecords DEF SoundBackend
    <3> HIDE DEF g, k, m
    <3>2. SoundBackend(g) /\ Bare(g)
      BY <3>1, SoundOfFields
    <3>3. QED
      BY <2>1, <3>2 DEF Obeys, TakesDown, Keeps, Bare
  <2>2. CASE m.kind # "StartBreak"
    <3>1. SoundBackend(h) /\ Obeys(b, h, m)
      BY <1>5, CommandObeyed
    <3>2. g = [h EXCEPT !.locks = 0]
      BY <2>2
    <3> HIDE DEF g, h, m
    <3>3. DOMAIN g = BackendFields /\ g.active = h.active /\ g.pending = h.pending
      BY <3>1, <3>2, BackendRecords DEF SoundBackend
    <3>4. SoundBackend(g)
      BY <3>1, <3>3, SoundOfFields
    <3>5. QED
      BY <3>1, <3>3, <3>4 DEF Obeys, Bare, IsOver
  <2>3. QED
    BY <2>1, <2>2
<1> HIDE DEF g, G
<1>7. Pictures(d, g, Tail(C), G)
  BY <1>4, <1>6, PicturesAfterCommand DEF m
<1>8. QED
  BY <1>2, <1>6, <1>7 DEF g, G, m, h, k, e

-----------------------------------------------------------------------------
(* What the backend samples                                                *)

LEMMA ActivityEventsType ==
    ASSUME NEW S, S \subseteq Int, \A s, t \in S : s = t, NEW active
    PROVE  ActivityEvents(1, UnobservedIdle(S, Present, 1), active) \in Seq(TimeReports)
<1> DEFINE gap == UnobservedIdle(S, Present, 1)
           k == IF active THEN "ActiveTimeElapsed" ELSE "IdleTimeElapsed"
           idle == [kind |-> "IdleTimeElapsed", elapsed |-> gap]
           last == [kind |-> k, elapsed |-> 1]
<1>1. Present \in Int
  BY HorizonAssumption DEF Present
<1>2. gap \in Nat
  <2>1. CASE \E l \in S : Present - l > 1
    <3>1. PICK l \in S : Present - l > 1
      BY <2>1
    <3>2. (CHOOSE s \in S : TRUE) = l
      OBVIOUS
    <3>3. gap = Present - l - 1
      BY <2>1, <3>2 DEF UnobservedIdle
    <3>4. QED
      BY <1>1, <3>1, <3>3
  <2>2. CASE ~\E l \in S : Present - l > 1
    BY <2>2 DEF UnobservedIdle
  <2>3. QED
    BY <2>1, <2>2
<1>3. k \in {"ActiveTimeElapsed", "IdleTimeElapsed"}
  OBVIOUS
<1> HIDE DEF gap, k
<1>4. WallClockElapsed(1) \in TimeReports /\ idle \in TimeReports /\ last \in TimeReports
  BY <1>2, <1>3 DEF WallClockElapsed, TimeReports
<1>5. ActivityEvents(1, gap, active) =
          <<WallClockElapsed(1)>> \o (IF gap > 0 THEN <<idle>> ELSE <<>>) \o <<last>>
  BY DEF ActivityEvents, k
<1> HIDE DEF idle, last
<1>6. QED
  BY <1>4, <1>5 DEF gap

\* The one element of a set as a sequence.
LEMMA SequenceOfOne ==
    ASSUME NEW v
    PROVE  SetToSeq({v}) = <<v>>
<1>1. Cardinality({v}) = 1
  BY FS_Singleton
<1>2. SetToSeq({v}) = CHOOSE f \in [1..1 -> {v}] : IsInjective(f)
  BY <1>1 DEF SetToSeq
<1>3. \A f \in [1..1 -> {v}] : f = <<v>>
  OBVIOUS
<1>4. <<v>> \in [1..1 -> {v}]
  OBVIOUS
<1>5. IsInjective(<<v>>)
  BY DEF IsInjective
<1>6. QED
  BY <1>2, <1>3, <1>4, <1>5

\* What a sample of the overlay a reports.
LEMMA OverlayReports ==
    ASSUME NEW b, NEW a \in Overlays, b.active = {a}, a.seen <= Present, NEW click
    PROVE  LET F == OverlayEvents(b, Present, click)
           IN  /\ F \in Seq(Reports) /\ AtMostOne(F, Endings)
               /\ Carries(F, "LockAfterCurrentBreak") <=> Clicked(a, click)
               /\ Carries(F, "BreakFinished") <=> Due(a, Present)
               /\ ~Carries(F, "BreakStartFailed")
<1> DEFINE w == WallClockElapsed(Present - a.seen)
           l == Event("LockAfterCurrentBreak")
           e == Event("BreakFinished")
           L == IF Clicked(a, click) THEN <<l>> ELSE <<>>
           B == IF Due(a, Present) THEN <<e>> ELSE <<>>
           H == <<w>> \o L
           F == OverlayEvents(b, Present, click)
<1>1. F = H \o B
  <2>1. {WallClockElapsed(Present - o.seen) : o \in b.active} = {w}
    OBVIOUS
  <2>2. Observed(b, Present) = <<w>>
    BY <2>1, SequenceOfOne DEF Observed
  <2>3. \A click2 : (\E o \in b.active : Clicked(o, click2)) <=> Clicked(a, click2)
    OBVIOUS
  <2>4. (\E o \in b.active : Due(o, Present)) <=> Due(a, Present)
    OBVIOUS
  <2> HIDE DEF w, l, e
  <2>5. QED
    BY <2>2, <2>3, <2>4 DEF OverlayEvents, l, e
<1>2. Present - a.seen \in Nat
  BY HorizonAssumption DEF Present, Overlays
<1>3. /\ w \in Reports /\ w.kind = "WallClockElapsed"
      /\ l \in Reports /\ l.kind = "LockAfterCurrentBreak"
      /\ e \in Reports /\ e.kind = "BreakFinished"
  BY <1>2 DEF WallClockElapsed, Event, Reports, TimeReports
<1> HIDE DEF w, l, e, F
<1>4. /\ <<w>> \in Seq(Reports) /\ L \in Seq(Reports) /\ B \in Seq(Reports)
  BY <1>3
<1>5. \A k : Carries(L, k) <=> Clicked(a, click) /\ k = "LockAfterCurrentBreak"
  BY <1>3, NoneCarried, CarriedAlone
<1>6. \A k : Carries(B, k) <=> Due(a, Present) /\ k = "BreakFinished"
  BY <1>3, NoneCarried, CarriedAlone
<1>7. AtMostOne(B, Endings)
  BY NoneCarried, CarriedAlone
<1> HIDE DEF L, B
<1>8. H \in Seq(Reports) /\ \A k : Carries(H, k) <=> Carries(<<w>>, k) \/ Carries(L, k)
  <2>1. H \in Seq(Reports)
    BY <1>4
  <2>2. \A k : Carries(<<w>> \o L, k) <=> Carries(<<w>>, k) \/ Carries(L, k)
    BY <1>4, CarriedAfterSend
  <2>3. QED
    BY <2>1, <2>2
<1>9. \A k : Carries(<<w>>, k) <=> k = "WallClockElapsed"
  BY <1>3, CarriedAlone
<1> HIDE DEF H
<1>10. F \in Seq(Reports) /\ \A k : Carries(F, k) <=> Carries(H, k) \/ Carries(B, k)
  BY <1>1, <1>4, <1>8, CarriedAfterSend
<1>11. ~CarriesAny(H, Endings)
  BY <1>5, <1>8, <1>9 DEF CarriesAny, Endings
<1>12. AtMostOne(H, Endings)
  BY <1>11 DEF AtMostOne, CarriesAny, Carries
<1>13. AtMostOne(F, Endings)
  BY <1>1, <1>4, <1>7, <1>8, <1>11, <1>12, CarriedAfterSend
<1>14. /\ Carries(F, "LockAfterCurrentBreak") <=> Clicked(a, click)
       /\ Carries(F, "BreakFinished") <=> Due(a, Present)
       /\ ~Carries(F, "BreakStartFailed")
  BY <1>5, <1>6, <1>8, <1>9, <1>10
<1>15. QED
  BY <1>10, <1>13, <1>14 DEF F

\* What a sample makes of it: the end is marked as reported, and stays so.
LEMMA OverlayAfterSample ==
    ASSUME NEW b, SoundBackend(b), NEW a \in b.active, NEW click \in BOOLEAN
    PROVE  LET g == SampleOverlay(b, Present, click)
           IN  /\ SoundBackend(g) /\ g.pending = {}
               /\ \E o : /\ g.active = {o}
                         /\ o.reported <=> a.reported \/ Due(a, Present)
                         /\ o.lock <=> a.lock \/ click
<1> DEFINE o == [a EXCEPT !.lock = @ \/ click, !.seen = Present,
                          !.reported = @ \/ Due(a, Present)]
           g == SampleOverlay(b, Present, click)
<1>1. b.active = {a} /\ b.pending = {} /\ a \in Overlays /\ Present \in Int
  BY HorizonAssumption DEF SoundBackend, Present
<1>2. DOMAIN Quiet(b) = BackendFields /\ Quiet(b).active = b.active /\ Quiet(b).pending = b.pending
  BY BackendRecords DEF SoundBackend
<1>3. g = [Quiet(b) EXCEPT !.active = {o}]
  BY <1>1, <1>2 DEF SampleOverlay
<1>4. DOMAIN g = BackendFields /\ g.active = {o} /\ g.pending = {}
  BY <1>1, <1>2, <1>3 DEF BackendFields
<1>5. /\ o.lock = (a.lock \/ click) /\ o.reported = (a.reported \/ Due(a, Present))
      /\ o.seen = Present /\ o.ends = a.ends
  BY <1>1 DEF Overlays
<1>6. Due(a, Present) \in BOOLEAN
  BY DEF Due
<1>7. o \in Overlays
  <2>1. (a.lock \/ click) \in BOOLEAN /\ (a.reported \/ Due(a, Present)) \in BOOLEAN
    OBVIOUS
  <2>2. QED
    BY <1>1, <2>1 DEF Overlays
<1>8. o.reported => o.ends <= Present
  <2>1. a.reported => a.ends <= Present
    BY <1>1 DEF SoundBackend
  <2>2. Due(a, Present) => a.ends <= Present
    BY <1>1 DEF Due, Overlays
  <2>3. o.reported => a.reported \/ Due(a, Present)
    BY <1>5
  <2> HIDE DEF o
  <2>4. QED
    BY <1>5, <2>1, <2>2, <2>3
<1> HIDE DEF g, o
<1>9. o.seen <= Present
  BY <1>1, <1>5
<1>10. SoundBackend(g)
  BY <1>4, <1>7, <1>8, <1>9 DEF SoundBackend
<1>11. (o.reported <=> a.reported \/ Due(a, Present)) /\ (o.lock <=> a.lock \/ click)
  BY <1>5
<1>12. QED
  BY <1>4, <1>10, <1>11 DEF g

\* With no command under way, a break the backend has is the current one.
LEMMA ShownAtRest ==
    ASSUME NEW d, NEW b, NEW E, Pictures(d, b, <<>>, E), ~Bare(b)
    PROVE  /\ d.current # {} /\ AtMostOne(E, Endings) /\ ~Carries(E, "BreakStartFailed")
           /\ SameLock(d.current, b, <<>>, E)
<1>1. DOMAIN <<>> = {}
  OBVIOUS
<1>2. ~Emptied(b, <<>>)
  BY <1>1 DEF Emptied
<1>3. OnlyLocks(<<>>)
  BY <1>1 DEF OnlyLocks
<1>4. QED
  BY <1>2, <1>3 DEF Pictures

\* And the pictures fit together as long as the two locks agree.
LEMMA PicturesAtRest ==
    ASSUME NEW d, NEW g, NEW G, d.current # {}, AtMostOne(G, Endings),
           Carries(G, "BreakStartFailed") <=> Bare(g), Carries(G, "BreakFinished") => IsOver(g),
           SameLock(d.current, g, <<>>, G)
    PROVE  Pictures(d, g, <<>>, G)
<1>1. DOMAIN <<>> = {}
  OBVIOUS
<1>2. OnlyLocks(<<>>) /\ LockOnItsWay(d.current, <<>>) /\ EndsTheShown(g, <<>>)
  BY <1>1 DEF OnlyLocks, LockOnItsWay, EndsTheShown
<1>3. ~Bare(g) => Held(g, <<>>)
  BY <1>1 DEF Held, KeptFrom
<1>4. QED
  BY <1>2, <1>3 DEF Pictures

LEMMA BreakSampled ==
    ASSUME NEW d, NEW b, NEW E \in Seq(Reports),
           SoundBackend(b), Pictures(d, b, <<>>, E), b.active # {}, NEW click \in BOOLEAN
    PROVE  LET g == SampleOverlay(b, Present, click)
               F == OverlayEvents(b, Present, click)
           IN  SoundBackend(g) /\ F \in Seq(Reports) /\ Pictures(d, g, <<>>, E \o F)
<1> DEFINE g == SampleOverlay(b, Present, click)
           F == OverlayEvents(b, Present, click)
           G == E \o F
<1>1. PICK a \in b.active : TRUE
  OBVIOUS
<1>2. b.active = {a} /\ b.pending = {} /\ a \in Overlays /\ a.seen <= Present
  BY <1>1 DEF SoundBackend
<1>3. /\ F \in Seq(Reports) /\ AtMostOne(F, Endings)
      /\ Carries(F, "LockAfterCurrentBreak") <=> Clicked(a, click)
      /\ Carries(F, "BreakFinished") <=> Due(a, Present)
      /\ ~Carries(F, "BreakStartFailed")
  BY <1>2, OverlayReports
<1>4. SoundBackend(g) /\ g.pending = {}
  BY <1>1, OverlayAfterSample
<1>5. PICK o : /\ g.active = {o}
               /\ o.reported <=> a.reported \/ Due(a, Present)
               /\ o.lock <=> a.lock \/ click
  BY <1>1, OverlayAfterSample
<1> HIDE DEF g, F
<1>6. \A k : Carries(G, k) <=> Carries(E, k) \/ Carries(F, k)
  BY <1>3, CarriedAfterSend
<1>7. \A k : ~Carries(<<>>, k)
  BY NoneCarried
<1>8. /\ d.current # {} /\ AtMostOne(E, Endings) /\ ~Carries(E, "BreakStartFailed")
      /\ SameLock(d.current, b, <<>>, E)
  BY <1>1, ShownAtRest DEF Bare
<1>9. Carries(E, "BreakFinished") => a.reported
  BY <1>1 DEF Pictures, IsOver
<1>10. Due(a, Present) => ~CarriesAny(E, Endings)
  BY <1>8, <1>9 DEF Due, CarriesAny, Endings
<1>11. ~Due(a, Present) => ~CarriesAny(F, Endings)
  BY <1>3 DEF CarriesAny, Endings
<1>12. AtMostOne(G, Endings)
  BY <1>3, <1>8, <1>10, <1>11, CarriedAfterSend
<1> HIDE DEF G
<1>13. Carries(G, "BreakFinished") => IsOver(g)
  BY <1>3, <1>5, <1>6, <1>9 DEF IsOver
<1>14. Carries(G, "BreakStartFailed") <=> Bare(g)
  BY <1>3, <1>5, <1>6, <1>8 DEF Bare
<1>15. SameLock(d.current, g, <<>>, G)
  <2>1. SUFFICES ASSUME NEW c \in d.current
                 PROVE  (c.lock => o.lock) /\ (o.lock => c.lock \/ Carries(G, "LockAfterCurrentBreak"))
    BY <1>4, <1>5, <1>7 DEF SameLock
  <2>2. (c.lock => a.lock) /\ (a.lock => c.lock \/ Carries(E, "LockAfterCurrentBreak"))
    BY <1>2, <1>7, <1>8 DEF SameLock
  <2>3. click => a.lock \/ Carries(F, "LockAfterCurrentBreak")
    BY <1>3 DEF Clicked
  <2>4. QED
    BY <1>5, <1>6, <2>2, <2>3
<1>16. Pictures(d, g, <<>>, G)
  BY <1>8, <1>12, <1>13, <1>14, <1>15, PicturesAtRest
<1>17. QED
  BY <1>3, <1>4, <1>16 DEF g, F, G

\* Another try at the grab: the break is shown after all, waits on, or is given up
\* and reported.
LEMMA PendingSampled ==
    ASSUME NEW d, NEW b, NEW E \in Seq(Reports),
           SoundBackend(b), Pictures(d, b, <<>>, E), b.active = {}, b.pending # {}, NEW answer
    PROVE  LET g == SamplePending(b, Present, answer)
               F == PendingEvents(b, 1, answer)
           IN  SoundBackend(g) /\ F \in Seq(Reports) /\ Pictures(d, g, <<>>, E \o F)
<1> DEFINE q == Quiet(b)
           p == CHOOSE p \in b.pending : TRUE
           o == Overlay(Present, p.left, p.lock)
           w == [p EXCEPT !.waited = @ + 1]
           g == SamplePending(b, Present, answer)
           e == Event("BreakStartFailed")
           t == WallClockElapsed(1)
           F == PendingEvents(b, 1, answer)
           G == E \o F
<1>1. b.pending = {p} /\ p \in Waits /\ Present \in Int
  BY HorizonAssumption DEF SoundBackend, Present
<1>2. DOMAIN q = BackendFields /\ q.active = {} /\ q.pending = {p}
  BY <1>1, BackendRecords DEF SoundBackend
<1>3. /\ g = IF answer = "shown" THEN [q EXCEPT !.pending = {}, !.active = {o}]
             ELSE IF GaveUp(b, answer) THEN [q EXCEPT !.pending = {}]
             ELSE [q EXCEPT !.pending = {w}]
  BY DEF SamplePending
<1>4. /\ o \in Overlays /\ o.seen = Present /\ o.reported = FALSE /\ o.lock = p.lock
      /\ w \in Waits /\ w.lock = p.lock
  BY <1>1 DEF Overlay, Overlays, Waits
<1>5. /\ t \in Reports /\ t.kind = "WallClockElapsed"
      /\ e \in Reports /\ e.kind = "BreakStartFailed"
  BY DEF WallClockElapsed, Event, Reports, TimeReports
<1>6. F = <<t>> \o (IF GaveUp(b, answer) THEN <<e>> ELSE <<>>)
  BY DEF PendingEvents
<1>7. F = IF GaveUp(b, answer) THEN <<t>> \o <<e>> ELSE <<t>>
  <2> HIDE DEF t, e, F
  <2>1. <<t>> \o <<>> = <<t>>
    OBVIOUS
  <2>2. QED
    BY <1>6, <2>1
<1> HIDE DEF q, o, w, p, e, t, g, F
<1>8. /\ F \in Seq(Reports)
      /\ \A k : Carries(F, k) <=> k = "WallClockElapsed" \/ (GaveUp(b, answer) /\ k = "BreakStartFailed")
  <2>1. <<t>> \in Seq(Reports) /\ <<e>> \in Seq(Reports) /\ <<t>> \o <<e>> \in Seq(Reports)
    BY <1>5
  <2>2. \A k : Carries(<<t>> \o <<e>>, k) <=> Carries(<<t>>, k) \/ e.kind = k
    BY <1>5, <2>1, CarriedAfterOne
  <2>3. \A k : Carries(<<t>>, k) <=> t.kind = k
    BY CarriedAlone
  <2>4. QED
    BY <1>5, <1>7, <2>1, <2>2, <2>3
<1>9. \A k : Carries(G, k) <=> Carries(E, k) \/ Carries(F, k)
  BY <1>8, CarriedAfterSend
<1>10. \A k : ~Carries(<<>>, k)
  BY NoneCarried
<1>11. /\ d.current # {} /\ AtMostOne(E, Endings) /\ ~Carries(E, "BreakStartFailed")
       /\ SameLock(d.current, b, <<>>, E)
  BY ShownAtRest DEF Bare
<1>12. ~Carries(E, "BreakFinished") /\ ~CarriesAny(E, Endings)
  <2>1. ~Carries(E, "BreakFinished")
    BY DEF Pictures, IsOver
  <2>2. QED
    BY <1>11, <2>1 DEF CarriesAny, Endings
<1>13. AtMostOne(F, Endings)
  <2>1. AtMostOne(<<t>>, Endings) /\ AtMostOne(<<e>>, Endings) /\ ~CarriesAny(<<t>>, Endings)
    BY <1>5, CarriedAlone DEF Endings
  <2>2. <<t>> \in Seq(Reports) /\ <<e>> \in Seq(Reports)
    BY <1>5
  <2>3. AtMostOne(<<t>> \o <<e>>, Endings)
    BY <2>1, <2>2, CarriedAfterSend
  <2>4. QED
    BY <1>7, <2>1, <2>3
<1>14. AtMostOne(G, Endings)
  BY <1>8, <1>11, <1>12, <1>13, CarriedAfterSend
<1> HIDE DEF G
<1>15. ~Carries(G, "BreakFinished") /\ (Carries(G, "BreakStartFailed") <=> GaveUp(b, answer))
  BY <1>8, <1>9, <1>11, <1>12
<1>16. \A c \in d.current : /\ c.lock => p.lock
                            /\ p.lock => c.lock \/ Carries(G, "LockAfterCurrentBreak")
  BY <1>1, <1>9, <1>10, <1>11 DEF SameLock
<1>17. GaveUp(b, answer) => answer # "shown"
  BY DEF GaveUp
<1>18. /\ SoundBackend(g) /\ (Bare(g) <=> GaveUp(b, answer))
       /\ \A r \in g.active \cup g.pending : r.lock = p.lock
  <2>1. CASE answer = "shown"
    <3>1. DOMAIN g = BackendFields /\ g.active = {o} /\ g.pending = {}
      BY <1>2, <1>3, <2>1 DEF BackendFields
    <3>2. QED
      BY <1>1, <1>4, <1>17, <2>1, <3>1 DEF SoundBackend, Bare
  <2>2. CASE GaveUp(b, answer)
    <3>1. DOMAIN g = BackendFields /\ Bare(g)
      BY <1>2, <1>3, <1>17, <2>2 DEF BackendFields, Bare
    <3>2. SoundBackend(g)
      BY <3>1, SoundOfFields
    <3>3. QED
      BY <2>2, <3>1, <3>2 DEF Bare
  <2>3. CASE answer # "shown" /\ ~GaveUp(b, answer)
    <3>1. DOMAIN g = BackendFields /\ g.active = {} /\ g.pending = {w}
      BY <1>2, <1>3, <2>3 DEF BackendFields
    <3>2. QED
      BY <1>4, <2>3, <3>1 DEF SoundBackend, Bare
  <2>4. QED
    BY <2>1, <2>2, <2>3
<1>19. SameLock(d.current, g, <<>>, G)
  BY <1>10, <1>16, <1>18 DEF SameLock
<1>20. Pictures(d, g, <<>>, G)
  BY <1>11, <1>14, <1>15, <1>18, <1>19, PicturesAtRest
<1>21. QED
  BY <1>8, <1>18, <1>20 DEF g, F, G

-----------------------------------------------------------------------------
(* What the runtime does with an event                                     *)

\* The runtime f that d becomes tells the backend what follows C, and both go on
\* from the reports G.
Handled(d, f, b, C, G) ==
    /\ f.up = d.up /\ LockKnown(f)
    /\ f.cmds \in Seq(Commands)
    /\ Joint(f, b, C \o f.cmds, G)

\* Whoever sends nothing leaves the queue as it is.
LEMMA SentNothing ==
    ASSUME NEW d, NEW f, f.up = d.up, LockKnown(f), f.cmds = <<>>, NEW b,
           NEW C \in Seq(Commands), NEW G, Joint(f, b, C, G)
    PROVE  Handled(d, f, b, C, G)
<1>1. C \o <<>> = C /\ <<>> \in Seq(Commands)
  OBVIOUS
<1>2. QED
  BY <1>1 DEF Handled

\* A command, which a backend that has ended is not sent.
LEMMA SentOne ==
    ASSUME NEW d, NEW cur, NEW m \in Commands, NEW f, Does(d, f, cur, <<m>>), LockKnown(f),
           NEW b, NEW C \in Seq(Commands), NEW E, Joint(d, b, C, E), NEW G,
           d.up => Pictures(f, b, C \o <<m>>, G)
    PROVE  Handled(d, f, b, C, G)
<1>1. /\ f.up = d.up
      /\ IF d.up THEN f.running = d.running /\ f.cmds = <<m>> ELSE f.cmds = <<>>
  BY DEF Does
<1>2. CASE d.up
  <2>1. <<m>> \in Seq(Commands)
    OBVIOUS
  <2>2. QED
    BY <1>1, <1>2, <2>1 DEF Handled, Joint
<1>3. CASE ~d.up
  <2>1. Joint(f, b, C, G)
    BY <1>1, <1>3 DEF Joint
  <2>2. QED
    BY <1>1, <1>3, <2>1, SentNothing
<1>4. QED
  BY <1>2, <1>3

\* A handler that leaves the break alone, or starts one.
LEMMA StaysHandled ==
    ASSUME NEW d, SoundRuntime(d), NEW f, Does(d, f, d.current, <<>>),
           NEW b, NEW C \in Seq(Commands), NEW E, NEW G, Joint(d, b, C, E),
           SameNews(d, d, E, G)
    PROVE  Handled(d, f, b, C, G)
<1>1. /\ f.current = d.current /\ f.up = d.up /\ f.cmds = <<>>
      /\ d.up => f.running = d.running
  BY DEF Does
<1>2. LockKnown(f)
  BY <1>1 DEF LockKnown, SoundRuntime
<1>3. d.up => SameNews(d, f, E, G)
  BY <1>1 DEF SameNews
<1>4. d.up => Pictures(f, b, C, G)
  BY <1>1, <1>3, NothingNew DEF Joint
<1>5. Joint(f, b, C, G)
  BY <1>1, <1>4 DEF Joint
<1>6. QED
  BY <1>1, <1>2, <1>5, SentNothing

LEMMA StartsHandled ==
    ASSUME NEW d, SoundRuntime(d), d.current = {},
           NEW c, NEW n \in Nat, "lock" \in DOMAIN c, c.lock \in BOOLEAN,
           NEW f, Does(d, f, {c}, <<[kind |-> "StartBreak", lock |-> c.lock, remaining |-> n]>>),
           NEW b, NEW C \in Seq(Commands), NEW E, NEW G, Joint(d, b, C, E),
           SameNews(d, d, E, G)
    PROVE  Handled(d, f, b, C, G)
<1> DEFINE m == [kind |-> "StartBreak", lock |-> c.lock, remaining |-> n]
<1>1. m \in Commands /\ m.kind = "StartBreak" /\ c.lock = m.lock
  BY DEF Commands, BreakCommands
<1>2. Does(d, f, {c}, <<m>>)
  OBVIOUS
<1> HIDE DEF m
<1>3. f.current = {c} /\ (d.up => f.running = d.running)
  BY <1>2 DEF Does
<1>4. LockKnown(f)
  BY <1>3 DEF LockKnown
<1>5. ASSUME d.up PROVE Pictures(f, b, C \o <<m>>, G)
  <2>1. SameNews(d, f, E, G)
    BY <1>3, <1>5 DEF SameNews
  <2>2. Pictures(d, b, C, E)
    BY <1>5 DEF Joint
  <2>3. QED
    BY <1>1, <1>3, <2>1, <2>2, BreakStarts
<1>6. QED
  BY <1>1, <1>2, <1>4, <1>5, SentOne

LEMMA MayStartHandled ==
    ASSUME NEW d, SoundRuntime(d), NEW f, MayStart(d, f),
           NEW b, NEW C \in Seq(Commands), NEW E, NEW G, Joint(d, b, C, E),
           SameNews(d, d, E, G)
    PROVE  Handled(d, f, b, C, G)
BY StaysHandled, StartsHandled DEF MayStart

\* A handler that asks for the lock of the current break.
LEMMA AsksHandled ==
    ASSUME NEW d, SoundRuntime(d), \E c \in d.current : ~c.lock,
           NEW f, Does(d, f, {[c EXCEPT !.lock = TRUE] : c \in d.current},
                       <<[kind |-> "RequestLock"]>>),
           NEW b, NEW C \in Seq(Commands), NEW E, NEW G, Joint(d, b, C, E),
           \A k \in Endings \cup {"Shutdown"} : Carries(G, k) <=> Carries(E, k),
           AtMostOne(E, Endings) => AtMostOne(G, Endings)
    PROVE  Handled(d, f, b, C, G)
<1> DEFINE m == [kind |-> "RequestLock"]
           L == {[c EXCEPT !.lock = TRUE] : c \in d.current}
<1>1. /\ L # {} /\ d.current # {}
      /\ \A c \in L : "lock" \in DOMAIN c /\ c.lock = TRUE
  BY DEF SoundRuntime
<1>2. m \in Commands /\ m.kind = "RequestLock"
  BY DEF Commands, BreakCommands
<1>3. Does(d, f, L, <<m>>)
  OBVIOUS
<1> HIDE DEF m, L
<1>4. f.current = L /\ (d.up => f.running = d.running)
  BY <1>3 DEF Does
<1>5. LockKnown(f)
  BY <1>1, <1>4 DEF LockKnown
<1>6. d.up => Pictures(f, b, C \o <<m>>, G)
  BY <1>1, <1>2, <1>4, LockAskedFor DEF Joint
<1>7. QED
  BY <1>2, <1>3, <1>5, <1>6, SentOne

\* A handler that puts a peer's break in the place of the current one.
LEMMA ReplacesHandled ==
    ASSUME NEW d, SoundRuntime(d), d.current # {},
           NEW c, NEW n \in Nat, "lock" \in DOMAIN c, c.lock \in BOOLEAN,
           NEW f, Does(d, f, {c},
                       <<[kind |-> "ReplaceActiveBreak", remaining |-> n, lock |-> c.lock]>>),
           NEW b, NEW C \in Seq(Commands), NEW E, Joint(d, b, C, E),
           d.up => ~CarriesAny(E, Endings)
    PROVE  Handled(d, f, b, C, E)
<1> DEFINE m == [kind |-> "ReplaceActiveBreak", remaining |-> n, lock |-> c.lock]
<1>1. m \in Commands /\ m.kind = "ReplaceActiveBreak" /\ c.lock = m.lock
  BY DEF Commands
<1>2. Does(d, f, {c}, <<m>>)
  OBVIOUS
<1> HIDE DEF m
<1>3. f.current = {c} /\ (d.up => f.running = d.running)
  BY <1>2 DEF Does
<1>4. LockKnown(f)
  BY <1>3 DEF LockKnown
<1>5. d.up => Pictures(f, b, C \o <<m>>, E)
  BY <1>1, <1>3, BreakReplaced DEF Joint
<1>6. QED
  BY <1>1, <1>2, <1>4, <1>5, SentOne

\* A handler that takes the current break away.
LEMMA ClearsHandled ==
    ASSUME NEW d, SoundRuntime(d), NEW f, Does(d, f, {}, <<[kind |-> "ClearBreak"]>>),
           NEW b, NEW C \in Seq(Commands), NEW E, Joint(d, b, C, E),
           d.up => ~CarriesAny(E, Endings)
    PROVE  Handled(d, f, b, C, E)
<1> DEFINE m == [kind |-> "ClearBreak"]
<1>1. m \in Commands /\ m.kind = "ClearBreak"
  BY DEF Commands
<1>2. Does(d, f, {}, <<m>>)
  OBVIOUS
<1> HIDE DEF m
<1>3. f.current = {}
  BY <1>2 DEF Does
<1>4. LockKnown(f)
  BY <1>3 DEF LockKnown
<1>5. d.up => Pictures(f, b, C \o <<m>>, E)
  BY <1>1, <1>3, BreakCleared DEF Joint
<1>6. QED
  BY <1>1, <1>2, <1>4, <1>5, SentOne

\* A handler that stops the runtime.
LEMMA StopsHandled ==
    ASSUME NEW d, SoundRuntime(d), NEW f, Stops(d, f),
           NEW b, NEW C \in Seq(Commands), NEW E, NEW G, Joint(d, b, C, E),
           SameNews(d, f, E, G)
    PROVE  Handled(d, f, b, C, G)
<1>1. f.current = d.current /\ f.up = d.up /\ f.cmds = <<>>
  BY DEF Stops, SoundRuntime
<1>2. LockKnown(f)
  BY <1>1 DEF LockKnown, SoundRuntime
<1>3. Joint(f, b, C, G)
  BY <1>1, NothingNew DEF Joint
<1>4. QED
  BY <1>1, <1>2, <1>3, SentNothing

\* handle_event of a report of the backend.
LEMMA ReportHandled ==
    ASSUME NEW d, SoundRuntime(d), NEW b, NEW C \in Seq(Commands),
           NEW E \in Seq(Reports), E # <<>>, Joint(d, b, C, E)
    PROVE  /\ Coherent(LocalEvent(d, Head(E)))
           /\ Handled(d, LocalEvent(d, Head(E)), b, C, Tail(E))
<1> DEFINE e == Head(E)
           f == LocalEvent(d, e)
           G == Tail(E)
<1>1. Coherent(d) /\ d.cmds = <<>> /\ LockKnown(d) /\ DOMAIN d = DaemonFields
  BY DEF SoundRuntime, LockKnown, Coherent, Agreed
<1>2. e \in Reports
  OBVIOUS
<1>3. CASE e \in TimeReports
  <2>1. MayStart(d, f) /\ Coherent(f)
    BY <1>3, TimeReportHandled
  <2>2. SameNews(d, d, E, G)
    BY <1>3, NewsOfRest DEF TimeReports, Endings
  <2> HIDE DEF f, G
  <2>3. Handled(d, f, b, C, G)
    BY <2>1, <2>2, MayStartHandled
  <2>4. QED
    BY <2>1, <2>3 DEF f, G
<1>4. CASE e = [kind |-> "Shutdown"]
  <2>1. Stops(d, f) /\ Coherent(f)
    BY <1>1, <1>4, LocalEventDoes, LocalEventCoherent
  <2>2. SameNews(d, f, E, G)
    BY <1>4, <2>1, NewsOfRest DEF Stops, Endings
  <2> HIDE DEF f, G
  <2>3. Handled(d, f, b, C, G)
    BY <2>1, <2>2, StopsHandled
  <2>4. QED
    BY <2>1, <2>3 DEF f, G
<1>5. CASE e = [kind |-> "BreakStartFailed"]
  <2>1. Does(d, f, {}, <<>>) /\ Coherent(f)
    BY <1>1, <1>5, LocalEventDoes, LocalEventCoherent
  <2>2. e.kind = "BreakStartFailed"
    BY <1>5
  <2> HIDE DEF f, e
  <2>3. f.current = {} /\ f.up = d.up /\ f.cmds = <<>> /\ LockKnown(f)
    BY <2>1 DEF Does, LockKnown
  <2>4. d.up => Pictures(f, b, C, G)
    BY <2>2, <2>3, BreakGivenUp DEF Joint, e
  <2>5. Joint(f, b, C, G)
    BY <2>3, <2>4 DEF Joint
  <2>6. Handled(d, f, b, C, G)
    BY <2>3, <2>5, SentNothing
  <2>7. QED
    BY <2>1, <2>6 DEF f, e
<1>6. CASE e = [kind |-> "BreakFinished"]
  <2> DEFINE m == [kind |-> "FinishBreak", lock |-> \E c \in d.current : c.lock]
  <2>1. Coherent(f)
    BY <1>1, <1>6, LocalEventCoherent
  <2>2. Does(d, f, {}, IF d.current = {} THEN <<>> ELSE <<m>>)
    BY <1>1, <1>6, LocalEventDoes
  <2>3. e.kind = "BreakFinished"
    BY <1>6
  <2>4. m \in Commands /\ m.kind = "FinishBreak"
    BY DEF Commands, BreakCommands
  <2> HIDE DEF f, e, m
  <2>5. f.current = {} /\ f.up = d.up /\ LockKnown(f)
    BY <2>2 DEF Does, LockKnown
  <2>6. d.up => d.current # {} /\ Pictures(f, b, C \o <<m>>, G)
    BY <2>3, <2>4, <2>5, BreakEnds DEF Joint, e
  <2>7. CASE d.current # {}
    <3>1. Handled(d, f, b, C, G)
      BY <2>2, <2>4, <2>5, <2>6, <2>7, SentOne
    <3>2. QED
      BY <2>1, <3>1 DEF f, e
  <2>8. CASE d.current = {}
    <3>1. ~d.up /\ f.cmds = <<>>
      BY <2>2, <2>6, <2>8 DEF Does
    <3>2. Joint(f, b, C, G)
      BY <2>5, <3>1 DEF Joint
    <3>3. Handled(d, f, b, C, G)
      BY <2>5, <3>1, <3>2, SentNothing
    <3>4. QED
      BY <2>1, <3>3 DEF f, e
  <2>9. QED
    BY <2>7, <2>8
<1>7. CASE e = [kind |-> "LockAfterCurrentBreak"]
  <2>1. Coherent(f)
    BY <1>1, <1>7, LocalEventCoherent
  <2>2. e.kind = "LockAfterCurrentBreak"
    BY <1>7
  <2>3. IF \E c \in d.current : ~c.lock
        THEN Does(d, f, {[c EXCEPT !.lock = TRUE] : c \in d.current}, <<[kind |-> "RequestLock"]>>)
        ELSE f = d
    BY <1>1, <1>7, LocalEventDoes
  <2> HIDE DEF f
  <2>4. CASE \E c \in d.current : ~c.lock
    <3>1. \A k \in Endings \cup {"Shutdown"} : Carries(G, k) <=> Carries(E, k)
      BY <2>2, CarriedAfterTake DEF Endings
    <3>2. AtMostOne(E, Endings) => AtMostOne(G, Endings)
      BY CarriedAfterTake
    <3> HIDE DEF G
    <3>3. Handled(d, f, b, C, G)
      BY <2>3, <2>4, <3>1, <3>2, AsksHandled
    <3>4. QED
      BY <2>1, <3>3 DEF f, G
  <2>5. CASE ~\E c \in d.current : ~c.lock
    <3>1. f = d
      BY <2>3, <2>5
    <3>2. Does(d, f, d.current, <<>>)
      BY <1>1, <3>1 DEF Does
    <3>3. \A c \in d.current : c.lock
      BY <1>1, <2>5 DEF LockKnown
    <3>4. SameNews(d, d, E, G)
      BY <2>2, <3>3, NewsOfRest DEF Endings
    <3> HIDE DEF G
    <3>5. Handled(d, f, b, C, G)
      BY <3>2, <3>4, StaysHandled
    <3>6. QED
      BY <2>1, <3>5 DEF f, G
  <2>6. QED
    BY <2>4, <2>5
<1>8. QED
  BY <1>2, <1>3, <1>4, <1>5, <1>6, <1>7 DEF Reports

\* What a peer or the tray brings about, when it takes no break away the report of
\* whose end is on its way.
LEMMA TellsHandled ==
    ASSUME NEW d, SoundRuntime(d), NEW f, Tells(d, f),
           NEW b, NEW C \in Seq(Commands), NEW E, Joint(d, b, C, E),
           CarriesAny(E, Endings) =>
               ~\E i \in DOMAIN f.cmds : f.cmds[i].kind \in {"ReplaceActiveBreak", "ClearBreak"}
    PROVE  Handled(d, f, b, C, E)
<1>1. SameNews(d, d, E, E)
  BY DEF SameNews
<1>2. ASSUME NEW cur, NEW m, m.kind \in {"ReplaceActiveBreak", "ClearBreak"},
             Does(d, f, cur, <<m>>), d.up
      PROVE  ~CarriesAny(E, Endings)
  <2>1. f.cmds = <<m>>
    BY <1>2 DEF Does
  <2>2. 1 \in DOMAIN f.cmds /\ f.cmds[1] = m
    BY <2>1
  <2>3. QED
    BY <1>2, <2>2
<1>3. CASE Does(d, f, d.current, <<>>)
  BY <1>1, <1>3, StaysHandled
<1>4. CASE StartsOne(d, f)
  BY <1>1, <1>4, StartsHandled DEF StartsOne
<1>5. CASE Swaps(d, f)
  <2>1. PICK c : \E n \in Nat :
            /\ "lock" \in DOMAIN c /\ c.lock \in BOOLEAN
            /\ Does(d, f, {c}, <<[kind |-> "ReplaceActiveBreak", remaining |-> n, lock |-> c.lock]>>)
    BY <1>5 DEF Swaps
  <2>2. d.up => ~CarriesAny(E, Endings)
    BY <1>2, <2>1
  <2>3. QED
    BY <1>5, <2>1, <2>2, ReplacesHandled DEF Swaps
<1>6. CASE TakesAway(d, f)
  <2>1. d.up => ~CarriesAny(E, Endings)
    BY <1>2, <1>6 DEF TakesAway
  <2>2. QED
    BY <1>6, <2>1, ClearsHandled DEF TakesAway
<1>7. CASE Asks(d, f)
  BY <1>7, AsksHandled DEF Asks
<1>8. QED
  BY <1>3, <1>4, <1>5, <1>6, <1>7 DEF Tells

\* handle_event of what the user asks for at the tray.
LEMMA TrayHandled ==
    ASSUME NEW d, SoundRuntime(d), NEW b, NEW C \in Seq(Commands), NEW E, Joint(d, b, C, E)
    PROVE  /\ \A e : (\/ \E name : e = [kind |-> "StartManualBreak", name |-> name]
                      \/ e \in {[kind |-> "Shutdown"], [kind |-> "Enable"]})
                     => Coherent(LocalEvent(d, e)) /\ Handled(d, LocalEvent(d, e), b, C, E)
           /\ LET f == DisableUntilRestart(d, TRUE)
              IN  /\ LocalEvent(d, [kind |-> "DisableUntilRestart"]) = f
                  /\ Coherent(f)
                  /\ (CarriesAny(E, Endings) =>
                          ~\E i \in DOMAIN f.cmds :
                               f.cmds[i].kind \in {"ReplaceActiveBreak", "ClearBreak"})
                     => Handled(d, f, b, C, E)
<1>1. Coherent(d) /\ d.cmds = <<>> /\ DOMAIN d = DaemonFields
  BY DEF SoundRuntime, Coherent, Agreed
<1>2. SameNews(d, d, E, E)
  BY DEF SameNews
<1>3. ASSUME NEW name, NEW e, e = [kind |-> "StartManualBreak", name |-> name]
      PROVE  Coherent(LocalEvent(d, e)) /\ Handled(d, LocalEvent(d, e), b, C, E)
  <2>1. MayStart(d, LocalEvent(d, e)) /\ Coherent(LocalEvent(d, e))
    BY <1>1, <1>3, LocalEventDoes, LocalEventCoherent
  <2>2. QED
    BY <1>2, <2>1, MayStartHandled
<1>4. ASSUME NEW e, e = [kind |-> "Shutdown"]
      PROVE  Coherent(LocalEvent(d, e)) /\ Handled(d, LocalEvent(d, e), b, C, E)
  <2>1. Stops(d, LocalEvent(d, e)) /\ Coherent(LocalEvent(d, e))
    BY <1>1, <1>4, LocalEventDoes, LocalEventCoherent
  <2>2. SameNews(d, LocalEvent(d, e), E, E)
    BY <2>1 DEF SameNews, Stops
  <2>3. QED
    BY <2>1, <2>2, StopsHandled
<1>5. ASSUME NEW e, e = [kind |-> "Enable"]
      PROVE  Coherent(LocalEvent(d, e)) /\ Handled(d, LocalEvent(d, e), b, C, E)
  <2>1. LocalEvent(d, e) = EnableBreaks(d, TRUE)
    BY <1>5 DEF LocalEvent
  <2>2. Does(d, LocalEvent(d, e), d.current, <<>>)
    BY <1>1, <2>1, DisablingDoes
  <2>3. Coherent(LocalEvent(d, e))
    BY <1>1, <1>5, LocalEventCoherent
  <2>4. QED
    BY <1>2, <2>2, <2>3, StaysHandled
<1>6. /\ LocalEvent(d, [kind |-> "DisableUntilRestart"]) = DisableUntilRestart(d, TRUE)
      /\ Coherent(DisableUntilRestart(d, TRUE)) /\ Tells(d, DisableUntilRestart(d, TRUE))
  <2>1. LocalEvent(d, [kind |-> "DisableUntilRestart"]) = DisableUntilRestart(d, TRUE)
    BY DEF LocalEvent
  <2>2. Does(d, DisableUntilRestart(d, TRUE), {},
             IF d.current = {} THEN <<>> ELSE <<[kind |-> "ClearBreak"]>>)
    BY <1>1, DisableDoes
  <2>3. Tells(d, DisableUntilRestart(d, TRUE))
    BY <2>2 DEF Tells, TakesAway
  <2>4. QED
    BY <1>1, <2>1, <2>3, DisableCoherent
<1>7. QED
  BY <1>3, <1>4, <1>5, <1>6, TellsHandled

\* handle_sync_event
LEMMA PeerHandled ==
    ASSUME NEW d, SoundRuntime(d), NEW b, NEW C \in Seq(Commands), NEW E, Joint(d, b, C, E),
           NEW peer, NEW e \in PeerEvents
    PROVE  LET f == SyncEvent(d, peer, e)
           IN  /\ Coherent(f)
               /\ (CarriesAny(E, Endings) =>
                       ~\E i \in DOMAIN f.cmds :
                            f.cmds[i].kind \in {"ReplaceActiveBreak", "ClearBreak"})
                  => Handled(d, f, b, C, E)
<1>1. SoundPeerEvent(e)
  BY PeersAssumption
<1>2. Coherent(d) /\ d.cmds = <<>> /\ \A c \in d.current : c.lock \in BOOLEAN
  BY DEF SoundRuntime
<1>3. Coherent(SyncEvent(d, peer, e)) /\ Tells(d, SyncEvent(d, peer, e))
  BY <1>1, <1>2, SyncEventCoherent, SyncEventTells
<1>4. QED
  BY <1>3, TellsHandled

-----------------------------------------------------------------------------
(* The steps                                                               *)

\* The invariant, for values.
AreLinked(d, b, C, E, S) ==
    /\ SoundRuntime(d) /\ SoundBackend(b)
    /\ C \in Seq(Commands) /\ E \in Seq(Reports)
    /\ S \subseteq Int /\ \A s, t \in S : s = t
    /\ Joint(d, b, C, E)

LEMMA LinkedValues == Linked <=> AreLinked(daemon, x, commands, events, sampled)
BY DEF Linked, AreLinked

\* What a handler sent has been taken out of the record.
LEMMA TurnLinked ==
    ASSUME NEW d, NEW b, NEW C, NEW E, NEW S, AreLinked(d, b, C, E, S),
           NEW f, Coherent(f), NEW G \in Seq(Reports), Handled(d, f, b, C, G),
           daemon' = [f EXCEPT !.cmds = <<>>, !.sent = <<>>],
           commands' = C \o f.cmds, events' = G, x' = b, sampled' = S
    PROVE  Linked'
<1> DEFINE g == [f EXCEPT !.cmds = <<>>, !.sent = <<>>]
<1>1. DOMAIN f = DaemonFields
  BY DEF Coherent, Agreed
<1>2. /\ Alike(f, g) /\ g.cmds = <<>> /\ g.up = f.up /\ g.running = f.running
      /\ g.current = f.current
  BY <1>1 DEF Alike, DaemonFields
<1>3. daemon' = g
  OBVIOUS
<1> HIDE DEF g
<1>4. Coherent(g)
  BY <1>2, AlikeCoherent
<1>5. SoundRuntime(g)
  BY <1>2, <1>4 DEF SoundRuntime, Handled, LockKnown
<1>6. C \o f.cmds \in Seq(Commands)
  BY DEF Handled, AreLinked
<1>7. Joint(g, b, C \o f.cmds, G)
  BY <1>2 DEF Handled, Joint, Pictures, Doomed
<1>8. AreLinked(g, b, C \o f.cmds, G, S)
  BY <1>5, <1>6, <1>7 DEF AreLinked
<1>9. AreLinked(daemon', x', commands', events', sampled')
  BY <1>3, <1>8
<1>10. QED
  BY <1>9 DEF Linked, AreLinked

LEMMA TakeEventLinked == Linked /\ TakeEvent => Linked'
<1>1. SUFFICES ASSUME Linked, TakeEvent PROVE Linked'
  OBVIOUS
<1>2. PICK d, b, C, E, S : d = daemon /\ b = x /\ C = commands /\ E = events /\ S = sampled
  OBVIOUS
<1> DEFINE f == LocalEvent(d, Head(E))
           G == Tail(E)
<1>3. AreLinked(d, b, C, E, S)
  BY <1>1, <1>2, LinkedValues
<1>4. /\ E # <<>>
      /\ daemon' = [f EXCEPT !.cmds = <<>>, !.sent = <<>>]
      /\ commands' = C \o f.cmds /\ events' = G /\ x' = b /\ sampled' = S
  BY <1>1, <1>2 DEF TakeEvent, Turn
<1>5. Coherent(f) /\ Handled(d, f, b, C, G) /\ G \in Seq(Reports)
  BY <1>3, <1>4, ReportHandled DEF AreLinked
<1> HIDE DEF f, G
<1>6. QED
  BY <1>3, <1>4, <1>5, TurnLinked

\* What comes over another channel than the backend's.
LEMMA AsideLinked ==
    ASSUME NEW d, NEW b, NEW C, NEW E, NEW S, AreLinked(d, b, C, E, S),
           daemon = d, x = b, commands = C, events = E, sampled = S,
           NEW f, Coherent(f), Handled(d, f, b, C, E),
           Turn(f), UNCHANGED <<x, events, sampled>>
    PROVE  Linked'
<1>1. E \in Seq(Reports)
  BY DEF AreLinked
<1>2. /\ daemon' = [f EXCEPT !.cmds = <<>>, !.sent = <<>>]
      /\ commands' = C \o f.cmds /\ events' = E /\ x' = b /\ sampled' = S
  BY DEF Turn
<1>3. QED
  BY <1>1, <1>2, TurnLinked

\* Nothing overtakes: in terms of the kinds in the queue.
LEMMA NotOvertaken ==
    ASSUME NEW f, ~Overtakes(f)
    PROVE  CarriesAny(events, Endings) =>
               ~\E i \in DOMAIN f.cmds : f.cmds[i].kind \in {"ReplaceActiveBreak", "ClearBreak"}
<1>1. CarriesAny(events, Endings) =>
          \E i \in DOMAIN events : events[i].kind \in {"BreakFinished", "BreakStartFailed"}
  BY DEF CarriesAny, Carries, Endings
<1>2. QED
  BY <1>1 DEF Overtakes

LEMMA TrayLinked ==
    /\ \A name : Linked /\ StartByHand(name) => Linked'
    /\ Linked /\ EnableByHand => Linked'
    /\ Linked /\ Quit => Linked'
    /\ Linked /\ ~DisableOvertakes /\ DisableForGood => Linked'
<1>1. PICK d, b, C, E, S : d = daemon /\ b = x /\ C = commands /\ E = events /\ S = sampled
  OBVIOUS
<1>2. ASSUME Linked PROVE AreLinked(d, b, C, E, S)
  BY <1>1, <1>2, LinkedValues
<1>3. ASSUME NEW e, Linked, FromTray(e), Coherent(LocalEvent(d, e)),
             Handled(d, LocalEvent(d, e), b, C, E)
      PROVE  Linked'
  <2> DEFINE f == LocalEvent(d, e)
  <2>1. Turn(f) /\ UNCHANGED <<x, events, sampled>>
    BY <1>1, <1>3 DEF FromTray
  <2>2. AreLinked(d, b, C, E, S) /\ Coherent(f) /\ Handled(d, f, b, C, E)
    BY <1>2, <1>3
  <2> HIDE DEF f
  <2>3. QED
    BY <1>1, <2>1, <2>2, AsideLinked
<1>4. ASSUME NEW e, Linked, FromTray(e),
             \/ \E name : e = [kind |-> "StartManualBreak", name |-> name]
             \/ e \in {[kind |-> "Shutdown"], [kind |-> "Enable"]}
      PROVE  Linked'
  <2>1. Coherent(LocalEvent(d, e)) /\ Handled(d, LocalEvent(d, e), b, C, E)
    BY <1>2, <1>4, TrayHandled DEF AreLinked
  <2>2. QED
    BY <1>3, <1>4, <2>1
<1>5. ASSUME Linked, ~DisableOvertakes, DisableForGood PROVE Linked'
  <2> DEFINE e == [kind |-> "DisableUntilRestart"]
             f == DisableUntilRestart(d, TRUE)
  <2>1. ~Overtakes(f) /\ FromTray(e)
    BY <1>1, <1>5 DEF DisableOvertakes, DisableForGood
  <2>2. CarriesAny(E, Endings) =>
            ~\E i \in DOMAIN f.cmds : f.cmds[i].kind \in {"ReplaceActiveBreak", "ClearBreak"}
    BY <1>1, <2>1, NotOvertaken
  <2>3. LocalEvent(d, e) = f /\ Coherent(f) /\ Handled(d, f, b, C, E)
    BY <1>2, <1>5, <2>2, TrayHandled DEF AreLinked
  <2> HIDE DEF e, f
  <2>4. QED
    BY <1>3, <1>5, <2>1, <2>3
<1>6. QED
  BY <1>4, <1>5 DEF StartByHand, EnableByHand, Quit

LEMMA PeerLinked ==
    \A p \in Peers, e \in PeerEvents :
        Linked /\ ~PeerOvertakes(p, e) /\ TakeFromPeer(p, e) => Linked'
<1>1. SUFFICES ASSUME NEW p \in Peers, NEW e \in PeerEvents,
                      Linked, ~PeerOvertakes(p, e), TakeFromPeer(p, e)
               PROVE  Linked'
  OBVIOUS
<1>2. PICK d, b, C, E, S : d = daemon /\ b = x /\ C = commands /\ E = events /\ S = sampled
  OBVIOUS
<1> DEFINE f == SyncEvent(d, p, e)
<1>3. AreLinked(d, b, C, E, S)
  BY <1>1, <1>2, LinkedValues
<1>4. ~Overtakes(f) /\ Turn(f) /\ UNCHANGED <<x, events, sampled>>
  BY <1>1, <1>2 DEF PeerOvertakes, TakeFromPeer
<1>5. CarriesAny(E, Endings) =>
          ~\E i \in DOMAIN f.cmds : f.cmds[i].kind \in {"ReplaceActiveBreak", "ClearBreak"}
  BY <1>2, <1>4, NotOvertaken
<1>6. Coherent(f) /\ Handled(d, f, b, C, E)
  BY <1>3, <1>5, PeerHandled DEF AreLinked
<1> HIDE DEF f
<1>7. QED
  BY <1>2, <1>3, <1>4, <1>6, AsideLinked

LEMMA TakeCommandLinked == \A answer : Linked /\ TakeCommand(answer) => Linked'
<1>1. SUFFICES ASSUME NEW answer, Linked, TakeCommand(answer) PROVE Linked'
  OBVIOUS
<1>2. PICK d, b, C, E, S : d = daemon /\ b = x /\ C = commands /\ E = events /\ S = sampled
  OBVIOUS
<1> DEFINE g == HandleCommand(b, Present, Head(C), answer)
<1>3. AreLinked(d, b, C, E, S)
  BY <1>1, <1>2, LinkedValues
<1>4. /\ d.up /\ C # <<>> /\ x' = g
      /\ daemon' = d /\ commands' = Tail(C) /\ events' = E /\ sampled' = S
  BY <1>1, <1>2 DEF TakeCommand
<1>5. SoundBackend(g) /\ Pictures(d, g, Tail(C), E)
  BY <1>3, <1>4, CommandTaken DEF AreLinked, Joint
<1> HIDE DEF g
<1>6. AreLinked(d, g, Tail(C), E, S)
  BY <1>3, <1>4, <1>5 DEF AreLinked, Joint
<1>7. AreLinked(daemon', x', commands', events', sampled')
  BY <1>4, <1>6
<1>8. QED
  BY <1>7 DEF Linked, AreLinked

LEMMA CommandFailsLinked == Linked /\ CommandFails => Linked'
<1>1. SUFFICES ASSUME Linked, CommandFails PROVE Linked'
  OBVIOUS
<1>2. PICK d, b, C, E, S : d = daemon /\ b = x /\ C = commands /\ E = events /\ S = sampled
  OBVIOUS
<1> DEFINE g == IF Head(C).kind = "StartBreak" THEN Cleared(Quiet(b))
                ELSE [HandleCommand(b, Present, Head(C), "refused") EXCEPT !.locks = 0]
           G == E \o <<Event("Shutdown")>>
<1>3. AreLinked(d, b, C, E, S)
  BY <1>1, <1>2, LinkedValues
<1>4. /\ d.up /\ C # <<>> /\ x' = g
      /\ daemon' = d /\ commands' = Tail(C) /\ events' = G /\ sampled' = S
  BY <1>1, <1>2 DEF CommandFails, Queue
<1>5. SoundBackend(g) /\ G \in Seq(Reports) /\ Pictures(d, g, Tail(C), G)
  BY <1>3, <1>4, CommandRefused DEF AreLinked, Joint
<1> HIDE DEF g, G
<1>6. AreLinked(d, g, Tail(C), G, S)
  BY <1>3, <1>4, <1>5 DEF AreLinked, Joint
<1>7. AreLinked(daemon', x', commands', events', sampled')
  BY <1>4, <1>6
<1>8. QED
  BY <1>7 DEF Linked, AreLinked

\* A backend that shows the same break, however else it has changed.
LEMMA SameShown ==
    ASSUME NEW d, NEW b, NEW g, NEW C, NEW E, Pictures(d, b, C, E),
           g.active = b.active, g.pending = b.pending
    PROVE  Pictures(d, g, C, E)
BY DEF Pictures, SameLock, Bare, IsOver, Held, Emptied, EndsTheShown

LEMMA SampleActivityLinked == \A active \in BOOLEAN : Linked /\ SampleActivity(active) => Linked'
<1>1. SUFFICES ASSUME NEW active \in BOOLEAN, Linked, SampleActivity(active) PROVE Linked'
  OBVIOUS
<1>2. PICK d, b, C, E, S : d = daemon /\ b = x /\ C = commands /\ E = events /\ S = sampled
  OBVIOUS
<1> DEFINE F == ActivityEvents(1, UnobservedIdle(S, Present, 1), active)
           g == Quiet(b)
<1>3. AreLinked(d, b, C, E, S)
  BY <1>1, <1>2, LinkedValues
<1>4. /\ d.up /\ x' = g
      /\ daemon' = d /\ commands' = C /\ events' = E \o F /\ sampled' = {Present}
  BY <1>1, <1>2 DEF SampleActivity, Sampling, Queue
<1>5. F \in Seq(Reports) /\ ~CarriesAny(F, Endings)
  BY <1>3, ActivityEventsType, TimeReportsOnly DEF AreLinked
<1>6. DOMAIN g = BackendFields /\ g.active = b.active /\ g.pending = b.pending
  BY <1>3, BackendRecords DEF AreLinked, SoundBackend
<1> HIDE DEF F, g
<1>7. SoundBackend(g)
  BY <1>3, <1>6, SoundOfFields DEF AreLinked
<1>8. Pictures(d, g, C, E)
  BY <1>3, <1>4, <1>6, SameShown DEF AreLinked, Joint
<1>9. Pictures(d, g, C, E \o F) /\ E \o F \in Seq(Reports)
  BY <1>3, <1>5, <1>8, ReportsFollow DEF AreLinked
<1>10. Present \in Int
  BY HorizonAssumption DEF Present
<1>11. AreLinked(d, g, C, E \o F, {Present})
  BY <1>3, <1>4, <1>7, <1>9, <1>10 DEF AreLinked, Joint
<1>12. AreLinked(daemon', x', commands', events', sampled')
  BY <1>4, <1>11
<1>13. QED
  BY <1>12 DEF Linked, AreLinked

LEMMA SampleBreakLinked ==
    /\ \A click \in BOOLEAN : Linked /\ SampleActiveBreak(click) => Linked'
    /\ \A answer : Linked /\ SamplePendingBreak(answer) => Linked'
<1>1. PICK d, b, C, E, S : d = daemon /\ b = x /\ C = commands /\ E = events /\ S = sampled
  OBVIOUS
<1>2. ASSUME Linked PROVE AreLinked(d, b, C, E, S)
  BY <1>1, <1>2, LinkedValues
<1>3. ASSUME NEW g, NEW F \in Seq(Reports), Linked, d.up, C = <<>>,
             SoundBackend(g), Pictures(d, g, <<>>, E \o F),
             x' = g, daemon' = d, commands' = C, events' = E \o F, sampled' = S
      PROVE  Linked'
  <2>1. E \o F \in Seq(Reports)
    BY <1>2, <1>3 DEF AreLinked
  <2>2. AreLinked(d, g, C, E \o F, S)
    BY <1>2, <1>3, <2>1 DEF AreLinked, Joint
  <2>3. AreLinked(daemon', x', commands', events', sampled')
    BY <1>3, <2>2
  <2>4. QED
    BY <2>3 DEF Linked, AreLinked
<1>4. ASSUME NEW click \in BOOLEAN, Linked, SampleActiveBreak(click) PROVE Linked'
  <2> DEFINE g == SampleOverlay(b, Present, click)
             F == OverlayEvents(b, Present, click)
  <2>1. /\ d.up /\ C = <<>> /\ b.active # {} /\ x' = g
        /\ daemon' = d /\ commands' = C /\ events' = E \o F /\ sampled' = S
    BY <1>1, <1>4 DEF SampleActiveBreak, Sampling, Queue
  <2>2. SoundBackend(b) /\ E \in Seq(Reports) /\ Pictures(d, b, <<>>, E)
    BY <1>2, <1>4, <2>1 DEF AreLinked, Joint
  <2>3. SoundBackend(g) /\ F \in Seq(Reports) /\ Pictures(d, g, <<>>, E \o F)
    BY <2>1, <2>2, BreakSampled
  <2> HIDE DEF g, F
  <2>4. QED
    BY <1>3, <1>4, <2>1, <2>3
<1>5. ASSUME NEW answer, Linked, SamplePendingBreak(answer) PROVE Linked'
  <2> DEFINE g == SamplePending(b, Present, answer)
             F == PendingEvents(b, 1, answer)
  <2>1. /\ d.up /\ C = <<>> /\ b.active = {} /\ b.pending # {} /\ x' = g
        /\ daemon' = d /\ commands' = C /\ events' = E \o F /\ sampled' = S
    BY <1>1, <1>5 DEF SamplePendingBreak, Sampling, Queue
  <2>2. SoundBackend(b) /\ E \in Seq(Reports) /\ Pictures(d, b, <<>>, E)
    BY <1>2, <1>5, <2>1 DEF AreLinked, Joint
  <2>3. SoundBackend(g) /\ F \in Seq(Reports) /\ Pictures(d, g, <<>>, E \o F)
    BY <2>1, <2>2, PendingSampled
  <2> HIDE DEF g, F
  <2>4. QED
    BY <1>3, <1>5, <2>1, <2>3
<1>6. QED
  BY <1>4, <1>5

\* The backend ends, with or without an error.
LEMMA BackendEndsLinked == Linked /\ (BackendFails \/ BackendDrops) => Linked'
<1>1. SUFFICES ASSUME Linked, BackendFails \/ BackendDrops PROVE Linked'
  OBVIOUS
<1>2. PICK d, b, C, E, S : d = daemon /\ b = x /\ C = commands /\ E = events /\ S = sampled
  OBVIOUS
<1> DEFINE h == [d EXCEPT !.up = FALSE]
           g == Cleared(Quiet(b))
<1>3. AreLinked(d, b, C, E, S)
  BY <1>1, <1>2, LinkedValues
<1>4. /\ daemon' = h /\ x' = g /\ commands' = <<>> /\ sampled' = S
      /\ events' \in {E, Append(E, Event("Shutdown"))}
  BY <1>1, <1>2 DEF BackendFails, BackendDrops
<1>5. events' \in Seq(Reports)
  <2>1. Event("Shutdown") \in Reports
    BY DEF Event, Reports
  <2>2. QED
    BY <1>3, <1>4, <2>1 DEF AreLinked
<1>6. DOMAIN g = BackendFields /\ Bare(g)
  BY <1>3, BackendRecords DEF AreLinked, SoundBackend
<1>7. DOMAIN d = DaemonFields /\ Coherent(d)
  BY <1>3 DEF AreLinked, SoundRuntime, Coherent, Agreed
<1>8. Alike(d, h) /\ h.up = FALSE /\ h.cmds = d.cmds /\ h.current = d.current
  BY <1>7 DEF Alike, DaemonFields
<1> HIDE DEF h, g
<1>9. Coherent(h)
  BY <1>7, <1>8, AlikeCoherent
<1>10. SoundRuntime(h)
  BY <1>3, <1>8, <1>9 DEF AreLinked, SoundRuntime
<1>11. SoundBackend(g)
  BY <1>3, <1>6, SoundOfFields DEF AreLinked
<1>12. <<>> \in Seq(Commands)
  OBVIOUS
<1>13. AreLinked(h, g, <<>>, events', S)
  BY <1>3, <1>5, <1>6, <1>8, <1>10, <1>11, <1>12 DEF AreLinked, Joint
<1>14. AreLinked(daemon', x', commands', events', sampled')
  BY <1>4, <1>13
<1>15. QED
  BY <1>14 DEF Linked, AreLinked

LEMMA TickLinked == Linked /\ Tick => Linked'
<1>1. SUFFICES ASSUME Linked, Tick PROVE Linked'
  OBVIOUS
<1>2. PICK d, b, C, E, S : d = daemon /\ b = x /\ C = commands /\ E = events /\ S = sampled
  OBVIOUS
<1> DEFINE Aged(c) == [c EXCEPT !.at = Older(@)]
           Shown(a) == [a EXCEPT !.ends = LaterOf(@ - 1, Present), !.seen = Sighted(@)]
           cur == {Aged(c) : c \in d.current}
           act == {Shown(a) : a \in b.active}
           h == [d EXCEPT !.current = cur]
           g == [Quiet(b) EXCEPT !.active = act]
           T == {Sighted(t) : t \in S}
<1>3. AreLinked(d, b, C, E, S)
  BY <1>1, <1>2, LinkedValues
<1>4. DOMAIN d = DaemonFields /\ Coherent(d)
  BY <1>3 DEF AreLinked, SoundRuntime, Coherent, Agreed
<1>5. /\ DOMAIN Quiet(b) = BackendFields
      /\ Quiet(b).active = b.active /\ Quiet(b).pending = b.pending
  BY <1>3, BackendRecords DEF AreLinked, SoundBackend
<1>6. /\ daemon' = h /\ x' = g /\ sampled' = T /\ commands' = C /\ events' = E
  BY <1>1, <1>2, <1>5 DEF Tick
<1>7. /\ \A c \in cur : \E k \in d.current : c = Aged(k)
      /\ \A k \in d.current : Aged(k) \in cur
      /\ \A k \in d.current : "lock" \in DOMAIN Aged(k) /\ Aged(k).lock = k.lock
  BY <1>3 DEF AreLinked, SoundRuntime
<1>8. /\ \A a \in act : \E k \in b.active : a = Shown(k)
      /\ \A k \in b.active : Shown(k) \in act
      /\ \A k \in b.active : /\ Shown(k).lock = k.lock /\ Shown(k).reported = k.reported
                             /\ Shown(k).ends = LaterOf(k.ends - 1, Present)
                             /\ Shown(k).seen = Sighted(k.seen)
                             /\ Shown(k) \in Overlays
  <2>1. Present \in Int
    BY HorizonAssumption DEF Present
  <2>2. \A k \in b.active : k \in Overlays
    BY <1>3 DEF AreLinked, SoundBackend
  <2>3. \A n \in Int : LaterOf(n - 1, Present) \in Int /\ Sighted(n) \in Int
    BY <2>1 DEF LaterOf, Sighted
  <2>4. QED
    BY <2>2, <2>3 DEF Overlays
<1>9. /\ DOMAIN h = DaemonFields /\ h.current = cur
      /\ h.sched = d.sched /\ h.disable = d.disable /\ h.avail = d.avail /\ h.status = d.status
      /\ h.budget = d.budget /\ h.now = d.now /\ h.cmds = d.cmds
      /\ h.up = d.up /\ h.running = d.running
  BY <1>4 DEF DaemonFields
<1>10. DOMAIN g = BackendFields /\ g.active = act /\ g.pending = b.pending
  BY <1>5 DEF BackendFields
<1> HIDE DEF Aged, Shown, cur, act, h, g
<1>11. Coherent(h)
  <2>1. h.current # {} <=> d.current # {}
    BY <1>7, <1>9
  <2>2. \A c, k \in h.current : c = k
    BY <1>4, <1>7, <1>9 DEF Coherent, Agreed
  <2>3. QED
    BY <1>4, <1>9, <2>1, <2>2 DEF Coherent, Agreed, StatusRight
<1>12. SoundRuntime(h)
  <2>1. \A c \in h.current : "lock" \in DOMAIN c /\ c.lock \in BOOLEAN
    BY <1>3, <1>7, <1>9 DEF AreLinked, SoundRuntime
  <2>2. QED
    BY <1>3, <1>9, <1>11, <2>1 DEF AreLinked, SoundRuntime
<1>13. SoundBackend(g)
  <2>1. ASSUME NEW a \in act PROVE a.seen <= Present /\ (a.reported => a.ends <= Present)
    <3>1. PICK k \in b.active : a = Shown(k)
      BY <1>8
    <3>2. /\ a.reported = k.reported /\ a.ends = LaterOf(k.ends - 1, Present)
          /\ a.seen = Sighted(k.seen)
      BY <1>8, <3>1
    <3>3. k \in Overlays /\ k.seen <= Present /\ (k.reported => k.ends <= Present)
      BY <1>3 DEF AreLinked, SoundBackend
    <3>4. Present \in Int /\ k.seen \in Int /\ k.ends \in Int
      BY <3>3, HorizonAssumption DEF Present, Overlays
    <3>5. Sighted(k.seen) <= Present
      BY <3>3, <3>4 DEF Sighted, LaterOf
    <3>6. k.ends <= Present => LaterOf(k.ends - 1, Present) <= Present
      BY <3>4 DEF LaterOf
    <3>7. a.reported => k.reported
      BY <3>2
    <3>8. QED
      BY <3>2, <3>3, <3>5, <3>6, <3>7
  <2>2. act \subseteq Overlays /\ \A a, o \in act : a = o
    BY <1>3, <1>8 DEF AreLinked, SoundBackend
  <2>3. act = {} <=> b.active = {}
    BY <1>8
  <2>4. QED
    BY <1>3, <1>10, <2>1, <2>2, <2>3 DEF AreLinked, SoundBackend
<1>14. T \subseteq Int /\ \A s, t \in T : s = t
  <2>1. Present \in Int
    BY HorizonAssumption DEF Present
  <2>2. \A n \in Int : Sighted(n) \in Int
    BY <2>1 DEF LaterOf, Sighted
  <2>3. QED
    BY <1>3, <2>2 DEF AreLinked
<1>15. Joint(h, g, C, E)
  <2>1. h.current = {} <=> d.current = {}
    BY <1>7, <1>9
  <2>2. (Bare(g) <=> Bare(b)) /\ (IsOver(b) => IsOver(g))
    BY <1>8, <1>10 DEF Bare, IsOver
  <2>3. /\ Held(b, C) => Held(g, C)
        /\ Emptied(b, C) => Emptied(g, C)
        /\ EndsTheShown(b, C) => EndsTheShown(g, C)
    BY <2>2 DEF Held, Emptied, EndsTheShown
  <2>4. ASSUME LockOnItsWay(d.current, C) PROVE LockOnItsWay(h.current, C)
    <3>1. SUFFICES ASSUME NEW c \in h.current, NEW k \in DOMAIN C, Latest(C, k)
                   PROVE  C[k].kind \in Shows /\ (c.lock <=> C[k].lock \/ LockFollows(C, k))
      BY DEF LockOnItsWay
    <3>2. PICK o \in d.current : c.lock = o.lock
      BY <1>7, <1>9
    <3>3. C[k].kind \in Shows /\ (o.lock <=> C[k].lock \/ LockFollows(C, k))
      BY <2>4, <3>1 DEF LockOnItsWay
    <3>4. QED
      BY <3>2, <3>3
  <2>5. ASSUME SameLock(d.current, b, C, E) PROVE SameLock(h.current, g, C, E)
    <3>1. SUFFICES ASSUME NEW c \in h.current, NEW o \in g.active \cup g.pending
                   PROVE  /\ c.lock => o.lock \/ Carries(C, "RequestLock")
                          /\ Carries(C, "RequestLock") => c.lock
                          /\ o.lock => c.lock \/ Carries(E, "LockAfterCurrentBreak")
      BY DEF SameLock
    <3>2. PICK k \in d.current : c.lock = k.lock
      BY <1>7, <1>9
    <3>3. PICK p \in b.active \cup b.pending : o.lock = p.lock
      BY <1>8, <1>10
    <3>4. /\ k.lock => p.lock \/ Carries(C, "RequestLock")
          /\ Carries(C, "RequestLock") => k.lock
          /\ p.lock => k.lock \/ Carries(E, "LockAfterCurrentBreak")
      BY <2>5 DEF SameLock
    <3>5. QED
      BY <3>2, <3>3, <3>4
  <2>6. Doomed(d, E) => Doomed(h, E)
    BY <1>9 DEF Doomed
  <2>7. Pictures(d, b, C, E) => Pictures(h, g, C, E)
    BY <2>1, <2>2, <2>3, <2>4, <2>5, <2>6 DEF Pictures
  <2>8. QED
    BY <1>3, <1>9, <2>2, <2>7 DEF AreLinked, Joint
<1>16. AreLinked(h, g, C, E, T)
  BY <1>3, <1>12, <1>13, <1>14, <1>15 DEF AreLinked
<1> HIDE DEF T
<1>17. AreLinked(daemon', x', commands', events', sampled')
  BY <1>6, <1>16
<1>18. QED
  BY <1>17 DEF Linked, AreLinked

LEMMA InitLinked == Init => Linked
<1>1. SUFFICES ASSUME Init PROVE Linked
  OBVIOUS
<1> DEFINE n == [NewDaemon(Self) EXCEPT !.now = Present]
           d == UpdateStatus(n)
<1>2. daemon = d /\ x = Idle /\ commands = <<>> /\ events = <<>> /\ sampled = {}
  BY <1>1 DEF Init
<1>3. Agreed(n) /\ n.current = {} /\ n.cmds = <<>>
  <2>1. SoundScheduler(NewScheduler)
    BY RulesAssumption, AfterActiveAssumption
       DEF SoundScheduler, NewScheduler, Schedulers, WireValid, Modes
  <2>2. Present \in Nat
    BY HorizonAssumption DEF Present
  <2>3. QED
    BY <2>1, <2>2 DEF Agreed, NewDaemon, NewScheduler, Enabled, DaemonFields
<1>4. DOMAIN n = DaemonFields
  BY <1>3 DEF Agreed
<1> HIDE DEF n
<1>5. Coherent(d) /\ d.current = {}
  BY <1>3, <1>4, UpdateStatusShows
<1>6. d.cmds = <<>>
  BY <1>3, <1>4 DEF UpdateStatus, DaemonFields
<1>7. SoundRuntime(daemon)
  BY <1>2, <1>5, <1>6 DEF SoundRuntime
<1>8. SoundBackend(x) /\ Bare(x)
  BY <1>2 DEF SoundBackend, Idle, Bare, BackendFields
<1>9. Pictures(daemon, x, <<>>, <<>>)
  <2>1. /\ \A k : ~Carries(<<>>, k)
        /\ \A K : ~CarriesAny(<<>>, K) /\ AtMostOne(<<>>, K)
    BY NoneCarried
  <2>2. daemon.current = {}
    BY <1>2, <1>5
  <2>3. DOMAIN <<>> = {}
    OBVIOUS
  <2>4. OnlyLocks(<<>>) /\ EndsTheShown(x, <<>>)
    BY <2>3 DEF OnlyLocks, EndsTheShown
  <2>5. Emptied(x, <<>>)
    BY <1>8, <2>4 DEF Emptied
  <2>6. LockOnItsWay(daemon.current, <<>>) /\ SameLock(daemon.current, x, <<>>, <<>>)
    BY <2>2 DEF LockOnItsWay, SameLock
  <2>7. QED
    BY <2>1, <2>2, <2>4, <2>5, <2>6 DEF Pictures
<1>10. <<>> \in Seq(Commands) /\ <<>> \in Seq(Reports)
  OBVIOUS
<1>11. Joint(daemon, x, commands, events)
  BY <1>2, <1>8, <1>9 DEF Joint
<1>12. QED
  BY <1>2, <1>7, <1>8, <1>10, <1>11 DEF Linked

LEMMA StepLinked == Linked /\ [Undisturbed]_vars => Linked'
<1>1. \A answer : Linked /\ TakeCommand(answer) => Linked'
  BY TakeCommandLinked
<1>2. \A active \in BOOLEAN : Linked /\ SampleActivity(active) => Linked'
  BY SampleActivityLinked
<1>3. /\ \A click \in BOOLEAN : Linked /\ SampleActiveBreak(click) => Linked'
      /\ \A answer : Linked /\ SamplePendingBreak(answer) => Linked'
  BY SampleBreakLinked
<1>4. Linked /\ Backend => Linked'
  BY <1>1, <1>2, <1>3, BackendEndsLinked DEF Backend
<1>5. Linked /\ InTurn => Linked'
  BY TrayLinked, PeerLinked DEF InTurn
<1>6. /\ \A name : Linked /\ StartByHand(name) => Linked'
      /\ Linked /\ EnableByHand => Linked'
      /\ Linked /\ Quit => Linked'
  BY TrayLinked
<1>7. Linked /\ UNCHANGED vars => Linked'
  BY DEF Linked, vars
<1>8. QED
  BY <1>4, <1>5, <1>6, <1>7, TakeEventLinked, CommandFailsLinked, BackendEndsLinked, TickLinked
     DEF Undisturbed

\* Whatever is on its way in either direction, the two threads' pictures of the
\* break fit together with it: as long as no peer and no disabling takes a break
\* away the report of whose end is on its way.
THEOREM ThreadsLinked == UndisturbedSpec => []Linked
<1>1. Init => Linked
  BY InitLinked
<1>2. Linked /\ [Undisturbed]_vars => Linked'
  BY StepLinked
<1>3. QED
  BY <1>1, <1>2, PTL DEF UndisturbedSpec

\* Once both channels are empty, the backend of src/x11_activity.rs shows a break,
\* or waits for its grab, exactly when the runtime has a current break, and both
\* will end it with a lock or neither: whatever peers start, replace, clear and
\* lock, if nothing overtakes the report of the end of the break it takes away.
THEOREM ThreadsMeet == UndisturbedSpec => []ThreadsAgree
<1>1. Linked => ThreadsAgree
  <2>1. SUFFICES ASSUME Linked, Settled
                 PROVE  {c.lock : c \in daemon.current}
                            = {b.lock : b \in x.active} \cup {b.lock : b \in x.pending}
    BY DEF ThreadsAgree
  <2>2. /\ Pictures(daemon, x, <<>>, <<>>) /\ daemon.running
        /\ SoundRuntime(daemon) /\ SoundBackend(x)
    BY <2>1 DEF Linked, Settled, Joint
  <2>3. (\A k : ~Carries(<<>>, k)) /\ DOMAIN <<>> = {}
    BY NoneCarried
  <2>4. CASE daemon.current = {}
    <3>1. Emptied(x, <<>>)
      BY <2>2, <2>4 DEF Pictures
    <3>2. Bare(x)
      BY <2>3, <3>1 DEF Emptied
    <3>3. QED
      BY <2>4, <3>2 DEF Bare
  <2>5. CASE daemon.current # {}
    <3>1. ~Bare(x)
      <4>1. Held(x, <<>>) \/ Carries(<<>>, "BreakStartFailed") \/ Doomed(daemon, <<>>)
        BY <2>2, <2>5 DEF Pictures
      <4>2. Held(x, <<>>)
        BY <2>2, <2>3, <4>1 DEF Doomed
      <4>3. QED
        BY <2>3, <4>2 DEF Held
    <3>2. PICK c \in daemon.current : daemon.current = {c}
      BY <2>2, <2>5 DEF SoundRuntime, Coherent, Agreed
    <3>3. PICK o \in x.active \cup x.pending : x.active \cup x.pending = {o}
      BY <2>2, <3>1 DEF SoundBackend, Bare
    <3>4. c.lock <=> o.lock
      <4>1. SameLock(daemon.current, x, <<>>, <<>>)
        BY <2>2, <3>1, ShownAtRest
      <4>2. QED
        BY <2>3, <4>1 DEF SameLock
    <3>5. c.lock \in BOOLEAN /\ o.lock \in BOOLEAN
      BY <2>2 DEF SoundRuntime, SoundBackend, Overlays, Waits
    <3>6. c.lock = o.lock
      BY <3>4, <3>5
    <3>7. {b.lock : b \in daemon.current} = {c.lock}
      BY <3>2
    <3>8. {b.lock : b \in x.active} \cup {b.lock : b \in x.pending} = {o.lock}
      BY <3>3
    <3>9. QED
      BY <3>6, <3>7, <3>8
  <2>6. QED
    BY <2>4, <2>5
<1>2. QED
  BY <1>1, ThreadsLinked, PTL

\* An overlay is not taken down before its time: the FinishBreak the backend is
\* about to handle is of the break it shows, not of an earlier one, nor of the one a
\* peer's has taken the place of in turn.
THEOREM BreaksRunTheirCourse == UndisturbedSpec => []BreakRunsItsCourse
<1>1. Linked => BreakRunsItsCourse
  <2>1. SUFFICES ASSUME Linked, Finishing, NEW a \in x.active PROVE Present >= a.ends
    BY DEF BreakRunsItsCourse
  <2>2. commands # <<>> /\ Head(commands).kind = "FinishBreak" /\ commands \in Seq(Commands)
    BY <2>1 DEF Finishing, Linked
  <2>3. EndsTheShown(x, commands)
    BY <2>1, <2>2 DEF Linked, Joint, Pictures
  <2>4. 1 \in DOMAIN commands /\ commands[1].kind = "FinishBreak"
    BY <2>2
  <2>5. a.reported
    BY <2>1, <2>3, <2>4 DEF EndsTheShown, IsOver
  <2>6. a.ends <= Present /\ a.ends \in Int /\ Present \in Int
    BY <2>1, <2>5, HorizonAssumption DEF Linked, SoundBackend, Present, Overlays
  <2>7. QED
    BY <2>6
<1>2. QED
  BY <1>1, ThreadsLinked, PTL
=============================================================================
