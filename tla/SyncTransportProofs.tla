------------------------- MODULE SyncTransportProofs ------------------------
(***************************************************************************)
(* What the sync transports keep to, for any number of daemons, whoever    *)
(* dials whom, and however often connections break and daemons stop.       *)
(***************************************************************************)
EXTENDS SyncTransport, FiniteSetTheorems, SequenceTheorems, WellFoundedInduction, TLAPS

-----------------------------------------------------------------------------
(* The connection tracker *)

Connections == [ep : Conns, dir : {"Outgoing", "Incoming"}, peer : SUBSET Nodes, nth : Nat]

\* What holds of a tracker at any time: no endpoint is recorded twice.
TrackerOK(t) ==
    /\ t \in [self : Nodes, conns : SUBSET Connections, highest : [Nodes -> Int]]
    /\ IsFiniteSet(t.conns)
    /\ \A c, d \in t.conns : c.ep = d.ep => c = d
    /\ \A c \in t.conns : c.peer = {} \/ \E p \in Nodes : c.peer = {p}

\* The endpoint is tracked, and q holds the peer whose hello came over it.
Recorded(t, ep, q) == \E c \in t.conns : c.ep = ep /\ c.peer = q

\* Between two messages no peer has two connections: the collapse leaves one.
SoundTracker(t) ==
    /\ TrackerOK(t)
    /\ \A p \in Nodes, c, d \in Conns :
           Recorded(t, c, {p}) /\ Recorded(t, d, {p}) => c = d

\* Two trackers differ in their connections only.
SameOwner(t, u) == u.self = t.self /\ u.highest = t.highest

\* Every connection has a place, so some connection comes first.
LEMMA FirstOf ==
    ASSUME NEW S \in SUBSET Connections, S # {}
    PROVE  First(S) \in S
<1> DEFINE Places == {c.nth : c \in S}
<1>1. Places \in SUBSET Nat /\ Places # {}
  BY DEF Connections
<1>2. PICK x \in Places : \A y \in Places : ~(<<y, x>> \in OpToRel(<, Nat))
  BY <1>1, NatLessThanWellFounded, WFMin
<1>3. PICK c \in S : c.nth = x
  OBVIOUS
<1>4. \A d \in S : c.nth <= d.nth
  <2> TAKE d \in S
  <2>1. c.nth \in Nat /\ d.nth \in Nat /\ d.nth \in Places
    BY <1>1
  <2>2. ~(<<d.nth, c.nth>> \in {p \in Nat \X Nat : p[1] < p[2]})
    BY <1>2, <1>3, <2>1 DEF OpToRel
  <2>3. QED
    BY <2>1, <2>2
<1>5. QED
  BY <1>4 DEF First

\* An endpoint has the peer it is recorded with, and a peer with an endpoint is
\* connected.
LEMMA PeerOfRecorded ==
    ASSUME NEW t, TrackerOK(t), NEW ep
    PROVE  /\ \A q : Recorded(t, ep, q) => PeerFor(t, ep) = q
           /\ ~Tracked(t, ep) => PeerFor(t, ep) = {}
           /\ Tracked(t, ep) => Recorded(t, ep, PeerFor(t, ep))
           /\ \A p : p \in PeerFor(t, ep) <=> Recorded(t, ep, {p})
<1>1. ASSUME NEW c \in t.conns, c.ep = ep
      PROVE  PeerFor(t, ep) = c.peer
  <2>1. {d \in t.conns : d.ep = ep} = {c}
    BY <1>1 DEF TrackerOK
  <2>2. QED
    BY <2>1 DEF PeerFor
<1>2. ~Tracked(t, ep) => PeerFor(t, ep) = {}
  BY DEF Tracked, PeerFor
<1>3. \A q : Recorded(t, ep, q) => PeerFor(t, ep) = q
  BY <1>1 DEF Recorded
<1>4. Tracked(t, ep) => Recorded(t, ep, PeerFor(t, ep))
  BY <1>1 DEF Recorded, Tracked
<1>5. ASSUME NEW p, p \in PeerFor(t, ep) PROVE Recorded(t, ep, {p})
  <2>1. PICK c \in t.conns : c.ep = ep /\ p \in c.peer
    BY <1>5 DEF PeerFor
  <2>2. c.peer = {p}
    BY <2>1 DEF TrackerOK
  <2>3. QED
    BY <2>1, <2>2 DEF Recorded
<1>6. QED
  BY <1>2, <1>3, <1>4, <1>5

LEMMA ConnectedRecorded ==
    ASSUME NEW t, NEW p
    PROVE  IsConnected(t, p) <=> \E ep : Recorded(t, ep, {p})
BY DEF IsConnected, OfPeer, Recorded

LEMMA TrackedRecorded ==
    ASSUME NEW t, NEW ep
    PROVE  Tracked(t, ep) <=> \E q : Recorded(t, ep, q)
BY DEF Tracked, Recorded

LEMMA RecordedInConns ==
    ASSUME NEW t, TrackerOK(t), NEW ep, NEW q, Recorded(t, ep, q)
    PROVE  ep \in Conns /\ (q = {} \/ \E p \in Nodes : q = {p})
BY DEF Recorded, TrackerOK, Connections

\* Connections changed one by one, each keeping its endpoint, stay a finite set
\* that has no endpoint twice.
LEMMA ConnectionsMapped ==
    ASSUME NEW S \in SUBSET Connections, IsFiniteSet(S),
           \A c, d \in S : c.ep = d.ep => c = d,
           NEW f \in [S -> Connections], \A c \in S : f[c].ep = c.ep,
           NEW T, T = {f[c] : c \in S}
    PROVE  /\ T \in SUBSET Connections /\ IsFiniteSet(T)
           /\ \A c, d \in T : c.ep = d.ep => c = d
<1>1. T \in SUBSET Connections /\ f \in [S -> T] /\ \A y \in T : \E x \in S : f[x] = y
  OBVIOUS
<1>2. f \in Surjection(S, T)
  BY <1>1 DEF Surjection
<1>3. IsFiniteSet(T)
  BY <1>2, FS_Surjection
<1>4. ASSUME NEW c \in T, NEW d \in T, c.ep = d.ep PROVE c = d
  <2>1. PICK a \in S, b \in S : c = f[a] /\ d = f[b]
    OBVIOUS
  <2>2. a.ep = b.ep
    BY <1>4, <2>1
  <2>3. QED
    BY <2>1, <2>2
<1>5. QED
  BY <1>1, <1>3, <1>4

\* What is dropped is dropped, and nothing else changes but places.
LEMMA DroppingOf ==
    ASSUME NEW t, TrackerOK(t), NEW eps
    PROVE  /\ TrackerOK(Dropping(t, eps)) /\ SameOwner(t, Dropping(t, eps))
           /\ \A ep, q : Recorded(Dropping(t, eps), ep, q)
                             <=> Recorded(t, ep, q) /\ ep \notin eps
<1> DEFINE S == {c \in t.conns : c.ep \notin eps}
           f == [c \in S |-> [c EXCEPT !.nth = Cardinality({d \in S : d.nth <= c.nth})]]
           T == {f[c] : c \in S}
           u == Dropping(t, eps)
<1>1. S \in SUBSET Connections /\ IsFiniteSet(S) /\ \A c, d \in S : c.ep = d.ep => c = d
  BY FS_Subset DEF TrackerOK
<1>2. \A c \in S : Cardinality({d \in S : d.nth <= c.nth}) \in Nat
  BY <1>1, FS_Subset, FS_CardinalityType
<1>3. f \in [S -> Connections] /\ \A c \in S : f[c].ep = c.ep /\ f[c].peer = c.peer
  BY <1>1, <1>2 DEF Connections
<1>4. u = [t EXCEPT !.conns = T]
  BY DEF Dropping, MovedUp
<1>5. \A c \in S : c \in t.conns
  OBVIOUS
<1>6. \A c \in t.conns : c \in S <=> c.ep \notin eps
  OBVIOUS
<1> HIDE DEF f, u, S
<1>7. T \in SUBSET Connections /\ IsFiniteSet(T) /\ \A c, d \in T : c.ep = d.ep => c = d
  BY <1>1, <1>3, ConnectionsMapped
<1>8. \A c \in T : \E d \in S : c.ep = d.ep /\ c.peer = d.peer
  BY <1>3
<1>9. \A d \in S : \E c \in T : c.ep = d.ep /\ c.peer = d.peer
  BY <1>3
<1> HIDE DEF T
<1>10. /\ u.conns = T /\ u.self = t.self /\ u.highest = t.highest
       /\ u \in [self : Nodes, conns : SUBSET Connections, highest : [Nodes -> Int]]
  BY <1>4, <1>7 DEF TrackerOK
<1>11. TrackerOK(u) /\ SameOwner(t, u)
  BY <1>5, <1>7, <1>8, <1>10 DEF TrackerOK, SameOwner
<1>12. \A ep, q : Recorded(u, ep, q) <=> Recorded(t, ep, q) /\ ep \notin eps
  BY <1>5, <1>6, <1>8, <1>9, <1>10 DEF Recorded
<1>13. QED
  BY <1>11, <1>12 DEF u

LEMMA DroppingSound ==
    ASSUME NEW t, SoundTracker(t), NEW eps
    PROVE  SoundTracker(Dropping(t, eps))
<1>1. /\ TrackerOK(Dropping(t, eps))
      /\ \A ep, q : Recorded(Dropping(t, eps), ep, q)
                        <=> Recorded(t, ep, q) /\ ep \notin eps
  BY DroppingOf DEF SoundTracker
<1>2. QED
  BY <1>1 DEF SoundTracker

\* close_endpoint tells of a peer exactly when its connection goes, since a peer
\* has no other.
LEMMA GoneOf ==
    ASSUME NEW t, SoundTracker(t), NEW eps
    PROVE  /\ \A p : p \in Gone(t, eps) <=> \E ep \in eps : Recorded(t, ep, {p})
           /\ \A p : IsConnected(Dropping(t, eps), p)
                        <=> IsConnected(t, p) /\ p \notin Gone(t, eps)
<1>1. TrackerOK(t)
  BY DEF SoundTracker
<1>2. ASSUME NEW ep, NEW p PROVE p \in Disconnected(t, ep) <=> Recorded(t, ep, {p})
  <2>1. p \in PeerFor(t, ep) <=> Recorded(t, ep, {p})
    BY <1>1, PeerOfRecorded
  <2>2. \A e : Recorded(Dropping(t, {ep}), e, {p}) <=> Recorded(t, e, {p}) /\ e # ep
    BY <1>1, DroppingOf
  <2>3. ASSUME Recorded(t, ep, {p}) PROVE ~IsConnected(Dropping(t, {ep}), p)
    <3>1. p \in Nodes /\ ep \in Conns
      BY <1>1, <2>3, RecordedInConns
    <3>2. \A e : Recorded(t, e, {p}) => e \in Conns
      BY <1>1, RecordedInConns
    <3>3. \A e : Recorded(t, e, {p}) => e = ep
      BY <2>3, <3>1, <3>2 DEF SoundTracker
    <3>4. QED
      BY <2>2, <3>3, ConnectedRecorded
  <2>4. QED
    BY <2>1, <2>3 DEF Disconnected, Without
<1>3. \A p : p \in Gone(t, eps) <=> \E ep \in eps : Recorded(t, ep, {p})
  BY <1>2 DEF Gone
<1>4. ASSUME NEW p
      PROVE  IsConnected(Dropping(t, eps), p) <=> IsConnected(t, p) /\ p \notin Gone(t, eps)
  <2>1. \A e : Recorded(Dropping(t, eps), e, {p}) <=> Recorded(t, e, {p}) /\ e \notin eps
    BY <1>1, DroppingOf
  <2>2. \A e, d : Recorded(t, e, {p}) /\ Recorded(t, d, {p}) => e = d
    <3>1. \A e : Recorded(t, e, {p}) => e \in Conns /\ p \in Nodes
      BY <1>1, RecordedInConns
    <3>2. QED
      BY <3>1 DEF SoundTracker
  <2>3. QED
    BY <1>3, <2>1, <2>2, ConnectedRecorded
<1>5. QED
  BY <1>3, <1>4

\* A new connection is recorded without a peer; one that is known keeps its own.
LEMMA RecordEndpointOf ==
    ASSUME NEW t, SoundTracker(t), NEW ep \in Conns, NEW dir \in {"Outgoing", "Incoming"}
    PROVE  /\ SoundTracker(RecordEndpoint(t, ep, dir))
           /\ SameOwner(t, RecordEndpoint(t, ep, dir))
           /\ \A e, q : Recorded(RecordEndpoint(t, ep, dir), e, q)
                            <=> Recorded(t, e, q) \/ (e = ep /\ q = {} /\ ~Tracked(t, ep))
<1> DEFINE u == RecordEndpoint(t, ep, dir)
           S == t.conns
<1>1. TrackerOK(t) /\ S \in SUBSET Connections /\ IsFiniteSet(S)
      /\ \A c, d \in S : c.ep = d.ep => c = d
  BY DEF SoundTracker, TrackerOK
<1>2. CASE Tracked(t, ep)
  <2> DEFINE f == [c \in S |-> IF c.ep = ep THEN [c EXCEPT !.dir = dir] ELSE c]
             T == {f[c] : c \in S}
  <2>1. f \in [S -> Connections] /\ \A c \in S : f[c].ep = c.ep /\ f[c].peer = c.peer
    BY <1>1 DEF Connections
  <2>2. u = [t EXCEPT !.conns = T]
    BY <1>2 DEF RecordEndpoint
  <2> HIDE DEF f, u
  <2>3. T \in SUBSET Connections /\ IsFiniteSet(T) /\ \A c, d \in T : c.ep = d.ep => c = d
    BY <1>1, <2>1, ConnectionsMapped
  <2>4. \A c \in T : \E d \in S : c.ep = d.ep /\ c.peer = d.peer
    BY <2>1
  <2>5. \A d \in S : \E c \in T : c.ep = d.ep /\ c.peer = d.peer
    BY <2>1
  <2> HIDE DEF T
  <2>6. /\ u.conns = T /\ u.self = t.self /\ u.highest = t.highest
        /\ u \in [self : Nodes, conns : SUBSET Connections, highest : [Nodes -> Int]]
    BY <1>1, <2>2, <2>3 DEF TrackerOK
  <2>7. TrackerOK(u) /\ SameOwner(t, u)
    BY <1>1, <2>3, <2>4, <2>6 DEF TrackerOK, SameOwner
  <2>8. \A e, q : Recorded(u, e, q) <=> Recorded(t, e, q)
    BY <2>4, <2>5, <2>6 DEF Recorded
  <2>9. SoundTracker(u)
    BY <2>7, <2>8 DEF SoundTracker
  <2>10. QED
    BY <1>2, <2>7, <2>8, <2>9 DEF u
<1>3. CASE ~Tracked(t, ep)
  <2> DEFINE c == [ep |-> ep, dir |-> dir, peer |-> {}, nth |-> Cardinality(S) + 1]
  <2>1. c \in Connections /\ c.ep = ep /\ c.peer = {}
    <3>1. Cardinality(S) \in Nat
      BY <1>1, FS_CardinalityType
    <3>2. QED
      BY <3>1 DEF Connections
  <2>2. u = [t EXCEPT !.conns = S \cup {c}]
    BY <1>3 DEF RecordEndpoint
  <2> HIDE DEF c, u
  <2>3. IsFiniteSet(S \cup {c})
    BY <1>1, FS_AddElement
  <2>4. /\ u.conns = S \cup {c} /\ u.self = t.self /\ u.highest = t.highest
        /\ u \in [self : Nodes, conns : SUBSET Connections, highest : [Nodes -> Int]]
    BY <1>1, <2>1, <2>2 DEF TrackerOK
  <2>5. \A d \in S : d.ep # ep
    BY <1>3 DEF Tracked
  <2>6. TrackerOK(u) /\ SameOwner(t, u)
    BY <1>1, <2>1, <2>3, <2>4, <2>5 DEF TrackerOK, SameOwner
  <2>7. \A e, q : Recorded(u, e, q) <=> Recorded(t, e, q) \/ (e = ep /\ q = {})
    BY <2>1, <2>4 DEF Recorded
  <2>8. SoundTracker(u)
    BY <2>6, <2>7 DEF SoundTracker
  <2>9. QED
    BY <1>3, <2>6, <2>7, <2>8 DEF u
<1>4. QED
  BY <1>2, <1>3

\* The hello names the peer of its endpoint.
LEMMA ClaimedOf ==
    ASSUME NEW t, TrackerOK(t), NEW ep, Tracked(t, ep), NEW p \in Nodes
    PROVE  /\ TrackerOK(Claimed(t, ep, p)) /\ SameOwner(t, Claimed(t, ep, p))
           /\ \A e, q : Recorded(Claimed(t, ep, p), e, q)
                            <=> IF e = ep THEN q = {p} ELSE Recorded(t, e, q)
<1> DEFINE u == Claimed(t, ep, p)
           S == t.conns
           f == [c \in S |-> IF c.ep = ep THEN [c EXCEPT !.peer = {p}] ELSE c]
           T == {f[c] : c \in S}
<1>1. /\ S \in SUBSET Connections /\ IsFiniteSet(S)
      /\ \A c, d \in S : c.ep = d.ep => c = d
  BY DEF TrackerOK
<1>2. /\ f \in [S -> Connections]
      /\ \A c \in S : /\ f[c].ep = c.ep
                      /\ f[c].peer = IF c.ep = ep THEN {p} ELSE c.peer
  BY <1>1 DEF Connections
<1>3. u = [t EXCEPT !.conns = T]
  BY DEF Claimed
<1>4. \E c \in S : c.ep = ep
  BY DEF Tracked
<1> HIDE DEF f, u
<1>5. T \in SUBSET Connections /\ IsFiniteSet(T) /\ \A c, d \in T : c.ep = d.ep => c = d
  BY <1>1, <1>2, ConnectionsMapped
<1>6. \A c \in T : \E d \in S : c.ep = d.ep /\ c.peer = IF d.ep = ep THEN {p} ELSE d.peer
  BY <1>2
<1>7. \A d \in S : \E c \in T : c.ep = d.ep /\ c.peer = IF d.ep = ep THEN {p} ELSE d.peer
  BY <1>2
<1> HIDE DEF T
<1>8. /\ u.conns = T /\ u.self = t.self /\ u.highest = t.highest
      /\ u \in [self : Nodes, conns : SUBSET Connections, highest : [Nodes -> Int]]
  BY <1>3, <1>5 DEF TrackerOK
<1>9. TrackerOK(u) /\ SameOwner(t, u)
  BY <1>5, <1>6, <1>8 DEF TrackerOK, SameOwner
<1>10. ASSUME NEW e, NEW q
       PROVE  Recorded(u, e, q) <=> IF e = ep THEN q = {p} ELSE Recorded(t, e, q)
  <2>1. CASE e = ep
    <3>1. \A c \in u.conns : c.ep = ep => c.peer = {p}
      BY <1>6, <1>8
    <3>2. \E c \in u.conns : c.ep = ep /\ c.peer = {p}
      BY <1>4, <1>7, <1>8
    <3>3. QED
      BY <2>1, <3>1, <3>2 DEF Recorded
  <2>2. CASE e # ep
    <3>1. \A c \in u.conns : c.ep = e => \E d \in t.conns : d.ep = e /\ d.peer = c.peer
      BY <1>6, <1>8, <2>2
    <3>2. \A d \in t.conns : d.ep = e => \E c \in u.conns : c.ep = e /\ c.peer = d.peer
      BY <1>7, <1>8, <2>2
    <3>3. QED
      BY <2>2, <3>1, <3>2 DEF Recorded
  <2>3. QED
    BY <2>1, <2>2
<1>11. QED
  BY <1>9, <1>10 DEF u

\* The collapse keeps one connection of a connected peer.
LEMMA EndpointToKeepOf ==
    ASSUME NEW t, TrackerOK(t), NEW p, IsConnected(t, p)
    PROVE  /\ Recorded(t, EndpointToKeep(t, p), {p})
           /\ \A ep : ep \in Surplus(t, p)
                         <=> Recorded(t, ep, {p}) /\ ep # EndpointToKeep(t, p)
<1> DEFINE desired == {c \in OfPeer(t, p) : c.dir = Desired(t.self, p)}
           S == IF desired # {} THEN desired ELSE OfPeer(t, p)
<1>1. S \in SUBSET Connections /\ S # {} /\ S \subseteq OfPeer(t, p)
  BY DEF TrackerOK, OfPeer, IsConnected
<1>2. First(S) \in OfPeer(t, p)
  BY <1>1, FirstOf
<1>3. EndpointToKeep(t, p) = First(S).ep
  BY DEF EndpointToKeep
<1>4. Recorded(t, EndpointToKeep(t, p), {p})
  BY <1>2, <1>3 DEF OfPeer, Recorded
<1>5. \A ep : Recorded(t, ep, {p}) <=> ep \in {c.ep : c \in OfPeer(t, p)}
  BY DEF OfPeer, Recorded
<1>6. QED
  BY <1>4, <1>5 DEF Surplus

\* authenticate_peer: of a connection another daemon said hello over, the peer is
\* connected, over one connection, and new if it was not connected before.
LEMMA AuthenticationOf ==
    ASSUME NEW t, SoundTracker(t), NEW ep, Tracked(t, ep), NEW p \in Nodes, p # t.self
    PROVE  LET a == Authentication(t, ep, p)
           IN  /\ SoundTracker(a.tracker) /\ SameOwner(t, a.tracker)
               /\ \A e, q : Recorded(a.tracker, e, q)
                     <=> e \notin a.close /\ IF e = ep THEN q = {p} ELSE Recorded(t, e, q)
               /\ \A e \in a.close : e = ep \/ Recorded(t, e, {p})
               /\ a.isNew = ~IsConnected(t, p)
               /\ IsConnected(a.tracker, p)
<1> DEFINE a == Authentication(t, ep, p)
           hello == Claimed(t, ep, p)
           keep == EndpointToKeep(hello, p)
           surplus == Surplus(hello, p)
<1>1. TrackerOK(t)
  BY DEF SoundTracker
<1>2. /\ TrackerOK(hello) /\ SameOwner(t, hello)
      /\ \A e, q : Recorded(hello, e, q) <=> IF e = ep THEN q = {p} ELSE Recorded(t, e, q)
  BY <1>1, ClaimedOf
<1>3. /\ a.tracker = Dropping(hello, surplus) /\ a.close = surplus
      /\ a.isNew = (~IsConnected(t, p) /\ ep \notin surplus)
  BY DEF Authentication
<1> HIDE DEF a, hello
<1>4. IsConnected(hello, p)
  BY <1>2, ConnectedRecorded
<1>5. /\ Recorded(hello, keep, {p})
      /\ \A e : e \in surplus <=> Recorded(hello, e, {p}) /\ e # keep
  BY <1>2, <1>4, EndpointToKeepOf
<1> HIDE DEF keep, surplus
<1>6. /\ TrackerOK(a.tracker) /\ SameOwner(hello, a.tracker)
      /\ \A e, q : Recorded(a.tracker, e, q) <=> Recorded(hello, e, q) /\ e \notin surplus
  BY <1>2, <1>3, DroppingOf
<1>7. SameOwner(t, a.tracker)
  BY <1>2, <1>6 DEF SameOwner
<1>8. \A e, q : Recorded(a.tracker, e, q)
          <=> e \notin a.close /\ IF e = ep THEN q = {p} ELSE Recorded(t, e, q)
  BY <1>2, <1>3, <1>6
<1>9. \A e \in a.close : e = ep \/ Recorded(t, e, {p})
  BY <1>2, <1>3, <1>5
<1>10. IsConnected(a.tracker, p)
  BY <1>5, <1>6, ConnectedRecorded
<1>11. a.isNew = ~IsConnected(t, p)
  <2>1. CASE IsConnected(t, p)
    BY <1>3, <2>1
  <2>2. CASE ~IsConnected(t, p)
    <3>1. \A e : ~Recorded(t, e, {p})
      BY <2>2, ConnectedRecorded
    <3>2. keep = ep
      BY <1>2, <1>5, <3>1
    <3>3. ep \notin surplus
      BY <1>5, <3>2
    <3>4. QED
      BY <1>3, <2>2, <3>3
  <2>3. QED
    BY <2>1, <2>2
<1>12. SoundTracker(a.tracker)
  <2> SUFFICES ASSUME NEW q \in Nodes, NEW c \in Conns, NEW d \in Conns,
                      Recorded(a.tracker, c, {q}), Recorded(a.tracker, d, {q})
               PROVE  c = d
    BY <1>6 DEF SoundTracker
  <2>1. /\ Recorded(hello, c, {q}) /\ c \notin surplus
        /\ Recorded(hello, d, {q}) /\ d \notin surplus
    BY <1>6
  <2>2. CASE q = p
    BY <1>5, <2>1, <2>2
  <2>3. CASE q # p
    <3>1. {q} # {p}
      BY <2>3
    <3>2. c # ep /\ d # ep
      BY <1>2, <2>1, <3>1
    <3>3. Recorded(t, c, {q}) /\ Recorded(t, d, {q})
      BY <1>2, <2>1, <3>2
    <3>4. QED
      BY <3>3 DEF SoundTracker
  <2>4. QED
    BY <2>2, <2>3
<1>13. QED
  BY <1>7, <1>8, <1>9, <1>10, <1>11, <1>12 DEF a

\* An accepted event raises the highest sequence of its sender.
LEMMA AcceptingOf ==
    ASSUME NEW t, SoundTracker(t), NEW p \in Nodes, NEW seq \in Int
    PROVE  /\ SoundTracker(Accepting(t, p, seq))
           /\ Accepting(t, p, seq).conns = t.conns /\ Accepting(t, p, seq).self = t.self
           /\ Accepting(t, p, seq).highest = [t.highest EXCEPT ![p] = seq]
<1> DEFINE u == Accepting(t, p, seq)
<1>1. t \in [self : Nodes, conns : SUBSET Connections, highest : [Nodes -> Int]]
  BY DEF SoundTracker, TrackerOK
<1>2. u = [t EXCEPT !.highest = [t.highest EXCEPT ![p] = seq]]
  BY DEF Accepting
<1>3. /\ u \in [self : Nodes, conns : SUBSET Connections, highest : [Nodes -> Int]]
      /\ u.conns = t.conns /\ u.self = t.self
      /\ u.highest = [t.highest EXCEPT ![p] = seq]
  BY <1>1, <1>2
<1> HIDE DEF u
<1>4. TrackerOK(u)
  BY <1>3 DEF SoundTracker, TrackerOK
<1>5. \A e, q : Recorded(u, e, q) <=> Recorded(t, e, q)
  BY <1>3 DEF Recorded
<1>6. SoundTracker(u)
  BY <1>4, <1>5 DEF SoundTracker
<1>7. QED
  BY <1>3, <1>6 DEF u

\* A new tracker holds no connection.
LEMMA NewTrackerSound ==
    ASSUME NEW n \in Nodes
    PROVE  SoundTracker(NewTracker(n)) /\ \A e, q : ~Recorded(NewTracker(n), e, q)
<1>1. NewTracker(n) \in [self : Nodes, conns : SUBSET Connections, highest : [Nodes -> Int]]
  BY DEF NewTracker
<1>2. IsFiniteSet({})
  BY FS_EmptySet
<1>3. NewTracker(n).conns = {}
  BY DEF NewTracker
<1>4. QED
  BY <1>1, <1>2, <1>3 DEF SoundTracker, TrackerOK, Recorded

-----------------------------------------------------------------------------
(* The ends of a connection *)

Whats == {"SchedulerState", "Change"}
Established == {"Connected", "Accepted"}
Notices == [kind : {"Connected", "Accepted", "ConnectFailed", "Disconnected"}]
FramesFrom(m) ==
    [kind : {"Hello"}, sender : {m}, config : {plan.config[m]}]
        \cup [kind : {"Event"}, sender : {m}, seq : Nat, what : Whats]

IsEnd(n, c) == c \in DOMAIN link /\ (link[c][1] = n \/ link[c][2] = n)
Items(n, c) == Notices \cup FramesFrom(OtherEnd(n, c))

\* One of the kinds has still to be handled by n's worker.
Has(n, c, kinds) == \E i \in DOMAIN inbox[n][c] : inbox[n][c][i].kind \in kinds

\* The peer a connection can be authenticated for: its other end, with the same
\* break settings.
Allowed(n, c) == {m \in {OtherEnd(n, c)} : plan.config[m] = plan.config[n]}

\* The shape of the state, as far as the proofs need it.
Shapes ==
    /\ plan \in Plans
    /\ link \in Seq({d \in Nodes \X Nodes : d[1] # d[2]}) /\ DOMAIN link \subseteq Conns
    /\ DOMAIN tracker = Nodes
    /\ next \in [Nodes -> Nat]
    /\ sockets \in [Nodes -> SUBSET Conns]
    /\ DOMAIN inbox = Nodes
    /\ DOMAIN command = Nodes
    /\ \A n \in Nodes : \A cmd \in command[n] : cmd.what \in Whats
    /\ running \subseteq Nodes

\* What a daemon keeps of its own connections: only the connections it is an end
\* of, each with what its other end sent and its other end as the peer.
OwnEnds(n) ==
    /\ SoundTracker(tracker[n]) /\ tracker[n].self = n
    /\ \A c \in sockets[n] : IsEnd(n, c)
    /\ \A c, q : Recorded(tracker[n], c, q) => IsEnd(n, c) /\ q \subseteq Allowed(n, c)
    /\ DOMAIN inbox[n] = Conns
    /\ \A c \in Conns : IF IsEnd(n, c) THEN inbox[n][c] \in Seq(Items(n, c))
                                       ELSE inbox[n][c] = <<>>

\* How the two ends of a connection keep up with each other.  An end that only one
\* of them has removed is on its way to the other.  An open end is tracked once
\* its first event is handled; what is tracked is open, or its end is on its way;
\* the first event comes first and finds the end not tracked.  Of a connection
\* open at both ends, each end has the peer's hello, is to handle it, or will be
\* sent it.
EndInv(n, c) ==
    /\ c \in sockets[n] /\ c \notin sockets[OtherEnd(n, c)] => Has(n, c, {"Disconnected"})
    /\ c \in sockets[n] => Has(n, c, Established) \/ Tracked(tracker[n], c)
    /\ Tracked(tracker[n], c) => c \in sockets[n] \/ Has(n, c, {"Disconnected"})
    /\ Has(n, c, Established) =>
           ~Tracked(tracker[n], c) /\ (c \in sockets[n] \/ Has(n, c, {"Disconnected"}))
    /\ \A i \in DOMAIN inbox[n][c] : i > 1 => inbox[n][c][i].kind \notin Established
    /\ c \in sockets[n] /\ c \in sockets[OtherEnd(n, c)] =>
           \/ PeerFor(tracker[n], c) = {OtherEnd(n, c)}
           \/ Has(n, c, {"Hello"})
           \/ Has(OtherEnd(n, c), c, Established)

Ends ==
    /\ Shapes
    /\ \A n \in Nodes : OwnEnds(n)
    /\ \A n \in Nodes, c \in Conns : IsEnd(n, c) => EndInv(n, c)

\* A connection has two ends, each the other end of the other.
LEMMA TwoEnds ==
    ASSUME Shapes, NEW n \in Nodes, NEW c, IsEnd(n, c)
    PROVE  /\ c \in Conns /\ OtherEnd(n, c) \in Nodes /\ OtherEnd(n, c) # n
           /\ IsEnd(OtherEnd(n, c), c) /\ OtherEnd(OtherEnd(n, c), c) = n
           /\ \A m : IsEnd(m, c) => m = n \/ m = OtherEnd(n, c)
<1>1. /\ link[c] \in {d \in Nodes \X Nodes : d[1] # d[2]} /\ c \in Conns /\ c \in DOMAIN link
      /\ (link[c][1] = n \/ link[c][2] = n)
  BY DEF Shapes, IsEnd
<1>2. link[c][1] \in Nodes /\ link[c][2] \in Nodes /\ link[c][1] # link[c][2]
  BY <1>1
<1>3. QED
  BY <1>1, <1>2 DEF OtherEnd, IsEnd

\* Reading on: what is appended to a sequence comes after what it holds.
LEMMA Appended ==
    ASSUME NEW S, NEW a \in Seq(S), NEW b \in Seq(S)
    PROVE  /\ a \o b \in Seq(S)
           /\ \A i \in DOMAIN a : i \in DOMAIN (a \o b) /\ (a \o b)[i] = a[i]
           /\ \A i \in DOMAIN b : \E j \in DOMAIN (a \o b) : (a \o b)[j] = b[i]
           /\ \A i \in DOMAIN (a \o b) :
                  i \in DOMAIN a \/ \E j \in DOMAIN b : (a \o b)[i] = b[j]
<1>1. /\ a \o b \in Seq(S) /\ Len(a \o b) = Len(a) + Len(b)
      /\ Len(a) \in Nat /\ Len(b) \in Nat
      /\ \A i \in 1 .. Len(a) + Len(b) :
             (a \o b)[i] = IF i <= Len(a) THEN a[i] ELSE b[i - Len(a)]
  BY ConcatProperties
<1>2. /\ DOMAIN a = 1 .. Len(a) /\ DOMAIN b = 1 .. Len(b)
      /\ DOMAIN (a \o b) = 1 .. (Len(a) + Len(b))
  BY <1>1
<1>3. \A i \in DOMAIN a : i \in DOMAIN (a \o b) /\ (a \o b)[i] = a[i]
  BY <1>1, <1>2
<1>4. ASSUME NEW i \in DOMAIN b
      PROVE  \E j \in DOMAIN (a \o b) : (a \o b)[j] = b[i]
  <2>1. Len(a) + i \in DOMAIN (a \o b) /\ (Len(a) + i) - Len(a) = i /\ ~(Len(a) + i <= Len(a))
    BY <1>1, <1>2
  <2>2. (a \o b)[Len(a) + i] = b[i]
    BY <1>1, <1>2, <2>1
  <2>3. QED
    BY <2>1, <2>2
<1>5. ASSUME NEW i \in DOMAIN (a \o b), i \notin DOMAIN a
      PROVE  \E j \in DOMAIN b : (a \o b)[i] = b[j]
  <2>1. i - Len(a) \in DOMAIN b /\ (a \o b)[i] = b[i - Len(a)]
    BY <1>1, <1>2, <1>5
  <2>2. QED
    BY <2>1
<1>6. QED
  BY <1>1, <1>3, <1>4, <1>5

\* Handling the first item leaves the others, one place nearer.
LEMMA TailItems ==
    ASSUME NEW S, NEW s \in Seq(S), s # <<>>
    PROVE  /\ Tail(s) \in Seq(S) /\ Head(s) \in S /\ Head(s) = s[1]
           /\ \A i \in DOMAIN Tail(s) : /\ i + 1 \in DOMAIN s /\ i + 1 > 1
                                        /\ Tail(s)[i] = s[i + 1]
           /\ \A i \in DOMAIN s : s[i] = Head(s) \/ \E j \in DOMAIN Tail(s) : Tail(s)[j] = s[i]
<1>1. /\ Len(s) \in Nat /\ Len(s) # 0 /\ DOMAIN s = 1 .. Len(s) /\ Head(s) = s[1] /\ Head(s) \in S
  BY EmptySeq, HeadTailProperties
<1>2. /\ Tail(s) \in Seq(S) /\ Len(Tail(s)) = Len(s) - 1
      /\ \A i \in 1 .. Len(Tail(s)) : Tail(s)[i] = s[i + 1]
  BY HeadTailProperties
<1>3. DOMAIN Tail(s) = 1 .. Len(s) - 1
  BY <1>2
<1>4. \A i \in DOMAIN Tail(s) : i + 1 \in DOMAIN s /\ i + 1 > 1 /\ Tail(s)[i] = s[i + 1]
  BY <1>1, <1>2, <1>3
<1>5. ASSUME NEW i \in DOMAIN s
      PROVE  s[i] = Head(s) \/ \E j \in DOMAIN Tail(s) : Tail(s)[j] = s[i]
  <2>1. CASE i = 1
    BY <1>1, <2>1
  <2>2. CASE i # 1
    <3>1. i - 1 \in DOMAIN Tail(s) /\ Tail(s)[i - 1] = s[(i - 1) + 1] /\ (i - 1) + 1 = i
      BY <1>1, <1>2, <1>3, <2>2
    <3>2. QED
      BY <3>1
  <2>3. QED
    BY <2>1, <2>2
<1>6. QED
  BY <1>1, <1>2, <1>4, <1>5

\* What another daemon sees of a step of n: what it has not handled stays, frames
\* from n and ends follow it, and no connection is established.
LEMMA NetworkReaches ==
    ASSUME Ends, NEW n \in Nodes, NEW rest, NEW frames, NEW closing,
           Network(n, rest, frames, closing),
           \A c \in DOMAIN frames : frames[c] \in Seq(FramesFrom(n)),
           NEW k \in Nodes, k # n, NEW c \in Conns
    PROVE  /\ DOMAIN inbox' = Nodes /\ DOMAIN inbox'[k] = Conns /\ sockets'[k] = sockets[k]
           /\ IF IsEnd(k, c) THEN inbox'[k][c] \in Seq(Items(k, c)) ELSE inbox'[k][c] = <<>>
           /\ \A i \in DOMAIN inbox[k][c] :
                  i \in DOMAIN inbox'[k][c] /\ inbox'[k][c][i] = inbox[k][c][i]
           /\ \A i \in DOMAIN inbox'[k][c] :
                  i \in DOMAIN inbox[k][c] \/ inbox'[k][c][i].kind \notin Established
           /\ c \in sockets[n] /\ c \in sockets[k] /\ c \in closing =>
                  \E i \in DOMAIN inbox'[k][c] : inbox'[k][c][i].kind = "Disconnected"
           /\ c \in sockets[n] /\ c \in sockets[k] /\ c \in DOMAIN frames
              /\ frames[c] = <<HelloFrame(n)>> =>
                  \E i \in DOMAIN inbox'[k][c] : inbox'[k][c][i].kind = "Hello"
<1> DEFINE sent == IF c \in DOMAIN frames /\ c \in sockets[n] THEN frames[c] ELSE <<>>
           end == IF c \in closing \cap sockets[n] THEN <<Item("Disconnected")>> ELSE <<>>
<1>1. /\ sockets' = [sockets EXCEPT ![n] = @ \ closing]
      /\ DOMAIN inbox' = Nodes /\ DOMAIN inbox'[k] = Conns
      /\ inbox'[k][c] = IF c \notin DOMAIN link \/ c \notin sockets[k] \/ k # OtherEnd(n, c)
                        THEN inbox[k][c] ELSE inbox[k][c] \o sent \o end
  BY DEF Network
<1>2. sockets \in [Nodes -> SUBSET Conns] /\ sockets'[k] = sockets[k]
  BY <1>1 DEF Ends, Shapes
<1>3. OwnEnds(k) /\ OwnEnds(n) /\ Shapes
  BY DEF Ends
<1>4. CASE c \in sockets[n] /\ c \in sockets[k]
  <2>1. IsEnd(n, c) /\ IsEnd(k, c)
    BY <1>3, <1>4 DEF OwnEnds
  <2>2. k = OtherEnd(n, c) /\ OtherEnd(k, c) = n
    BY <1>3, <2>1, TwoEnds
  <2>3. inbox[k][c] \in Seq(Items(k, c))
    BY <1>3, <2>1 DEF OwnEnds
  <2>4. sent \in Seq(Items(k, c)) /\ \A i \in DOMAIN sent : sent[i] \in FramesFrom(n)
    <3>1. sent \in Seq(FramesFrom(n))
      <4>1. <<>> \in Seq(FramesFrom(n))
        BY EmptySeq
      <4>2. QED
        BY <4>1
    <3>2. FramesFrom(n) \subseteq Items(k, c)
      BY <2>2 DEF Items
    <3> HIDE DEF sent
    <3>3. sent \in Seq(Items(k, c))
      BY <3>1, <3>2
    <3>4. QED
      BY <3>1, <3>3
  <2>5. end \in Seq(Items(k, c)) /\ \A i \in DOMAIN end : end[i].kind = "Disconnected"
    <3>1. Item("Disconnected") \in Items(k, c) /\ Item("Disconnected").kind = "Disconnected"
      BY DEF Items, Notices, Item
    <3>2. QED
      BY <3>1
  <2>6. inbox'[k][c] = inbox[k][c] \o sent \o end
    BY <1>1, <1>4, <2>1, <2>2 DEF IsEnd
  <2>7. inbox[k][c] \o sent \in Seq(Items(k, c))
    BY <2>3, <2>4, Appended
  <2>8. \A i \in DOMAIN sent : sent[i].kind \notin Established
    BY <2>4 DEF FramesFrom, Established
  <2>9. \A i \in DOMAIN end : end[i].kind \notin Established
    BY <2>5 DEF Established
  <2>10. c \in closing => 1 \in DOMAIN end
    BY <1>4
  <2>11. c \in DOMAIN frames /\ frames[c] = <<HelloFrame(n)>> =>
             1 \in DOMAIN sent /\ sent[1].kind = "Hello"
    BY <1>4 DEF HelloFrame
  <2> HIDE DEF sent, end
  <2>12. /\ \A i \in DOMAIN inbox[k][c] : /\ i \in DOMAIN (inbox[k][c] \o sent)
                                          /\ (inbox[k][c] \o sent)[i] = inbox[k][c][i]
         /\ \A i \in DOMAIN sent :
                \E j \in DOMAIN (inbox[k][c] \o sent) : (inbox[k][c] \o sent)[j] = sent[i]
         /\ \A i \in DOMAIN (inbox[k][c] \o sent) :
                i \in DOMAIN inbox[k][c] \/ \E j \in DOMAIN sent : (inbox[k][c] \o sent)[i] = sent[j]
    <3> DEFINE old == inbox[k][c]
               S == Items(k, c)
    <3>1. old \in Seq(S) /\ sent \in Seq(S)
      BY <2>3, <2>4
    <3> HIDE DEF old, S
    <3>2. /\ \A i \in DOMAIN old : i \in DOMAIN (old \o sent) /\ (old \o sent)[i] = old[i]
          /\ \A i \in DOMAIN sent : \E j \in DOMAIN (old \o sent) : (old \o sent)[j] = sent[i]
          /\ \A i \in DOMAIN (old \o sent) :
                 i \in DOMAIN old \/ \E j \in DOMAIN sent : (old \o sent)[i] = sent[j]
      BY <3>1, Appended
    <3>3. QED
      BY <3>2 DEF old
  <2> DEFINE first == inbox[k][c] \o sent
  <2> HIDE DEF first
  <2>13. /\ first \o end \in Seq(Items(k, c))
         /\ \A i \in DOMAIN first : i \in DOMAIN (first \o end) /\ (first \o end)[i] = first[i]
         /\ \A i \in DOMAIN end : \E j \in DOMAIN (first \o end) : (first \o end)[j] = end[i]
         /\ \A i \in DOMAIN (first \o end) :
                i \in DOMAIN first \/ \E j \in DOMAIN end : (first \o end)[i] = end[j]
    <3>1. first \in Seq(Items(k, c))
      BY <2>7 DEF first
    <3>2. QED
      BY <2>5, <3>1, Appended
  <2>14. inbox'[k][c] = first \o end
    BY <2>6 DEF first
  <2>15. /\ \A i \in DOMAIN inbox[k][c] : i \in DOMAIN first /\ first[i] = inbox[k][c][i]
         /\ \A i \in DOMAIN sent : \E j \in DOMAIN first : first[j] = sent[i]
         /\ \A i \in DOMAIN first :
                i \in DOMAIN inbox[k][c] \/ \E j \in DOMAIN sent : first[i] = sent[j]
    BY <2>12 DEF first
  <2>16. \A i \in DOMAIN inbox'[k][c] :
             i \in DOMAIN inbox[k][c] \/ inbox'[k][c][i].kind \notin Established
    BY <2>8, <2>9, <2>13, <2>14, <2>15
  <2>17. c \in closing =>
             \E i \in DOMAIN inbox'[k][c] : inbox'[k][c][i].kind = "Disconnected"
    BY <2>5, <2>10, <2>13, <2>14
  <2>18. c \in DOMAIN frames /\ frames[c] = <<HelloFrame(n)>> =>
             \E i \in DOMAIN inbox'[k][c] : inbox'[k][c][i].kind = "Hello"
    BY <2>11, <2>13, <2>14, <2>15
  <2>19. \A i \in DOMAIN inbox[k][c] :
             i \in DOMAIN inbox'[k][c] /\ inbox'[k][c][i] = inbox[k][c][i]
    BY <2>13, <2>14, <2>15
  <2>20. QED
    BY <1>1, <1>2, <2>1, <2>13, <2>14, <2>16, <2>17, <2>18, <2>19
<1>5. CASE ~(c \in sockets[n] /\ c \in sockets[k])
  <2>1. inbox'[k][c] = inbox[k][c]
    <3>1. CASE c \in sockets[k] /\ k = OtherEnd(n, c) /\ c \in DOMAIN link
      <4>1. sent = <<>> /\ end = <<>>
        BY <1>5, <3>1
      <4>2. IsEnd(k, c)
        BY <1>3, <3>1 DEF OwnEnds
      <4>3. inbox[k][c] \in Seq(Items(k, c))
        BY <1>3, <4>2 DEF OwnEnds
      <4>4. inbox[k][c] \o <<>> = inbox[k][c]
        BY <4>3, ConcatEmptySeq
      <4>5. inbox'[k][c] = inbox[k][c] \o sent \o end
        BY <1>1, <3>1
      <4> HIDE DEF sent, end
      <4>6. QED
        BY <4>1, <4>4, <4>5
    <3>2. CASE ~(c \in sockets[k] /\ k = OtherEnd(n, c) /\ c \in DOMAIN link)
      BY <1>1, <3>2
    <3>3. QED
      BY <3>1, <3>2
  <2>2. IF IsEnd(k, c) THEN inbox[k][c] \in Seq(Items(k, c)) ELSE inbox[k][c] = <<>>
    BY <1>3 DEF OwnEnds
  <2>3. QED
    BY <1>1, <1>2, <1>5, <2>1, <2>2
<1>6. QED
  BY <1>4, <1>5

\* What a step of n's worker does to n's own ends: H are the connections whose
\* first item it handles, rest is what it leaves, frames is what it sends, closing
\* is what it removes, and t is the tracker it leaves.
WorkerChange(n, H, rest, frames, closing, t) ==
    /\ \A c \in Conns : IF c \in H THEN inbox[n][c] # <<>> /\ rest[c] = Tail(inbox[n][c])
                                   ELSE rest[c] = inbox[n][c]
    /\ DOMAIN rest = Conns
    /\ \A c \in DOMAIN frames : frames[c] \in Seq(FramesFrom(n))
    /\ SoundTracker(t) /\ t.self = n
    /\ \A c, q : Recorded(t, c, q) =>
           /\ c \notin closing /\ q \subseteq Allowed(n, c)
           /\ Tracked(tracker[n], c) \/ (c \in H /\ Head(inbox[n][c]).kind \in Established)
    /\ \A c : Tracked(tracker[n], c) /\ c \notin closing =>
           /\ Tracked(t, c)
           /\ PeerFor(tracker[n], c) = {OtherEnd(n, c)} => PeerFor(t, c) = {OtherEnd(n, c)}
    /\ \A c \in closing : Tracked(tracker[n], c) \/ c \in H
    /\ \A c \in H : c \notin closing =>
           /\ Head(inbox[n][c]).kind # "Disconnected"
           /\ Head(inbox[n][c]).kind \in Established =>
                  Tracked(t, c) /\ c \in DOMAIN frames /\ frames[c] = <<HelloFrame(n)>>
           /\ Head(inbox[n][c]).kind = "Hello" => PeerFor(t, c) = {OtherEnd(n, c)}

\* What the worker leaves of the items of a connection: all, or all but the first.
ItemsLeft(n, c, H, r) ==
    /\ IF IsEnd(n, c) THEN r \in Seq(Items(n, c)) ELSE r = <<>>
    /\ c \in H => IsEnd(n, c)
    /\ \A i \in DOMAIN r : \E j \in DOMAIN inbox[n][c] :
           r[i] = inbox[n][c][j] /\ (c \in H \/ i > 1 => j > 1)
    /\ \A j \in DOMAIN inbox[n][c] :
           \/ \E i \in DOMAIN r : r[i] = inbox[n][c][j]
           \/ c \in H /\ inbox[n][c][j] = Head(inbox[n][c])

\* The worker takes from the front of its own items only.
LEMMA RestOf ==
    ASSUME NEW n \in Nodes, OwnEnds(n), NEW c \in Conns, NEW H, NEW r,
           c \in H => inbox[n][c] # <<>> /\ r = Tail(inbox[n][c]),
           c \notin H => r = inbox[n][c]
    PROVE  ItemsLeft(n, c, H, r)
<1>1. IF IsEnd(n, c) THEN inbox[n][c] \in Seq(Items(n, c)) ELSE inbox[n][c] = <<>>
  BY DEF OwnEnds
<1>2. CASE c \in H
  <2>1. inbox[n][c] # <<>> /\ r = Tail(inbox[n][c])
    BY <1>2
  <2>2. IsEnd(n, c)
    BY <1>1, <2>1
  <2> DEFINE s == inbox[n][c]
             S == Items(n, c)
  <2>3. s \in Seq(S) /\ s # <<>> /\ r = Tail(s)
    BY <1>1, <2>1, <2>2
  <2> HIDE DEF s, S
  <2>4. /\ Tail(s) \in Seq(S) /\ Head(s) \in S /\ Head(s) = s[1]
        /\ \A i \in DOMAIN Tail(s) : i + 1 \in DOMAIN s /\ i + 1 > 1 /\ Tail(s)[i] = s[i + 1]
        /\ \A i \in DOMAIN s : s[i] = Head(s) \/ \E j \in DOMAIN Tail(s) : Tail(s)[j] = s[i]
    BY <2>3, TailItems
  <2>5. /\ r \in Seq(S)
        /\ \A i \in DOMAIN r : \E j \in DOMAIN s : r[i] = s[j] /\ j > 1
        /\ \A j \in DOMAIN s : (\E i \in DOMAIN r : r[i] = s[j]) \/ s[j] = Head(s)
    BY <2>3, <2>4
  <2>6. QED
    BY <1>2, <2>2, <2>5 DEF s, S, ItemsLeft
<1>3. CASE c \notin H
  <2>1. r = inbox[n][c]
    BY <1>3
  <2>2. QED
    BY <1>1, <1>3, <2>1 DEF ItemsLeft
<1>4. QED
  BY <1>2, <1>3

\* A step of n's worker keeps the ends of every connection in agreement.
LEMMA WorkerKeepsEnds ==
    ASSUME Ends, NEW n \in Nodes, NEW H \in SUBSET Conns, NEW rest, NEW frames, NEW closing,
           NEW t, WorkerChange(n, H, rest, frames, closing, t),
           Network(n, rest, frames, closing),
           \A m \in Nodes : tracker'[m] = IF m = n THEN t ELSE tracker[m],
           UNCHANGED <<plan, link>>, Shapes'
    PROVE  Ends'
<1>1. /\ \A m, c : IsEnd(m, c)' <=> IsEnd(m, c)
      /\ \A m, c : OtherEnd(m, c)' = OtherEnd(m, c)
      /\ \A m, c : Items(m, c)' = Items(m, c)
      /\ \A m, c : Allowed(m, c)' = Allowed(m, c)
  BY DEF IsEnd, OtherEnd, Items, Allowed, FramesFrom
<1>2. Shapes /\ \A m \in Nodes : OwnEnds(m)
  BY DEF Ends
<1>3. /\ tracker'[n] = t /\ \A m \in Nodes : m # n => tracker'[m] = tracker[m]
      /\ sockets'[n] = sockets[n] \ closing
      /\ \A m \in Nodes : m # n => sockets'[m] = sockets[m]
      /\ DOMAIN inbox'[n] = Conns /\ \A c \in Conns : inbox'[n][c] = rest[c]
  BY <1>2 DEF Network, Shapes
<1>4. \A c \in DOMAIN frames : frames[c] \in Seq(FramesFrom(n))
  BY DEF WorkerChange
<1>11. ASSUME NEW c \in Conns
       PROVE  /\ IF IsEnd(n, c) THEN inbox'[n][c] \in Seq(Items(n, c)) ELSE inbox'[n][c] = <<>>
              /\ c \in H => IsEnd(n, c)
              /\ \A i \in DOMAIN inbox'[n][c] : \E j \in DOMAIN inbox[n][c] :
                     inbox'[n][c][i] = inbox[n][c][j] /\ (c \in H \/ i > 1 => j > 1)
              /\ \A j \in DOMAIN inbox[n][c] :
                     \/ \E i \in DOMAIN inbox'[n][c] : inbox'[n][c][i] = inbox[n][c][j]
                     \/ c \in H /\ inbox[n][c][j] = Head(inbox[n][c])
  <2>0. PICK r : r = inbox'[n][c]
    OBVIOUS
  <2>1. /\ c \in H => inbox[n][c] # <<>> /\ r = Tail(inbox[n][c])
        /\ c \notin H => r = inbox[n][c]
    BY <1>3, <2>0 DEF WorkerChange
  <2>2. OwnEnds(n)
    BY <1>2
  <2>3. ItemsLeft(n, c, H, r)
    BY <2>1, <2>2, RestOf
  <2>4. QED
    BY <2>0, <2>3 DEF ItemsLeft
<1>5. OwnEnds(n)'
  <2>1. SoundTracker(tracker'[n]) /\ tracker'[n].self = n
    BY <1>3 DEF WorkerChange
  <2>2. \A c \in sockets'[n] : IsEnd(n, c)
    BY <1>2, <1>3 DEF OwnEnds
  <2>3. ASSUME NEW c, NEW q, Recorded(tracker'[n], c, q)
        PROVE  IsEnd(n, c) /\ q \subseteq Allowed(n, c)
    <3>1. /\ q \subseteq Allowed(n, c)
          /\ Tracked(tracker[n], c) \/ c \in H
      BY <1>3, <2>3 DEF WorkerChange
    <3>2. Tracked(tracker[n], c) => IsEnd(n, c)
      BY <1>2, TrackedRecorded DEF OwnEnds
    <3>3. c \in H => IsEnd(n, c)
      BY <1>2, <1>11 DEF Shapes
    <3>4. QED
      BY <3>1, <3>2, <3>3
  <2>4. \A c \in Conns : IF IsEnd(n, c) THEN inbox'[n][c] \in Seq(Items(n, c))
                                        ELSE inbox'[n][c] = <<>>
    BY <1>11
  <2>5. QED
    BY <1>1, <1>3, <2>1, <2>2, <2>3, <2>4 DEF OwnEnds
<1>6. ASSUME NEW k \in Nodes, k # n, NEW c \in Conns
      PROVE  /\ DOMAIN inbox'[k] = Conns
             /\ IF IsEnd(k, c) THEN inbox'[k][c] \in Seq(Items(k, c)) ELSE inbox'[k][c] = <<>>
             /\ \A kinds : Has(k, c, kinds) => Has(k, c, kinds)'
             /\ Has(k, c, Established)' => Has(k, c, Established)
             /\ \A i \in DOMAIN inbox'[k][c] :
                    (i \in DOMAIN inbox[k][c] /\ inbox'[k][c][i] = inbox[k][c][i])
                    \/ inbox'[k][c][i].kind \notin Established
             /\ c \in sockets[n] /\ c \in sockets[k] /\ c \in closing =>
                    Has(k, c, {"Disconnected"})'
             /\ c \in sockets[n] /\ c \in sockets[k] /\ c \in DOMAIN frames
                /\ frames[c] = <<HelloFrame(n)>> => Has(k, c, {"Hello"})'
  <2>1. /\ DOMAIN inbox'[k] = Conns
        /\ IF IsEnd(k, c) THEN inbox'[k][c] \in Seq(Items(k, c)) ELSE inbox'[k][c] = <<>>
        /\ \A i \in DOMAIN inbox[k][c] :
               i \in DOMAIN inbox'[k][c] /\ inbox'[k][c][i] = inbox[k][c][i]
        /\ \A i \in DOMAIN inbox'[k][c] :
               i \in DOMAIN inbox[k][c] \/ inbox'[k][c][i].kind \notin Established
        /\ c \in sockets[n] /\ c \in sockets[k] /\ c \in closing =>
               \E i \in DOMAIN inbox'[k][c] : inbox'[k][c][i].kind = "Disconnected"
        /\ c \in sockets[n] /\ c \in sockets[k] /\ c \in DOMAIN frames
           /\ frames[c] = <<HelloFrame(n)>> =>
               \E i \in DOMAIN inbox'[k][c] : inbox'[k][c][i].kind = "Hello"
    BY <1>4, <1>6, NetworkReaches
  <2>2. QED
    BY <2>1 DEF Has
<1>7. ASSUME NEW k \in Nodes, k # n PROVE OwnEnds(k)'
  <2>1. tracker'[k] = tracker[k] /\ sockets'[k] = sockets[k] /\ OwnEnds(k)
    BY <1>2, <1>3, <1>7
  <2>2. \A c \in Conns : IF IsEnd(k, c) THEN inbox'[k][c] \in Seq(Items(k, c))
                                        ELSE inbox'[k][c] = <<>>
    BY <1>6, <1>7
  <2>3. DOMAIN inbox'[k] = Conns
    <3>1. CASE Conns = {}
      BY <1>7 DEF Network
    <3>2. CASE Conns # {}
      BY <1>6, <1>7, <3>2
    <3>3. QED
      BY <3>1, <3>2
  <2>4. QED
    BY <1>1, <2>1, <2>2, <2>3 DEF OwnEnds
<1>8. ASSUME NEW c \in Conns, IsEnd(n, c) PROVE EndInv(n, c)'
  <2>0. PICK m \in Nodes : m = OtherEnd(n, c)
    BY <1>2, <1>8, TwoEnds
  <2>1. m \in Nodes /\ m # n /\ sockets'[m] = sockets[m] /\ EndInv(n, c)
    BY <1>2, <1>3, <1>8, <2>0, TwoEnds DEF Ends
  <2>2. /\ \A i \in DOMAIN inbox'[n][c] : \E j \in DOMAIN inbox[n][c] :
               inbox'[n][c][i] = inbox[n][c][j] /\ (c \in H \/ i > 1 => j > 1)
        /\ \A j \in DOMAIN inbox[n][c] :
               \/ \E i \in DOMAIN inbox'[n][c] : inbox'[n][c][i] = inbox[n][c][j]
               \/ c \in H /\ inbox[n][c][j] = Head(inbox[n][c])
    BY <1>11
  <2> DEFINE first == Head(inbox[n][c]).kind
  <2>3. \A kinds : Has(n, c, kinds) => Has(n, c, kinds)' \/ (c \in H /\ first \in kinds)
    BY <1>3, <2>2 DEF Has
  <2>4. Has(n, c, Established)' => Has(n, c, Established) /\ c \notin H
    BY <1>3, <2>1, <2>2 DEF Has, EndInv
  <2>5. \A i \in DOMAIN inbox'[n][c] : i > 1 => inbox'[n][c][i].kind \notin Established
    BY <1>3, <2>1, <2>2 DEF EndInv
  <2>6. /\ Tracked(t, c) => /\ c \notin closing
                            /\ Tracked(tracker[n], c) \/ (c \in H /\ first \in Established)
        /\ Tracked(tracker[n], c) /\ c \notin closing =>
               /\ Tracked(t, c)
               /\ PeerFor(tracker[n], c) = {m} => PeerFor(t, c) = {m}
        /\ c \in closing => Tracked(tracker[n], c) \/ c \in H
        /\ c \in H /\ c \notin closing =>
               /\ first # "Disconnected"
               /\ first \in Established => Tracked(t, c)
               /\ first = "Hello" => PeerFor(t, c) = {m}
    <3>1. Tracked(t, c) => \E q : Recorded(t, c, q)
      BY TrackedRecorded
    <3>2. QED
      BY <2>0, <3>1 DEF WorkerChange
  <2>7. Has(m, c, Established) => Has(m, c, Established)'
    <3>1. \A kinds : Has(m, c, kinds) => Has(m, c, kinds)'
      BY <1>6, <2>1
    <3>2. QED
      BY <3>1
  <2>8. c \in H /\ first \in Established => Has(n, c, Established)
    <3>1. ASSUME c \in H, first \in Established PROVE 1 \in DOMAIN inbox[n][c] /\ first = inbox[n][c][1].kind
      <4>1. inbox[n][c] \in Seq(Items(n, c)) /\ inbox[n][c] # <<>>
        BY <1>2, <1>8, <3>1 DEF OwnEnds, WorkerChange
      <4>2. QED
        BY <4>1, EmptySeq
    <3>2. QED
      BY <3>1 DEF Has
  <2> HIDE DEF first
  <2>9. /\ (c \in sockets[n] /\ c \notin sockets[m]) => Has(n, c, {"Disconnected"})
        /\ c \in sockets[n] => Has(n, c, Established) \/ Tracked(tracker[n], c)
        /\ Tracked(tracker[n], c) => c \in sockets[n] \/ Has(n, c, {"Disconnected"})
        /\ Has(n, c, Established) =>
               ~Tracked(tracker[n], c) /\ (c \in sockets[n] \/ Has(n, c, {"Disconnected"}))
        /\ c \in sockets[n] /\ c \in sockets[m] =>
               \/ PeerFor(tracker[n], c) = {m}
               \/ Has(n, c, {"Hello"})
               \/ Has(m, c, Established)
    BY <2>0, <2>1 DEF EndInv
  <2>10. c \in sockets'[n] <=> c \in sockets[n] /\ c \notin closing
    BY <1>3
  <2>11. "Disconnected" \notin Established /\ "Hello" \notin Established
    BY DEF Established
  <2>12. c \in sockets'[n] /\ c \notin sockets[m] => Has(n, c, {"Disconnected"})'
    BY <2>3, <2>6, <2>9, <2>10
  <2>13. c \in sockets'[n] => Has(n, c, Established)' \/ Tracked(t, c)
    BY <2>3, <2>6, <2>9, <2>10
  <2>14. Tracked(t, c) => c \in sockets'[n] \/ Has(n, c, {"Disconnected"})'
    BY <2>3, <2>6, <2>8, <2>9, <2>10, <2>11
  <2>15. Has(n, c, Established)' =>
             ~Tracked(t, c) /\ (c \in sockets'[n] \/ Has(n, c, {"Disconnected"})')
    BY <2>3, <2>4, <2>6, <2>9, <2>10
  <2>16. c \in sockets'[n] /\ c \in sockets[m] =>
             \/ PeerFor(t, c) = {m} \/ Has(n, c, {"Hello"})' \/ Has(m, c, Established)'
    <3>1. PeerFor(tracker[n], c) = {m} => Tracked(tracker[n], c)
      <4>1. TrackerOK(tracker[n])
        BY <1>2 DEF OwnEnds, SoundTracker
      <4>2. ~Tracked(tracker[n], c) => PeerFor(tracker[n], c) = {}
        BY <4>1, PeerOfRecorded
      <4>3. QED
        BY <4>2
    <3>2. Has(n, c, {"Hello"}) => Has(n, c, {"Hello"})' \/ (c \in H /\ first \in {"Hello"})
      BY <2>3
    <3>3. first \in {"Hello"} => first = "Hello"
      OBVIOUS
    <3>4. QED
      BY <2>6, <2>7, <2>9, <2>10, <3>1, <3>2, <3>3
  <2>17. QED
    BY <1>1, <1>3, <2>0, <2>1, <2>5, <2>12, <2>13, <2>14, <2>15, <2>16 DEF EndInv
<1>9. ASSUME NEW k \in Nodes, k # n, NEW c \in Conns, IsEnd(k, c) PROVE EndInv(k, c)'
  <2>0. PICK m \in Nodes : m = OtherEnd(k, c)
    BY <1>2, <1>9, TwoEnds
  <2>1. m \in Nodes /\ m # k /\ EndInv(k, c) /\ tracker'[k] = tracker[k] /\ sockets'[k] = sockets[k]
    BY <1>2, <1>3, <1>9, <2>0, TwoEnds DEF Ends
  <2>2. /\ \A kinds : Has(k, c, kinds) => Has(k, c, kinds)'
        /\ Has(k, c, Established)' => Has(k, c, Established)
        /\ \A i \in DOMAIN inbox'[k][c] :
               (i \in DOMAIN inbox[k][c] /\ inbox'[k][c][i] = inbox[k][c][i])
               \/ inbox'[k][c][i].kind \notin Established
        /\ c \in sockets[n] /\ c \in sockets[k] /\ c \in closing =>
               Has(k, c, {"Disconnected"})'
        /\ c \in sockets[n] /\ c \in sockets[k] /\ c \in DOMAIN frames
           /\ frames[c] = <<HelloFrame(n)>> => Has(k, c, {"Hello"})'
    BY <1>6, <1>9
  <2>3. \A i \in DOMAIN inbox'[k][c] : i > 1 => inbox'[k][c][i].kind \notin Established
    BY <2>1, <2>2 DEF EndInv
  <2>4. c \in sockets[k] /\ c \notin sockets'[m] => Has(k, c, {"Disconnected"})'
    <3>1. CASE m = n
      BY <1>3, <2>0, <2>1, <2>2, <3>1 DEF EndInv
    <3>2. CASE m # n
      BY <1>3, <2>0, <2>1, <2>2, <3>2 DEF EndInv
    <3>3. QED
      BY <3>1, <3>2
  <2>5. c \in sockets[k] /\ c \in sockets'[m] /\ Has(m, c, Established) =>
            Has(m, c, Established)' \/ Has(k, c, {"Hello"})'
    <3>1. CASE m # n
      BY <1>6, <2>1, <3>1
    <3>2. CASE m = n
      <4> SUFFICES ASSUME c \in sockets[k], c \in sockets[n], c \notin closing,
                          Has(n, c, Established)
                   PROVE  Has(n, c, Established)' \/ Has(k, c, {"Hello"})'
        BY <1>3, <3>2
      <4>1. \A j \in DOMAIN inbox[n][c] :
                \/ \E i \in DOMAIN inbox'[n][c] : inbox'[n][c][i] = inbox[n][c][j]
                \/ c \in H /\ inbox[n][c][j] = Head(inbox[n][c])
        BY <1>11
      <4>2. CASE c \in H /\ Head(inbox[n][c]).kind \in Established
        <5>1. c \in DOMAIN frames /\ frames[c] = <<HelloFrame(n)>>
          BY <4>2 DEF WorkerChange
        <5>2. QED
          BY <2>2, <5>1
      <4>3. CASE ~(c \in H /\ Head(inbox[n][c]).kind \in Established)
        BY <1>3, <4>1, <4>3 DEF Has
      <4>4. QED
        BY <4>2, <4>3
    <3>3. QED
      BY <3>1, <3>2
  <2>6. c \in sockets[k] /\ c \in sockets'[m] => c \in sockets[m]
    BY <1>3, <2>1
  <2>7. /\ c \in sockets[k] => Has(k, c, Established) \/ Tracked(tracker[k], c)
        /\ Tracked(tracker[k], c) => c \in sockets[k] \/ Has(k, c, {"Disconnected"})
        /\ Has(k, c, Established) =>
               ~Tracked(tracker[k], c) /\ (c \in sockets[k] \/ Has(k, c, {"Disconnected"}))
        /\ c \in sockets[k] /\ c \in sockets[m] =>
               \/ PeerFor(tracker[k], c) = {m}
               \/ Has(k, c, {"Hello"})
               \/ Has(m, c, Established)
    BY <2>0, <2>1 DEF EndInv
  <2>8. /\ c \in sockets[k] => Has(k, c, Established)' \/ Tracked(tracker[k], c)
        /\ Tracked(tracker[k], c) => c \in sockets[k] \/ Has(k, c, {"Disconnected"})'
        /\ Has(k, c, Established)' =>
               ~Tracked(tracker[k], c) /\ (c \in sockets[k] \/ Has(k, c, {"Disconnected"})')
    BY <2>2, <2>7
  <2>9. c \in sockets[k] /\ c \in sockets'[m] =>
            \/ PeerFor(tracker[k], c) = {m} \/ Has(k, c, {"Hello"})' \/ Has(m, c, Established)'
    BY <2>2, <2>5, <2>6, <2>7
  <2>10. QED
    BY <1>1, <2>0, <2>1, <2>3, <2>4, <2>8, <2>9 DEF EndInv
<1>10. QED
  <2>1. \A m \in Nodes : OwnEnds(m)'
    BY <1>5, <1>7
  <2>2. \A m \in Nodes, c \in Conns : IsEnd(m, c) => EndInv(m, c)'
    BY <1>8, <1>9
  <2>3. QED
    BY <1>1, <2>1, <2>2 DEF Ends

-----------------------------------------------------------------------------
(* The steps of the worker *)

\* What holds of the item a worker handles: it comes from the other end.
LEMMA FirstItem ==
    ASSUME Ends, NEW n \in Nodes, NEW c \in DOMAIN link, inbox[n][c] # <<>>
    PROVE  /\ c \in Conns /\ IsEnd(n, c) /\ Head(inbox[n][c]) \in Items(n, c)
           /\ Head(inbox[n][c]).kind \in Established => ~Tracked(tracker[n], c)
           /\ DOMAIN Rest(n, c) = Conns /\ Rest(n, c)[c] = Tail(inbox[n][c])
           /\ \A d \in Conns : d # c => Rest(n, c)[d] = inbox[n][d]
<1>1. c \in Conns /\ OwnEnds(n)
  BY DEF Ends, Shapes
<1>2. IsEnd(n, c) /\ inbox[n][c] \in Seq(Items(n, c)) /\ DOMAIN inbox[n] = Conns
  BY <1>1 DEF OwnEnds
<1>3. EndInv(n, c)
  BY <1>1, <1>2 DEF Ends
<1>4. Head(inbox[n][c]) \in Items(n, c) /\ Head(inbox[n][c]) = inbox[n][c][1]
      /\ 1 \in DOMAIN inbox[n][c]
  <2> DEFINE s == inbox[n][c]
             S == Items(n, c)
  <2>1. s \in Seq(S) /\ s # <<>>
    BY <1>2
  <2> HIDE DEF s, S
  <2>2. Len(s) \in Nat \ {0} /\ DOMAIN s = 1 .. Len(s) /\ Head(s) \in S /\ Head(s) = s[1]
    BY <2>1, EmptySeq, HeadTailProperties
  <2>3. Head(s) \in S /\ Head(s) = s[1] /\ 1 \in DOMAIN s
    BY <2>2
  <2>4. QED
    BY <2>3 DEF s, S
<1>5. Head(inbox[n][c]).kind \in Established => ~Tracked(tracker[n], c)
  BY <1>3, <1>4 DEF EndInv, Has
<1>6. QED
  BY <1>1, <1>2, <1>4, <1>5 DEF Rest

\* Closing endpoints that are tracked, or the one whose item is handled.
LEMMA DroppingChange ==
    ASSUME Ends, NEW n \in Nodes, NEW H \in SUBSET Conns, NEW rest, NEW frames, NEW closing,
           \A c \in Conns : IF c \in H THEN inbox[n][c] # <<>> /\ rest[c] = Tail(inbox[n][c])
                                       ELSE rest[c] = inbox[n][c],
           DOMAIN rest = Conns, \A c \in DOMAIN frames : frames[c] \in Seq(FramesFrom(n)),
           H \subseteq closing, \A c \in closing : Tracked(tracker[n], c) \/ c \in H
    PROVE  WorkerChange(n, H, rest, frames, closing, Dropping(tracker[n], closing))
<1> DEFINE t == Dropping(tracker[n], closing)
<1>1. OwnEnds(n) /\ SoundTracker(tracker[n]) /\ TrackerOK(tracker[n])
  BY DEF Ends, OwnEnds, SoundTracker
<1>2. /\ SoundTracker(t) /\ SameOwner(tracker[n], t)
      /\ \A ep, q : Recorded(t, ep, q) <=> Recorded(tracker[n], ep, q) /\ ep \notin closing
  BY <1>1, DroppingOf, DroppingSound
<1> HIDE DEF t
<1>3. t.self = n
  BY <1>1, <1>2 DEF SameOwner, OwnEnds
<1>4. ASSUME NEW c, NEW q, Recorded(t, c, q)
      PROVE  c \notin closing /\ q \subseteq Allowed(n, c) /\ Tracked(tracker[n], c)
  BY <1>1, <1>2, <1>4, TrackedRecorded DEF OwnEnds
<1>5. ASSUME NEW c, Tracked(tracker[n], c), c \notin closing
      PROVE  /\ Tracked(t, c)
             /\ PeerFor(tracker[n], c) = {OtherEnd(n, c)} => PeerFor(t, c) = {OtherEnd(n, c)}
  <2>1. Recorded(tracker[n], c, PeerFor(tracker[n], c))
    BY <1>1, <1>5, PeerOfRecorded
  <2>2. Recorded(t, c, PeerFor(tracker[n], c))
    BY <1>2, <1>5, <2>1
  <2>3. Tracked(t, c)
    BY <2>2, TrackedRecorded
  <2>4. TrackerOK(t)
    BY <1>2 DEF SoundTracker
  <2>5. PeerFor(t, c) = PeerFor(tracker[n], c)
    BY <2>2, <2>4, PeerOfRecorded
  <2>6. QED
    BY <2>3, <2>5
<1>6. QED
  BY <1>2, <1>3, <1>4, <1>5 DEF WorkerChange, t

\* Everything the proofs keep: of the ends, of what the runtime is told, and of the
\* events it gets.
Numbered ==
    /\ taken \in [Nodes -> [Nodes -> Seq([seq : Nat, what : Whats])]]
    /\ \A n, p \in Nodes : taken[n][p] # <<>> => plan.config[p] = plan.config[n]
    /\ \A n \in running, p \in Nodes : \A i \in DOMAIN taken[n][p] :
           taken[n][p][i].seq <= tracker[n].highest[p]
    /\ EventsInOrder

TransportInv ==
    /\ Ends
    /\ announced \in [Nodes -> [Nodes -> Int]] /\ AnnouncedWhileConnected
    /\ Numbered

\* A step of the worker that tells the runtime what becomes of the peers, and
\* accepts no event.
WorkerMoves(n, H, rest, frames, closing, t) ==
    /\ H \in SUBSET Conns /\ WorkerChange(n, H, rest, frames, closing, t)
    /\ SameOwner(tracker[n], t) /\ Network(n, rest, frames, closing)
    /\ tracker' = [tracker EXCEPT ![n] = t] \/ (tracker' = tracker /\ t = tracker[n])
    /\ UNCHANGED <<plan, link, running, taken>>
    /\ next' \in [Nodes -> Nat] /\ DOMAIN command' = Nodes
    /\ \A m \in Nodes : command'[m] \subseteq command[m]
    /\ announced' \in [Nodes -> [Nodes -> Int]]
    /\ \A m, p \in Nodes : m # n => announced'[m][p] = announced[m][p]
    /\ \A p \in Nodes : announced'[n][p] = IF IsConnected(t, p) THEN 1 ELSE 0

LEMMA WorkerStep ==
    ASSUME TransportInv, NEW n \in Nodes, NEW H, NEW rest, NEW frames, NEW closing, NEW t,
           WorkerMoves(n, H, rest, frames, closing, t)
    PROVE  TransportInv'
<1>0. /\ H \in SUBSET Conns /\ WorkerChange(n, H, rest, frames, closing, t)
      /\ SameOwner(tracker[n], t) /\ Network(n, rest, frames, closing)
      /\ tracker' = [tracker EXCEPT ![n] = t] \/ (tracker' = tracker /\ t = tracker[n])
      /\ UNCHANGED <<plan, link, running, taken>>
      /\ next' \in [Nodes -> Nat] /\ DOMAIN command' = Nodes
      /\ \A m \in Nodes : command'[m] \subseteq command[m]
      /\ announced' \in [Nodes -> [Nodes -> Int]]
      /\ \A m, p \in Nodes : m # n => announced'[m][p] = announced[m][p]
      /\ \A p \in Nodes : announced'[n][p] = IF IsConnected(t, p) THEN 1 ELSE 0
  BY DEF WorkerMoves
<1>1. Ends /\ Shapes /\ DOMAIN tracker = Nodes /\ sockets \in [Nodes -> SUBSET Conns]
  BY DEF TransportInv, Ends, Shapes
<1>2. DOMAIN tracker' = Nodes /\ \A m \in Nodes : tracker'[m] = IF m = n THEN t ELSE tracker[m]
  BY <1>0, <1>1
<1>3. Shapes'
  <2>1. sockets' \in [Nodes -> SUBSET Conns] /\ DOMAIN inbox' = Nodes
    BY <1>0, <1>1 DEF Network
  <2>2. \A m \in Nodes : \A cmd \in command'[m] : cmd.what \in Whats
    BY <1>0, <1>1 DEF Shapes
  <2>3. QED
    BY <1>0, <1>1, <1>2, <2>1, <2>2 DEF Shapes
<1>4. Ends'
  BY <1>0, <1>1, <1>2, <1>3, WorkerKeepsEnds
<1>5. AnnouncedWhileConnected'
  BY <1>0, <1>2 DEF TransportInv, AnnouncedWhileConnected
<1>6. Numbered'
  <2>1. \A m \in Nodes : tracker'[m].highest = tracker[m].highest
    BY <1>0, <1>2 DEF SameOwner
  <2>2. running \subseteq Nodes
    BY <1>1 DEF Shapes
  <2>3. Numbered /\ EventsInOrder /\ taken' = taken /\ running' = running
    BY <1>0 DEF TransportInv, Numbered
  <2>4. EventsInOrder'
    BY <2>3 DEF EventsInOrder
  <2>5. \A m \in running', p \in Nodes : \A i \in DOMAIN taken'[m][p] :
            taken'[m][p][i].seq <= tracker'[m].highest[p]
    <3>1. \A m \in running, p \in Nodes : \A i \in DOMAIN taken[m][p] :
              taken[m][p][i].seq <= tracker[m].highest[p]
      BY <2>3 DEF Numbered
    <3>2. QED
      BY <2>1, <2>2, <2>3, <3>1
  <2>6. \A m, p \in Nodes : taken'[m][p] # <<>> => plan'.config[p] = plan'.config[m]
    BY <1>0, <2>3 DEF Numbered
  <2>7. taken' \in [Nodes -> [Nodes -> Seq([seq : Nat, what : Whats])]]
    BY <1>0, <2>3 DEF Numbered
  <2>8. QED
    BY <2>4, <2>5, <2>6, <2>7 DEF Numbered
<1>7. QED
  BY <1>0, <1>4, <1>5, <1>6 DEF TransportInv

\* close_endpoint: what is announced of the peers that go.
LEMMA CloseTold ==
    ASSUME TransportInv, NEW n \in Nodes, NEW eps, Announce(n, {}, Gone(tracker[n], eps))
    PROVE  /\ announced' \in [Nodes -> [Nodes -> Int]]
           /\ \A m, p \in Nodes : m # n => announced'[m][p] = announced[m][p]
           /\ \A p \in Nodes : announced'[n][p] =
                  IF IsConnected(Dropping(tracker[n], eps), p) THEN 1 ELSE 0
<1>1. SoundTracker(tracker[n])
  BY DEF TransportInv, Ends, OwnEnds
<1>2. \A p : IsConnected(Dropping(tracker[n], eps), p)
                <=> IsConnected(tracker[n], p) /\ p \notin Gone(tracker[n], eps)
  BY <1>1, GoneOf
<1>3. \A p : p \in Gone(tracker[n], eps) => IsConnected(tracker[n], p)
  BY <1>1, GoneOf, ConnectedRecorded
<1>4. \A p \in Nodes : announced[n][p] = IF IsConnected(tracker[n], p) THEN 1 ELSE 0
  BY DEF TransportInv, AnnouncedWhileConnected
<1> DEFINE gone == Gone(tracker[n], eps)
<1> HIDE DEF gone
<1>5. announced' = [announced EXCEPT ![n] =
          [p \in Nodes |-> announced[n][p] + 0 - (IF p \in gone THEN 1 ELSE 0)]]
  BY DEF Announce, gone
<1>6. announced \in [Nodes -> [Nodes -> Int]]
  BY DEF TransportInv
<1>7. announced' \in [Nodes -> [Nodes -> Int]]
  BY <1>5, <1>6
<1>8. \A m, p \in Nodes : m # n => announced'[m][p] = announced[m][p]
  BY <1>5, <1>6
<1>9. \A p \in Nodes : announced'[n][p] = announced[n][p] + 0 - (IF p \in gone THEN 1 ELSE 0)
  BY <1>5, <1>6
<1>10. \A p \in Nodes : announced'[n][p] =
           IF IsConnected(tracker[n], p) /\ p \notin gone THEN 1 ELSE 0
  BY <1>3, <1>4, <1>9 DEF gone
<1>11. QED
  BY <1>2, <1>7, <1>8, <1>10 DEF gone

\* The handler closes the connection whose item it takes.
LEMMA CloseStep ==
    ASSUME TransportInv, NEW n \in Nodes, NEW c \in DOMAIN link, inbox[n][c] # <<>>,
           tracker' = [tracker EXCEPT ![n] = Without(@, c)],
           Announce(n, {}, Gone(tracker[n], {c})), Network(n, Rest(n, c), Silence, {c}),
           UNCHANGED <<plan, next, link, command, running, taken>>
    PROVE  TransportInv'
<1> DEFINE t == Dropping(tracker[n], {c})
<1>1. Ends /\ Shapes /\ TrackerOK(tracker[n])
  BY DEF TransportInv, Ends, OwnEnds, SoundTracker
<1>2. /\ c \in Conns /\ DOMAIN Rest(n, c) = Conns /\ Rest(n, c)[c] = Tail(inbox[n][c])
      /\ \A d \in Conns : d # c => Rest(n, c)[d] = inbox[n][d]
  BY <1>1, FirstItem
<1>3. /\ {c} \in SUBSET Conns /\ {c} \subseteq {c}
      /\ \A d \in Conns : IF d \in {c} THEN inbox[n][d] # <<>> /\ Rest(n, c)[d] = Tail(inbox[n][d])
                                       ELSE Rest(n, c)[d] = inbox[n][d]
      /\ \A d \in DOMAIN Silence : Silence[d] \in Seq(FramesFrom(n))
      /\ \A d \in {c} : Tracked(tracker[n], d) \/ d \in {c}
  BY <1>2 DEF Silence
<1>4. WorkerChange(n, {c}, Rest(n, c), Silence, {c}, t)
  BY <1>1, <1>2, <1>3, DroppingChange
<1>5. SameOwner(tracker[n], t)
  BY <1>1, DroppingOf
<1>6. tracker' = [tracker EXCEPT ![n] = t]
  BY DEF Without
<1>7. /\ announced' \in [Nodes -> [Nodes -> Int]]
      /\ \A m, p \in Nodes : m # n => announced'[m][p] = announced[m][p]
      /\ \A p \in Nodes : announced'[n][p] = IF IsConnected(t, p) THEN 1 ELSE 0
  BY CloseTold
<1>8. next' \in [Nodes -> Nat] /\ DOMAIN command' = Nodes
      /\ \A m \in Nodes : command'[m] \subseteq command[m]
  BY <1>1 DEF Shapes
<1> HIDE DEF t
<1>9. WorkerMoves(n, {c}, Rest(n, c), Silence, {c}, t)
  BY <1>3, <1>4, <1>5, <1>6, <1>7, <1>8 DEF WorkerMoves
<1>10. QED
  BY <1>9, WorkerStep

\* handle_network_event for a connection that is established or ends.
LEMMA EstablishedStep ==
    ASSUME TransportInv, NEW n \in Nodes, NEW c \in DOMAIN link, inbox[n][c] # <<>>,
           NEW dir \in {"Outgoing", "Incoming"}, HandleEstablished(n, c, dir),
           UNCHANGED <<plan, next, link, command, running>>
    PROVE  TransportInv'
<1>1. CASE Close(n, c, Rest(n, c), Silence)
  <2>1. UNCHANGED taken
    BY DEF HandleEstablished
  <2>2. QED
    BY <1>1, <2>1, CloseStep DEF Close
<1>2. CASE /\ tracker' = [tracker EXCEPT ![n] = RecordEndpoint(@, c, dir)]
           /\ Network(n, Rest(n, c), [ep \in {c} |-> <<HelloFrame(n)>>], {})
           /\ UNCHANGED <<upward, announced>>
  <2> DEFINE t == RecordEndpoint(tracker[n], c, dir)
             frames == [ep \in {c} |-> <<HelloFrame(n)>>]
             kind == Head(inbox[n][c]).kind
  <2>1. Ends /\ Shapes /\ OwnEnds(n) /\ SoundTracker(tracker[n]) /\ TrackerOK(tracker[n])
    BY DEF TransportInv, Ends, OwnEnds, SoundTracker
  <2>2. /\ c \in Conns /\ DOMAIN Rest(n, c) = Conns /\ Rest(n, c)[c] = Tail(inbox[n][c])
        /\ \A d \in Conns : d # c => Rest(n, c)[d] = inbox[n][d]
        /\ IsEnd(n, c)
    BY <2>1, FirstItem
  <2>3. kind \in Established /\ kind # "Disconnected" /\ kind # "Hello"
    BY DEF HandleEstablished, Established
  <2>4. /\ SoundTracker(t) /\ SameOwner(tracker[n], t)
        /\ \A e, q : Recorded(t, e, q)
               <=> Recorded(tracker[n], e, q) \/ (e = c /\ q = {} /\ ~Tracked(tracker[n], c))
    BY <2>1, <2>2, RecordEndpointOf
  <2>5. HelloFrame(n) \in FramesFrom(n)
    BY DEF HelloFrame, FramesFrom
  <2>6. \A d \in DOMAIN frames : frames[d] \in Seq(FramesFrom(n))
    BY <2>5
  <2>7. c \in DOMAIN frames /\ frames[c] = <<HelloFrame(n)>>
    OBVIOUS
  <2>8. tracker' = [tracker EXCEPT ![n] = t] /\ Network(n, Rest(n, c), frames, {})
    BY <1>2
  <2> HIDE DEF t, frames, kind
  <2>9. t.self = n
    BY <2>1, <2>4 DEF OwnEnds, SameOwner
  <2>10. ASSUME NEW d, NEW q, Recorded(t, d, q)
         PROVE  q \subseteq Allowed(n, d) /\ (Tracked(tracker[n], d) \/ (d \in {c} /\ kind \in Established))
    BY <2>1, <2>3, <2>4, <2>10, TrackedRecorded DEF OwnEnds
  <2>11. ASSUME NEW d, Tracked(tracker[n], d)
         PROVE  Tracked(t, d) /\ PeerFor(t, d) = PeerFor(tracker[n], d)
    <3>1. Recorded(tracker[n], d, PeerFor(tracker[n], d))
      BY <2>1, <2>11, PeerOfRecorded
    <3>2. Recorded(t, d, PeerFor(tracker[n], d))
      BY <2>4, <3>1
    <3>3. TrackerOK(t)
      BY <2>4 DEF SoundTracker
    <3>4. QED
      BY <3>2, <3>3, PeerOfRecorded, TrackedRecorded
  <2>12. Tracked(t, c)
    <3>1. CASE Tracked(tracker[n], c)
      BY <2>11, <3>1
    <3>2. CASE ~Tracked(tracker[n], c)
      BY <2>4, <3>2, TrackedRecorded
    <3>3. QED
      BY <3>1, <3>2
  <2>13. WorkerChange(n, {c}, Rest(n, c), frames, {}, t)
    <3>1. \A d \in Conns : IF d \in {c} THEN inbox[n][d] # <<>> /\ Rest(n, c)[d] = Tail(inbox[n][d])
                                        ELSE Rest(n, c)[d] = inbox[n][d]
      BY <2>2
    <3>2. \A d, q : Recorded(t, d, q) =>
              /\ d \notin {} /\ q \subseteq Allowed(n, d)
              /\ Tracked(tracker[n], d) \/ (d \in {c} /\ Head(inbox[n][d]).kind \in Established)
      BY <2>10 DEF kind
    <3>3. \A d : Tracked(tracker[n], d) /\ d \notin {} =>
              /\ Tracked(t, d)
              /\ PeerFor(tracker[n], d) = {OtherEnd(n, d)} => PeerFor(t, d) = {OtherEnd(n, d)}
      BY <2>11
    <3>4. \A d \in {c} : d \notin {} =>
              /\ Head(inbox[n][d]).kind # "Disconnected"
              /\ Head(inbox[n][d]).kind \in Established =>
                     Tracked(t, d) /\ d \in DOMAIN frames /\ frames[d] = <<HelloFrame(n)>>
              /\ Head(inbox[n][d]).kind = "Hello" => PeerFor(t, d) = {OtherEnd(n, d)}
      BY <2>3, <2>7, <2>12 DEF kind
    <3>5. QED
      BY <2>2, <2>4, <2>6, <2>9, <3>1, <3>2, <3>3, <3>4 DEF WorkerChange
  <2>14. \A p : IsConnected(t, p) <=> IsConnected(tracker[n], p)
    BY <2>4, ConnectedRecorded
  <2>15. /\ announced' \in [Nodes -> [Nodes -> Int]]
         /\ \A m, p \in Nodes : m # n => announced'[m][p] = announced[m][p]
         /\ \A p \in Nodes : announced'[n][p] = IF IsConnected(t, p) THEN 1 ELSE 0
    BY <1>2, <2>14 DEF TransportInv, AnnouncedWhileConnected
  <2>16. /\ next' \in [Nodes -> Nat] /\ DOMAIN command' = Nodes /\ {c} \in SUBSET Conns
         /\ \A m \in Nodes : command'[m] \subseteq command[m]
    BY <2>1, <2>2 DEF Shapes
  <2>17. UNCHANGED taken
    BY DEF HandleEstablished
  <2>18. UNCHANGED <<plan, link, running, taken>>
    BY <2>17
  <2>19. tracker' = [tracker EXCEPT ![n] = t] \/ (tracker' = tracker /\ t = tracker[n])
    BY <2>8
  <2>20. SameOwner(tracker[n], t) /\ Network(n, Rest(n, c), frames, {})
    BY <2>4, <2>8
  <2>21. WorkerMoves(n, {c}, Rest(n, c), frames, {}, t)
    BY <2>13, <2>15, <2>16, <2>18, <2>19, <2>20 DEF WorkerMoves
  <2>22. QED
    BY <2>21, WorkerStep
<1>3. QED
  BY <1>1, <1>2 DEF HandleEstablished

\* handle_peer_hello: the connection is closed, or authenticated for its other end.
LEMMA HelloStep ==
    ASSUME TransportInv, NEW n \in Nodes, NEW c \in DOMAIN link, inbox[n][c] # <<>>,
           HandleHello(n, c), UNCHANGED <<plan, next, link, command, running>>
    PROVE  TransportInv'
<1> DEFINE f == Head(inbox[n][c])
           a == Authentication(tracker[n], c, f.sender)
<1>1. Ends /\ Shapes /\ OwnEnds(n) /\ SoundTracker(tracker[n]) /\ TrackerOK(tracker[n])
  BY DEF TransportInv, Ends, OwnEnds, SoundTracker
<1>2. /\ c \in Conns /\ DOMAIN Rest(n, c) = Conns /\ Rest(n, c)[c] = Tail(inbox[n][c])
      /\ \A d \in Conns : d # c => Rest(n, c)[d] = inbox[n][d]
      /\ IsEnd(n, c) /\ f \in Items(n, c)
  BY <1>1, FirstItem
<1>3. f.kind = "Hello" /\ UNCHANGED taken
  BY DEF HandleHello
<1>4. PICK p \in Nodes : p = OtherEnd(n, c) /\ p # n
  BY <1>1, <1>2, TwoEnds
<1>5. f.sender = p /\ f.config = plan.config[p]
  BY <1>2, <1>3, <1>4 DEF Items, FramesFrom, Notices
<1>6. p # tracker[n].self
  BY <1>1, <1>4 DEF OwnEnds
<1>7. CASE Incompatible(n, f)
  <2>1. /\ tracker' = [tracker EXCEPT ![n] = Without(@, c)]
        /\ Announce(n, {}, Gone(tracker[n], {c}))
        /\ Network(n, Rest(n, c), Silence, {c})
    BY <1>7 DEF HandleHello
  <2>2. QED
    BY <1>3, <2>1, CloseStep
<1>8. CASE ~Incompatible(n, f)
  <2>1. /\ tracker' = [tracker EXCEPT ![n] = a.tracker]
        /\ Announce(n, IF a.isNew THEN {p} ELSE {}, {})
        /\ Network(n, Rest(n, c), Silence, a.close)
    BY <1>5, <1>8 DEF HandleHello
  <2>2. {p} \subseteq Allowed(n, c)
    BY <1>4, <1>5, <1>8 DEF Allowed, Incompatible
  <2>3. \A d \in Conns : IF d \in {c} THEN inbox[n][d] # <<>> /\ Rest(n, c)[d] = Tail(inbox[n][d])
                                      ELSE Rest(n, c)[d] = inbox[n][d]
    BY <1>2
  <2>4. \A d \in DOMAIN Silence : Silence[d] \in Seq(FramesFrom(n))
    BY DEF Silence
  <2>5. "Hello" \notin Established /\ {c} \in SUBSET Conns
    BY <1>2 DEF Established
  <2>6. PICK t : t = a.tracker
    OBVIOUS
  <2>7. PICK closing : closing = a.close
    OBVIOUS
  <2>8. PICK isNew : isNew = a.isNew
    OBVIOUS
  <2>9. /\ WorkerChange(n, {c}, Rest(n, c), Silence, closing, t) /\ SameOwner(tracker[n], t)
        /\ \A q \in Nodes :
               (IF IsConnected(t, q) THEN 1 ELSE 0)
                   = (IF IsConnected(tracker[n], q) THEN 1 ELSE 0) + (IF isNew /\ q = p THEN 1 ELSE 0)
    <3>1. CASE ~Tracked(tracker[n], c)
      <4>1. t = tracker[n] /\ closing = {c} /\ isNew = FALSE
        BY <1>5, <1>6, <2>6, <2>7, <2>8, <3>1 DEF Authentication
      <4>2. \A d, q : Recorded(t, d, q) =>
                /\ d \notin closing /\ q \subseteq Allowed(n, d)
                /\ Tracked(tracker[n], d)
        BY <1>1, <3>1, <4>1, TrackedRecorded DEF OwnEnds
      <4>3. SameOwner(tracker[n], t) /\ SoundTracker(t) /\ t.self = n
        BY <1>1, <4>1 DEF SameOwner, OwnEnds
      <4>4. WorkerChange(n, {c}, Rest(n, c), Silence, closing, t)
        BY <1>2, <2>3, <2>4, <4>1, <4>2, <4>3 DEF WorkerChange
      <4>5. QED
        BY <4>1, <4>3, <4>4
    <3>2. CASE Tracked(tracker[n], c)
      <4>1. /\ SoundTracker(t) /\ SameOwner(tracker[n], t)
            /\ \A e, q : Recorded(t, e, q)
                  <=> e \notin closing /\ IF e = c THEN q = {p} ELSE Recorded(tracker[n], e, q)
            /\ \A e \in closing : e = c \/ Recorded(tracker[n], e, {p})
            /\ isNew = ~IsConnected(tracker[n], p)
            /\ IsConnected(t, p)
        <5> DEFINE u == tracker[n]
        <5>1. SoundTracker(u) /\ Tracked(u, c) /\ p # u.self
          BY <1>1, <1>6, <3>2
        <5>2. a = Authentication(u, c, p)
          BY <1>5
        <5> HIDE DEF u, a
        <5>3. LET b == Authentication(u, c, p)
              IN  /\ SoundTracker(b.tracker) /\ SameOwner(u, b.tracker)
                  /\ \A e, q : Recorded(b.tracker, e, q)
                        <=> e \notin b.close /\ IF e = c THEN q = {p} ELSE Recorded(u, e, q)
                  /\ \A e \in b.close : e = c \/ Recorded(u, e, {p})
                  /\ b.isNew = ~IsConnected(u, p)
                  /\ IsConnected(b.tracker, p)
          BY <5>1, AuthenticationOf
        <5>4. QED
          BY <2>6, <2>7, <2>8, <5>2, <5>3 DEF u
      <4>2. t.self = n
        BY <1>1, <4>1 DEF SameOwner, OwnEnds
      <4>3. \A d, q : Recorded(t, d, q) =>
                /\ d \notin closing /\ q \subseteq Allowed(n, d)
                /\ Tracked(tracker[n], d)
        BY <1>1, <2>2, <3>2, <4>1, TrackedRecorded DEF OwnEnds
      <4>4. ASSUME NEW d, Tracked(tracker[n], d), d \notin closing
            PROVE  /\ Tracked(t, d)
                   /\ PeerFor(tracker[n], d) = {OtherEnd(n, d)} => PeerFor(t, d) = {OtherEnd(n, d)}
        <5>1. TrackerOK(t)
          BY <4>1 DEF SoundTracker
        <5>2. CASE d = c
          <6>1. Recorded(t, d, {p})
            BY <4>1, <4>4, <5>2
          <6>2. QED
            BY <1>4, <5>1, <5>2, <6>1, PeerOfRecorded, TrackedRecorded
        <5>3. CASE d # c
          <6>1. Recorded(tracker[n], d, PeerFor(tracker[n], d))
            BY <1>1, <4>4, PeerOfRecorded
          <6>2. Recorded(t, d, PeerFor(tracker[n], d))
            BY <4>1, <4>4, <5>3, <6>1
          <6>3. PeerFor(t, d) = PeerFor(tracker[n], d) /\ Tracked(t, d)
            BY <5>1, <6>2, PeerOfRecorded, TrackedRecorded
          <6>4. QED
            BY <6>3
        <5>4. QED
          BY <5>2, <5>3
      <4>5. \A d \in closing : Tracked(tracker[n], d) \/ d \in {c}
        BY <4>1, TrackedRecorded
      <4>6. c \notin closing => PeerFor(t, c) = {OtherEnd(n, c)}
        <5>1. TrackerOK(t) /\ (c \notin closing => Recorded(t, c, {p}))
          BY <4>1 DEF SoundTracker
        <5>2. QED
          BY <1>4, <5>1, PeerOfRecorded
      <4>7. WorkerChange(n, {c}, Rest(n, c), Silence, closing, t)
        <5>1. \A d \in {c} : d \notin closing =>
                  /\ Head(inbox[n][d]).kind # "Disconnected"
                  /\ Head(inbox[n][d]).kind \in Established =>
                         /\ Tracked(t, d) /\ d \in DOMAIN Silence
                         /\ Silence[d] = <<HelloFrame(n)>>
                  /\ Head(inbox[n][d]).kind = "Hello" => PeerFor(t, d) = {OtherEnd(n, d)}
          BY <1>3, <2>5, <4>6
        <5>2. QED
          BY <1>2, <2>3, <2>4, <4>1, <4>2, <4>3, <4>4, <4>5, <5>1 DEF WorkerChange
      <4>8. ASSUME NEW q \in Nodes, q # p
            PROVE  IsConnected(t, q) <=> IsConnected(tracker[n], q)
        <5>1. {q} # {p}
          BY <4>8
        <5>2. ~Recorded(tracker[n], c, {q})
          <6>1. Recorded(tracker[n], c, {q}) => {q} \subseteq Allowed(n, c)
            BY <1>1 DEF OwnEnds
          <6>2. QED
            BY <1>4, <4>8, <6>1 DEF Allowed
        <5>3. \A e : e \in closing => ~Recorded(tracker[n], e, {q})
          <6> TAKE e
          <6>1. Recorded(tracker[n], e, {q}) => PeerFor(tracker[n], e) = {q}
            BY <1>1, PeerOfRecorded
          <6>2. Recorded(tracker[n], e, {p}) => PeerFor(tracker[n], e) = {p}
            BY <1>1, PeerOfRecorded
          <6>3. QED
            BY <4>1, <5>1, <5>2, <6>1, <6>2
        <5>4. \A e : Recorded(t, e, {q}) <=> Recorded(tracker[n], e, {q})
          BY <4>1, <5>1, <5>2, <5>3
        <5>5. QED
          BY <5>4, ConnectedRecorded
      <4>9. \A q \in Nodes :
                (IF IsConnected(t, q) THEN 1 ELSE 0)
                    = (IF IsConnected(tracker[n], q) THEN 1 ELSE 0)
                          + (IF isNew /\ q = p THEN 1 ELSE 0)
        <5> TAKE q \in Nodes
        <5>1. CASE q # p
          BY <4>8, <5>1
        <5>2. CASE q = p /\ IsConnected(tracker[n], p)
          <6>1. isNew = FALSE /\ IsConnected(t, p)
            BY <4>1, <5>2
          <6>2. QED
            BY <5>2, <6>1
        <5>3. CASE q = p /\ ~IsConnected(tracker[n], p)
          <6>1. isNew = TRUE /\ IsConnected(t, p)
            BY <4>1, <5>3
          <6>2. QED
            BY <5>3, <6>1
        <5>4. QED
          BY <5>1, <5>2, <5>3
      <4>10. QED
        BY <4>1, <4>7, <4>9
    <3>3. QED
      BY <3>1, <3>2
  <2>10. announced \in [Nodes -> [Nodes -> Int]]
         /\ \A q \in Nodes : announced[n][q] = IF IsConnected(tracker[n], q) THEN 1 ELSE 0
    BY DEF TransportInv, AnnouncedWhileConnected
  <2>11. announced' = [announced EXCEPT ![n] =
             [q \in Nodes |-> announced[n][q] + (IF q \in (IF isNew THEN {p} ELSE {}) THEN 1 ELSE 0)
                                  - (IF q \in {} THEN 1 ELSE 0)]]
    BY <2>1, <2>8 DEF Announce
  <2>12. announced' = [announced EXCEPT ![n] =
             [q \in Nodes |-> announced[n][q] + (IF isNew /\ q = p THEN 1 ELSE 0) - 0]]
    <3>1. \A q \in Nodes : (IF q \in (IF isNew THEN {p} ELSE {}) THEN 1 ELSE 0)
                               = (IF isNew /\ q = p THEN 1 ELSE 0)
      OBVIOUS
    <3>2. QED
      BY <2>11, <3>1
  <2>13. /\ announced' \in [Nodes -> [Nodes -> Int]]
         /\ \A m, q \in Nodes : m # n => announced'[m][q] = announced[m][q]
         /\ \A q \in Nodes : announced'[n][q] = IF IsConnected(t, q) THEN 1 ELSE 0
    <3>1. announced' \in [Nodes -> [Nodes -> Int]]
      BY <2>10, <2>12
    <3>2. \A m, q \in Nodes : m # n => announced'[m][q] = announced[m][q]
      BY <2>10, <2>12
    <3>3. \A q \in Nodes : announced'[n][q] = announced[n][q] + (IF isNew /\ q = p THEN 1 ELSE 0) - 0
      BY <2>10, <2>12
    <3>4. \A q \in Nodes : announced'[n][q] = IF IsConnected(t, q) THEN 1 ELSE 0
      <4> TAKE q \in Nodes
      <4> DEFINE was == IF IsConnected(tracker[n], q) THEN 1 ELSE 0
                 is == IF IsConnected(t, q) THEN 1 ELSE 0
                 new == IF isNew /\ q = p THEN 1 ELSE 0
      <4>1. is = was + new
        BY <2>9
      <4>2. announced'[n][q] = announced[n][q] + new - 0 /\ announced[n][q] = was
        BY <2>10, <3>3
      <4>3. was \in Int /\ new \in Int /\ is \in Int
        OBVIOUS
      <4> HIDE DEF was, is, new
      <4>4. announced'[n][q] = is
        BY <4>1, <4>2, <4>3
      <4>5. QED
        BY <4>4 DEF is
    <3>5. QED
      BY <3>1, <3>2, <3>4
  <2>14. tracker' = [tracker EXCEPT ![n] = t] /\ Network(n, Rest(n, c), Silence, closing)
    BY <2>1, <2>6, <2>7
  <2>15. /\ next' \in [Nodes -> Nat] /\ DOMAIN command' = Nodes /\ {c} \in SUBSET Conns
         /\ \A m \in Nodes : command'[m] \subseteq command[m]
    BY <1>1, <2>5 DEF Shapes
  <2>16. UNCHANGED <<plan, link, running, taken>>
    BY <1>3
  <2>17. WorkerChange(n, {c}, Rest(n, c), Silence, closing, t) /\ SameOwner(tracker[n], t)
    BY <2>9
  <2>18. WorkerMoves(n, {c}, Rest(n, c), Silence, closing, t)
    BY <2>13, <2>14, <2>15, <2>16, <2>17 DEF WorkerMoves
  <2>19. QED
    BY <2>18, WorkerStep
<1>9. QED
  BY <1>7, <1>8

\* An event changes no connection, unless it closes its own.
LEMMA EventChange ==
    ASSUME Ends, NEW n \in Nodes, NEW c \in DOMAIN link, inbox[n][c] # <<>>,
           Head(inbox[n][c]).kind = "Event",
           NEW t, SoundTracker(t), t.self = n, t.conns = tracker[n].conns
    PROVE  WorkerChange(n, {c}, Rest(n, c), Silence, {}, t)
<1>1. OwnEnds(n)
  BY DEF Ends
<1>2. /\ c \in Conns /\ DOMAIN Rest(n, c) = Conns /\ Rest(n, c)[c] = Tail(inbox[n][c])
      /\ \A d \in Conns : d # c => Rest(n, c)[d] = inbox[n][d]
  BY FirstItem
<1>3. \A d \in Conns : IF d \in {c} THEN inbox[n][d] # <<>> /\ Rest(n, c)[d] = Tail(inbox[n][d])
                                    ELSE Rest(n, c)[d] = inbox[n][d]
  BY <1>2
<1>4. \A d \in DOMAIN Silence : Silence[d] \in Seq(FramesFrom(n))
  BY DEF Silence
<1>5. \A d, q : Recorded(t, d, q) <=> Recorded(tracker[n], d, q)
  BY DEF Recorded
<1>6. \A d : PeerFor(t, d) = PeerFor(tracker[n], d) /\ (Tracked(t, d) <=> Tracked(tracker[n], d))
  BY DEF PeerFor, Tracked
<1>7. \A d, q : Recorded(t, d, q) =>
          /\ d \notin {} /\ q \subseteq Allowed(n, d)
          /\ Tracked(tracker[n], d) \/ (d \in {c} /\ Head(inbox[n][d]).kind \in Established)
  BY <1>1, <1>5, TrackedRecorded DEF OwnEnds
<1>8. \A d \in {c} : d \notin {} =>
          /\ Head(inbox[n][d]).kind # "Disconnected"
          /\ Head(inbox[n][d]).kind \in Established =>
                 /\ Tracked(t, d) /\ d \in DOMAIN Silence
                 /\ Silence[d] = <<HelloFrame(n)>>
          /\ Head(inbox[n][d]).kind = "Hello" => PeerFor(t, d) = {OtherEnd(n, d)}
  BY DEF Established
<1>9. QED
  BY <1>2, <1>3, <1>4, <1>6, <1>7, <1>8 DEF WorkerChange

\* handle_domain_event: what is accepted is newer than all that was.
LEMMA EventStep ==
    ASSUME TransportInv, NEW n \in Nodes, NEW c \in DOMAIN link, inbox[n][c] # <<>>,
           HandleEvent(n, c), UNCHANGED <<plan, next, link, command, running>>, n \in running
    PROVE  TransportInv'
<1> DEFINE f == Head(inbox[n][c])
           answer == Acceptance(tracker[n], c, f.sender, f.seq)
<1>1. Ends /\ Shapes /\ OwnEnds(n) /\ SoundTracker(tracker[n]) /\ TrackerOK(tracker[n])
      /\ DOMAIN tracker = Nodes /\ tracker[n].self = n
  BY DEF TransportInv, Ends, OwnEnds, SoundTracker, Shapes
<1>2. c \in Conns /\ IsEnd(n, c) /\ f \in Items(n, c)
  BY <1>1, FirstItem
<1>3. f.kind = "Event"
  BY DEF HandleEvent
<1>4. PICK p \in Nodes : p = OtherEnd(n, c)
  BY <1>1, <1>2, TwoEnds
<1>5. f.sender = p /\ f.seq \in Nat /\ f.what \in Whats
  BY <1>2, <1>3, <1>4 DEF Items, FramesFrom, Notices
<1>6. CASE answer \in {"Unauthenticated", "SenderMismatch"}
  <2>1. Close(n, c, Rest(n, c), Silence) /\ UNCHANGED taken
    BY <1>6 DEF HandleEvent
  <2>2. QED
    BY <2>1, CloseStep DEF Close
<1>7. CASE answer = "Replayed"
  <2>1. Network(n, Rest(n, c), Silence, {}) /\ UNCHANGED <<tracker, announced, taken>>
    BY <1>7 DEF HandleEvent
  <2>0. PICK t : t = tracker[n]
    OBVIOUS
  <2>2. WorkerChange(n, {c}, Rest(n, c), Silence, {}, t)
    BY <1>1, <1>3, <2>0, EventChange
  <2>3. SameOwner(tracker[n], t)
    BY <2>0 DEF SameOwner
  <2>4. /\ announced' \in [Nodes -> [Nodes -> Int]]
        /\ \A m, q \in Nodes : m # n => announced'[m][q] = announced[m][q]
        /\ \A q \in Nodes : announced'[n][q] = IF IsConnected(t, q) THEN 1 ELSE 0
    BY <2>0, <2>1 DEF TransportInv, AnnouncedWhileConnected
  <2>5. /\ next' \in [Nodes -> Nat] /\ DOMAIN command' = Nodes /\ {c} \in SUBSET Conns
        /\ \A m \in Nodes : command'[m] \subseteq command[m]
    BY <1>1, <1>2 DEF Shapes
  <2>6. /\ UNCHANGED <<plan, link, running, taken>> /\ Network(n, Rest(n, c), Silence, {})
        /\ tracker' = [tracker EXCEPT ![n] = t] \/ (tracker' = tracker /\ t = tracker[n])
    BY <2>0, <2>1
  <2>7. WorkerMoves(n, {c}, Rest(n, c), Silence, {}, t)
    BY <2>2, <2>3, <2>4, <2>5, <2>6 DEF WorkerMoves
  <2>8. QED
    BY <2>7, WorkerStep
<1>8. CASE answer = "Accepted"
  <2>1. PICK t : t = Accepting(tracker[n], p, f.seq)
    OBVIOUS
  <2>2. /\ tracker' = [tracker EXCEPT ![n] = t]
        /\ taken' = [taken EXCEPT ![n][p] = Append(@, [seq |-> f.seq, what |-> f.what])]
        /\ Network(n, Rest(n, c), Silence, {})
        /\ UNCHANGED announced
    BY <1>5, <1>8, <2>1 DEF HandleEvent
  <2>3. /\ SoundTracker(t) /\ t.conns = tracker[n].conns /\ t.self = tracker[n].self
        /\ t.highest = [tracker[n].highest EXCEPT ![p] = f.seq]
    <3>1. f.seq \in Int
      BY <1>5
    <3>2. QED
      BY <1>1, <2>1, <3>1, AcceptingOf
  <2>4. WorkerChange(n, {c}, Rest(n, c), Silence, {}, t)
    BY <1>1, <1>3, <2>3, EventChange
  <2>5. Shapes'
    <3>1. DOMAIN tracker' = Nodes /\ sockets' \in [Nodes -> SUBSET Conns] /\ DOMAIN inbox' = Nodes
      BY <1>1, <2>2 DEF Shapes, Network
    <3>2. QED
      BY <1>1, <3>1 DEF Shapes
  <2>6. /\ \A m \in Nodes : tracker'[m] = IF m = n THEN t ELSE tracker[m]
        /\ {c} \in SUBSET Conns /\ UNCHANGED <<plan, link>>
    BY <1>1, <1>2, <2>2
  <2>7. Ends'
    <3>1. Network(n, Rest(n, c), Silence, {})
      BY <2>2
    <3>2. QED
      BY <1>1, <2>4, <2>5, <2>6, <3>1, WorkerKeepsEnds
  <2>8. announced' \in [Nodes -> [Nodes -> Int]] /\ AnnouncedWhileConnected'
    <3>1. \A q : IsConnected(t, q) <=> IsConnected(tracker[n], q)
      BY <2>3 DEF IsConnected, OfPeer
    <3>2. \A m, q \in Nodes : IsConnected(tracker'[m], q) <=> IsConnected(tracker[m], q)
      BY <2>6, <3>1
    <3>3. QED
      BY <2>2, <3>2 DEF TransportInv, AnnouncedWhileConnected
  <2>9. plan.config[p] = plan.config[n] /\ f.seq > tracker[n].highest[p]
    <3>1. p \in PeerFor(tracker[n], c) /\ ~(f.seq <= tracker[n].highest[p])
      BY <1>5, <1>8 DEF Acceptance
    <3>2. tracker[n].highest[p] \in Int
      BY <1>1 DEF TrackerOK
    <3>3. {p} \subseteq Allowed(n, c)
      BY <1>1, <3>1, PeerOfRecorded DEF OwnEnds
    <3>4. QED
      BY <1>5, <3>1, <3>2, <3>3 DEF Allowed
  <2>10. Numbered'
    <3> DEFINE e == [seq |-> f.seq, what |-> f.what]
               Event == [seq : Nat, what : Whats]
    <3>1. e \in Event /\ e.seq = f.seq
      BY <1>5
    <3> HIDE DEF e, Event
    <3>2. Numbered /\ taken \in [Nodes -> [Nodes -> Seq(Event)]]
      BY DEF TransportInv, Numbered, Event
    <3>3. taken' = [taken EXCEPT ![n][p] = Append(@, e)]
      BY <2>2 DEF e
    <3>4. Append(taken[n][p], e) \in Seq(Event)
      BY <3>1, <3>2
    <3>5. /\ taken' \in [Nodes -> [Nodes -> Seq(Event)]]
          /\ taken'[n][p] = Append(taken[n][p], e)
          /\ \A m, q \in Nodes : m # n \/ q # p => taken'[m][q] = taken[m][q]
      BY <3>2, <3>3, <3>4
    <3>6. \A m, q \in Nodes : taken'[m][q] # <<>> => plan.config[q] = plan.config[m]
      <4> SUFFICES ASSUME NEW m \in Nodes, NEW q \in Nodes, taken'[m][q] # <<>>
                   PROVE  plan.config[q] = plan.config[m]
        OBVIOUS
      <4>1. CASE m = n /\ q = p
        BY <2>9, <4>1
      <4>2. CASE m # n \/ q # p
        <5>1. taken'[m][q] = taken[m][q]
          BY <3>5, <4>2
        <5>2. QED
          BY <3>2, <5>1 DEF Numbered
      <4>3. QED
        BY <4>1, <4>2
    <3> DEFINE s == taken[n][p]
    <3>7. /\ s \in Seq(Event) /\ \A i \in DOMAIN s : s[i].seq <= tracker[n].highest[p]
          /\ \A i, j \in DOMAIN s : i < j => s[i].seq < s[j].seq
          /\ \A i \in DOMAIN s : s[i].seq \in Nat
      <4>1. s \in Seq(Event)
        BY <3>2
      <4>2. \A i \in DOMAIN s : s[i].seq <= tracker[n].highest[p]
        BY <3>2 DEF Numbered
      <4>3. \A i, j \in DOMAIN s : i < j => s[i].seq < s[j].seq
        BY <3>2 DEF Numbered, EventsInOrder
      <4>4. \A i \in DOMAIN s : s[i] \in Event
        BY <4>1
      <4>5. QED
        BY <4>1, <4>2, <4>3, <4>4 DEF Event
    <3> HIDE DEF s
    <3>8. /\ DOMAIN Append(s, e) = 1 .. (Len(s) + 1) /\ DOMAIN s = 1 .. Len(s)
          /\ Append(s, e)[Len(s) + 1] = e /\ Len(s) \in Nat
          /\ \A i \in DOMAIN s : Append(s, e)[i] = s[i]
      BY <3>1, <3>7, AppendProperties
    <3>9. tracker[n].highest[p] \in Int /\ f.seq \in Nat
      BY <1>1, <1>5 DEF TrackerOK
    <3>10. \A i \in DOMAIN Append(s, e) : Append(s, e)[i].seq <= f.seq
      <4> TAKE i \in DOMAIN Append(s, e)
      <4>1. i \in DOMAIN s \/ i = Len(s) + 1
        BY <3>8
      <4>2. CASE i \in DOMAIN s
        BY <2>9, <3>7, <3>8, <3>9, <4>2
      <4>3. CASE i = Len(s) + 1
        BY <3>1, <3>8, <3>9, <4>3
      <4>4. QED
        BY <4>1, <4>2, <4>3
    <3>11. \A i, j \in DOMAIN Append(s, e) : i < j => Append(s, e)[i].seq < Append(s, e)[j].seq
      <4> TAKE i, j \in DOMAIN Append(s, e)
      <4> HAVE i < j
      <4>1. i \in DOMAIN s /\ (j \in DOMAIN s \/ j = Len(s) + 1)
        BY <3>8
      <4>2. CASE j \in DOMAIN s
        BY <3>7, <3>8, <4>1, <4>2
      <4>3. CASE j = Len(s) + 1
        BY <2>9, <3>1, <3>7, <3>8, <3>9, <4>1, <4>3
      <4>4. QED
        BY <4>1, <4>2, <4>3
    <3>12. /\ tracker'[n].highest[p] = f.seq
           /\ \A m, q \in Nodes : m # n \/ q # p => tracker'[m].highest[q] = tracker[m].highest[q]
      BY <1>1, <2>3, <2>6 DEF TrackerOK
    <3>13. \A m \in running', q \in Nodes : \A i \in DOMAIN taken'[m][q] :
               taken'[m][q][i].seq <= tracker'[m].highest[q]
      <4> TAKE m \in running', q \in Nodes
      <4>1. m \in running /\ m \in Nodes
        BY <1>1 DEF Shapes
      <4>2. CASE m = n /\ q = p
        BY <3>5, <3>10, <3>12, <4>2 DEF s
      <4>3. CASE m # n \/ q # p
        <5>1. taken'[m][q] = taken[m][q] /\ tracker'[m].highest[q] = tracker[m].highest[q]
          BY <3>5, <3>12, <4>1, <4>3
        <5>2. \A i \in DOMAIN taken[m][q] : taken[m][q][i].seq <= tracker[m].highest[q]
          BY <3>2, <4>1 DEF Numbered
        <5>3. QED
          BY <5>1, <5>2
      <4>4. QED
        BY <4>2, <4>3
    <3>14. EventsInOrder'
      <4> SUFFICES ASSUME NEW m \in Nodes, NEW q \in Nodes
                   PROVE  \A i, j \in DOMAIN taken'[m][q] :
                              i < j => taken'[m][q][i].seq < taken'[m][q][j].seq
        BY DEF EventsInOrder
      <4>1. CASE m = n /\ q = p
        BY <3>5, <3>11, <4>1 DEF s
      <4>2. CASE m # n \/ q # p
        <5>1. taken'[m][q] = taken[m][q]
          BY <3>5, <4>2
        <5>2. \A i, j \in DOMAIN taken[m][q] : i < j => taken[m][q][i].seq < taken[m][q][j].seq
          BY <3>2 DEF Numbered, EventsInOrder
        <5>3. QED
          BY <5>1, <5>2
      <4>3. QED
        BY <4>1, <4>2
    <3>15. QED
      BY <2>6, <3>5, <3>6, <3>13, <3>14 DEF Numbered, Event
  <2>11. QED
    BY <2>7, <2>8, <2>10 DEF TransportInv
<1>9. QED
  BY <1>6, <1>7, <1>8 DEF HandleEvent

\* A message from the network.
LEMMA HandleStep ==
    ASSUME TransportInv, NEW n \in Nodes, NEW c, Handle(n, c)
    PROVE  TransportInv'
<1>1. /\ n \in running /\ c \in DOMAIN link /\ inbox[n][c] # <<>>
      /\ UNCHANGED <<plan, next, link, command, running, broadcasts, failures>>
  BY DEF Handle
<1>2. CASE HandleEstablished(n, c, "Outgoing") \/ HandleEstablished(n, c, "Incoming")
  BY <1>1, <1>2, EstablishedStep
<1>3. CASE HandleEnd(n, c)
  <2>1. Close(n, c, Rest(n, c), Silence) /\ UNCHANGED taken
    BY <1>3 DEF HandleEnd
  <2>2. QED
    BY <1>1, <2>1, CloseStep DEF Close
<1>4. CASE HandleHello(n, c)
  BY <1>1, <1>4, HelloStep
<1>5. CASE HandleEvent(n, c)
  BY <1>1, <1>5, EventStep
<1>6. QED
  BY <1>2, <1>3, <1>4, <1>5 DEF Handle

\* A command of the runtime: a frame to endpoints that are tracked, of which those
\* that cannot be sent to are closed.
LEMMA CommandStep ==
    ASSUME TransportInv, NEW n \in Nodes, HandleCommand(n)
    PROVE  TransportInv'
<1>1. Ends /\ Shapes /\ OwnEnds(n) /\ TrackerOK(tracker[n])
  BY DEF TransportInv, Ends, OwnEnds, SoundTracker
<1>2. PICK cmd \in command[n] :
          LET to == IF cmd.kind = "Broadcast" THEN Authenticated(tracker[n])
                    ELSE EndpointFor(tracker[n], cmd.peer)
              f == EventFrame(n, next[n], cmd.what)
          IN  \E failed \in SUBSET MayFail(n, to) :
                  /\ tracker' = [tracker EXCEPT ![n] = Dropping(@, failed)]
                  /\ Emit(n, GoneEvents(tracker[n], failed))
                  /\ Announce(n, {}, Gone(tracker[n], failed))
                  /\ Network(n, inbox[n], [ep \in to \ failed |-> <<f>>], failed)
                  /\ next' = [next EXCEPT ![n] = SequenceAfter(n, cmd, to)]
  BY DEF HandleCommand
<1>3. PICK to : to = IF cmd.kind = "Broadcast" THEN Authenticated(tracker[n])
                     ELSE EndpointFor(tracker[n], cmd.peer)
  OBVIOUS
<1>4. PICK f : f = EventFrame(n, next[n], cmd.what)
  OBVIOUS
<1>5. PICK failed \in SUBSET MayFail(n, to) :
          /\ tracker' = [tracker EXCEPT ![n] = Dropping(@, failed)]
          /\ Announce(n, {}, Gone(tracker[n], failed))
          /\ Network(n, inbox[n], [ep \in to \ failed |-> <<f>>], failed)
          /\ next' = [next EXCEPT ![n] = SequenceAfter(n, cmd, to)]
  BY <1>2, <1>3, <1>4
<1>6. \A ep \in to : Tracked(tracker[n], ep)
  <2>1. CASE cmd.kind = "Broadcast"
    BY <1>3, <2>1 DEF Authenticated, Tracked
  <2>2. CASE cmd.kind # "Broadcast"
    <3>1. IsConnected(tracker[n], cmd.peer) =>
              First(OfPeer(tracker[n], cmd.peer)) \in OfPeer(tracker[n], cmd.peer)
      <4>1. OfPeer(tracker[n], cmd.peer) \in SUBSET Connections
        BY <1>1 DEF TrackerOK, OfPeer
      <4>2. QED
        BY <4>1, FirstOf DEF IsConnected
    <3>2. QED
      BY <1>3, <2>2, <3>1 DEF EndpointFor, OfPeer, Tracked
  <2>3. QED
    BY <2>1, <2>2
<1>7. \A ep \in failed : Tracked(tracker[n], ep)
  BY <1>6 DEF MayFail
<1>8. next[n] \in Nat /\ cmd.what \in Whats
  BY <1>1 DEF Shapes
<1>9. f \in FramesFrom(n)
  BY <1>4, <1>8 DEF EventFrame, FramesFrom
<1>10. PICK frames : frames = [ep \in to \ failed |-> <<f>>]
  OBVIOUS
<1>11. \A ep \in DOMAIN frames : frames[ep] \in Seq(FramesFrom(n))
  BY <1>9, <1>10
<1>12. PICK t : t = Dropping(tracker[n], failed)
  OBVIOUS
<1>13. WorkerChange(n, {}, inbox[n], frames, failed, t)
  <2>1. DOMAIN inbox[n] = Conns
    BY <1>1 DEF OwnEnds
  <2>2. /\ \A c \in Conns : IF c \in {} THEN inbox[n][c] # <<>> /\ inbox[n][c] = Tail(inbox[n][c])
                                        ELSE inbox[n][c] = inbox[n][c]
        /\ \A c \in failed : Tracked(tracker[n], c) \/ c \in {}
        /\ {} \in SUBSET Conns /\ {} \subseteq failed
    BY <1>7
  <2>3. QED
    BY <1>1, <1>11, <1>12, <2>1, <2>2, DroppingChange
<1>14. SameOwner(tracker[n], t)
  BY <1>1, <1>12, DroppingOf
<1>15. /\ announced' \in [Nodes -> [Nodes -> Int]]
       /\ \A m, p \in Nodes : m # n => announced'[m][p] = announced[m][p]
       /\ \A p \in Nodes : announced'[n][p] = IF IsConnected(t, p) THEN 1 ELSE 0
  BY <1>5, <1>12, CloseTold
<1>16. next' \in [Nodes -> Nat]
  <2>1. SequenceAfter(n, cmd, to) \in Nat
    BY <1>8 DEF SequenceAfter
  <2>2. QED
    BY <1>1, <1>5, <2>1 DEF Shapes
<1>17. DOMAIN command' = Nodes /\ \A m \in Nodes : command'[m] \subseteq command[m]
  <2>1. command' = [command EXCEPT ![n] = {}] /\ DOMAIN command = Nodes
    BY <1>1 DEF HandleCommand, Shapes
  <2>2. QED
    BY <2>1
<1>18. /\ UNCHANGED <<plan, link, running, taken>> /\ Network(n, inbox[n], frames, failed)
       /\ tracker' = [tracker EXCEPT ![n] = t] \/ (tracker' = tracker /\ t = tracker[n])
       /\ {} \in SUBSET Conns
  BY <1>5, <1>10, <1>12 DEF HandleCommand
<1>19. WorkerMoves(n, {}, inbox[n], frames, failed, t)
  BY <1>13, <1>14, <1>15, <1>16, <1>17, <1>18 DEF WorkerMoves
<1>20. QED
  BY <1>19, WorkerStep

-----------------------------------------------------------------------------
(* The other steps *)

\* Dialling adds a connection, in agreement from its first moment.
LEMMA DialKeepsEnds ==
    ASSUME Ends, NEW n \in Nodes, NEW m \in Nodes, n # m, Dial(n, m)
    PROVE  Ends'
<1>1. Shapes /\ \A k \in Nodes : OwnEnds(k)
  BY DEF Ends
<1>2. PICK c : c = Len(link) + 1
  OBVIOUS
<1>3. /\ c \in Conns /\ link' = Append(link, <<n, m>>)
      /\ \/ /\ sockets' = [sockets EXCEPT ![n] = @ \cup {c}, ![m] = @ \cup {c}]
            /\ inbox' = [inbox EXCEPT ![n][c] = <<Item("Connected")>>,
                                      ![m][c] = <<Item("Accepted")>>]
         \/ /\ inbox' = [inbox EXCEPT ![n][c] = <<Item("ConnectFailed")>>]
            /\ UNCHANGED sockets
      /\ UNCHANGED <<plan, tracker, next, command, running>>
  BY <1>2 DEF Dial
<1>4. /\ link' \in Seq({d \in Nodes \X Nodes : d[1] # d[2]})
      /\ DOMAIN link' = DOMAIN link \cup {c} /\ c \notin DOMAIN link
      /\ link'[c] = <<n, m>> /\ \A d \in DOMAIN link : link'[d] = link[d]
  <2> DEFINE P == {d \in Nodes \X Nodes : d[1] # d[2]}
  <2>1. link \in Seq(P) /\ <<n, m>> \in P
    BY <1>1 DEF Shapes
  <2> HIDE DEF P
  <2>2. /\ Append(link, <<n, m>>) \in Seq(P) /\ Len(link) \in Nat
        /\ Len(Append(link, <<n, m>>)) = Len(link) + 1
        /\ \A d \in 1 .. Len(link) : Append(link, <<n, m>>)[d] = link[d]
        /\ Append(link, <<n, m>>)[Len(link) + 1] = <<n, m>>
    BY <2>1, AppendProperties
  <2>3. DOMAIN link = 1 .. Len(link) /\ DOMAIN link' = 1 .. (Len(link) + 1)
    BY <1>3, <2>1, <2>2
  <2>4. QED
    BY <1>2, <1>3, <2>2, <2>3 DEF P
<1>5. /\ \A k, d : d # c => (IsEnd(k, d)' <=> IsEnd(k, d))
      /\ \A k, d : d \in DOMAIN link => OtherEnd(k, d)' = OtherEnd(k, d)
      /\ \A k : ~IsEnd(k, c) /\ (IsEnd(k, c)' <=> k = n \/ k = m)
      /\ OtherEnd(n, c)' = m /\ OtherEnd(m, c)' = n
  BY <1>3, <1>4 DEF IsEnd, OtherEnd
<1>6. \A k \in Nodes : /\ c \notin sockets[k] /\ inbox[k][c] = <<>>
                       /\ ~Tracked(tracker[k], c)
  BY <1>1, <1>3, <1>5, TrackedRecorded DEF OwnEnds
<1>7. /\ sockets' \in [Nodes -> SUBSET Conns] /\ DOMAIN inbox' = Nodes
      /\ \A k \in Nodes : DOMAIN inbox'[k] = Conns
      /\ \A k \in Nodes : \A d : d # c => (d \in sockets'[k] <=> d \in sockets[k])
      /\ \A k \in Nodes, d \in Conns : d # c \/ (k # n /\ k # m) => inbox'[k][d] = inbox[k][d]
  <2>1. /\ sockets \in [Nodes -> SUBSET Conns] /\ DOMAIN inbox = Nodes
        /\ \A k \in Nodes : DOMAIN inbox[k] = Conns
    BY <1>1 DEF Shapes, OwnEnds
  <2>2. /\ sockets' \in [Nodes -> SUBSET Conns]
        /\ \A k \in Nodes : \A d : d # c => (d \in sockets'[k] <=> d \in sockets[k])
    <3>1. CASE sockets' = [sockets EXCEPT ![n] = @ \cup {c}, ![m] = @ \cup {c}]
      BY <1>3, <2>1, <3>1
    <3>2. CASE UNCHANGED sockets
      BY <2>1, <3>2
    <3>3. QED
      BY <1>3, <3>1, <3>2
  <2>3. /\ DOMAIN inbox' = Nodes /\ \A k \in Nodes : DOMAIN inbox'[k] = Conns
        /\ \A k \in Nodes, d \in Conns : d # c \/ (k # n /\ k # m) => inbox'[k][d] = inbox[k][d]
    <3>1. CASE inbox' = [inbox EXCEPT ![n][c] = <<Item("Connected")>>,
                                      ![m][c] = <<Item("Accepted")>>]
      BY <1>3, <2>1, <3>1
    <3>2. CASE inbox' = [inbox EXCEPT ![n][c] = <<Item("ConnectFailed")>>]
      BY <1>3, <2>1, <3>2
    <3>3. QED
      BY <1>3, <3>1, <3>2
  <2>4. QED
    BY <2>2, <2>3
<1>8. Shapes'
  BY <1>1, <1>3, <1>4, <1>7 DEF Shapes
<1>9. \A k : Notices \subseteq Items(k, c)'
  BY DEF Items, Notices
<1>10. \/ /\ c \in sockets'[n] /\ c \in sockets'[m]
          /\ inbox'[n][c] = <<Item("Connected")>> /\ inbox'[m][c] = <<Item("Accepted")>>
       \/ /\ c \notin sockets'[n] /\ c \notin sockets'[m]
          /\ inbox'[n][c] = <<Item("ConnectFailed")>> /\ inbox'[m][c] = <<>>
  BY <1>1, <1>3, <1>6 DEF Shapes, OwnEnds
<1>11. ASSUME NEW k \in Nodes PROVE OwnEnds(k)'
  <2>1. SoundTracker(tracker'[k]) /\ tracker'[k].self = k
    BY <1>1, <1>3 DEF OwnEnds
  <2>2. \A d \in sockets'[k] : IsEnd(k, d)'
    <3> TAKE d \in sockets'[k]
    <3>1. CASE d # c
      BY <1>1, <1>5, <1>7, <3>1 DEF OwnEnds
    <3>2. CASE d = c
      <4>1. k = n \/ k = m
        BY <1>1, <1>3, <1>6, <3>2 DEF Shapes
      <4>2. QED
        BY <1>5, <3>2, <4>1
    <3>3. QED
      BY <3>1, <3>2
  <2>3. ASSUME NEW d, NEW q, Recorded(tracker'[k], d, q)
        PROVE  IsEnd(k, d)' /\ q \subseteq Allowed(k, d)'
    <3>1. IsEnd(k, d) /\ q \subseteq Allowed(k, d)
      BY <1>1, <1>3, <2>3 DEF OwnEnds
    <3>2. d # c /\ d \in DOMAIN link
      BY <1>5, <3>1 DEF IsEnd
    <3>3. Allowed(k, d)' = Allowed(k, d)
      BY <1>3, <1>5, <3>2 DEF Allowed
    <3>4. QED
      BY <1>5, <3>1, <3>2, <3>3
  <2>4. ASSUME NEW d \in Conns
        PROVE  IF IsEnd(k, d)' THEN inbox'[k][d] \in Seq(Items(k, d)') ELSE inbox'[k][d] = <<>>
    <3>1. CASE d # c
      <4>1. inbox'[k][d] = inbox[k][d] /\ (IsEnd(k, d)' <=> IsEnd(k, d))
        BY <1>5, <1>7, <3>1
      <4>2. IsEnd(k, d) => Items(k, d)' = Items(k, d)
        BY <1>3, <1>5 DEF Items, FramesFrom, IsEnd
      <4>3. QED
        BY <1>1, <4>1, <4>2 DEF OwnEnds
    <3>2. CASE d = c /\ (k = n \/ k = m)
      <4>1. inbox'[k][c] \in {<<>>, <<Item("Connected")>>, <<Item("Accepted")>>,
                              <<Item("ConnectFailed")>>}
        BY <1>10, <3>2
      <4>2. Item("Connected") \in Notices /\ Item("Accepted") \in Notices
            /\ Item("ConnectFailed") \in Notices
        BY DEF Item, Notices
      <4>3. inbox'[k][c] \in Seq(Notices)
        <5>1. \A x \in Notices : <<x>> \in Seq(Notices)
          OBVIOUS
        <5>2. <<>> \in Seq(Notices)
          BY EmptySeq
        <5>3. QED
          BY <4>1, <4>2, <5>1, <5>2
      <4>4. inbox'[k][c] \in Seq(Items(k, c)')
        BY <1>9, <4>3
      <4>5. QED
        BY <1>5, <3>2, <4>4
    <3>3. CASE d = c /\ k # n /\ k # m
      BY <1>5, <1>6, <1>7, <3>3
    <3>4. QED
      BY <3>1, <3>2, <3>3
  <2>5. QED
    BY <1>7, <2>1, <2>2, <2>3, <2>4 DEF OwnEnds
<1>12. ASSUME NEW k \in Nodes, NEW d \in Conns, IsEnd(k, d)' PROVE EndInv(k, d)'
  <2>1. CASE d # c
    <3>1. IsEnd(k, d) /\ EndInv(k, d) /\ d \in DOMAIN link
      BY <1>5, <1>12, <2>1 DEF Ends, IsEnd
    <3>2. PICK j \in Nodes : j = OtherEnd(k, d)
      BY <1>1, <3>1, TwoEnds
    <3>3. OtherEnd(k, d)' = j
      BY <1>5, <3>1, <3>2
    <3>4. /\ inbox'[k][d] = inbox[k][d] /\ inbox'[j][d] = inbox[j][d]
          /\ (d \in sockets'[k] <=> d \in sockets[k]) /\ (d \in sockets'[j] <=> d \in sockets[j])
          /\ tracker'[k] = tracker[k]
      BY <1>3, <1>7, <2>1
    <3>5. \A kinds : /\ Has(k, d, kinds)' <=> Has(k, d, kinds)
                     /\ Has(j, d, kinds)' <=> Has(j, d, kinds)
      BY <3>4 DEF Has
    <3>6. QED
      BY <3>1, <3>2, <3>3, <3>4, <3>5 DEF EndInv
  <2>2. CASE d = c
    <3>1. PICK j \in Nodes : j = OtherEnd(k, c)' /\ {k, j} = {n, m}
      BY <1>5, <1>12, <2>2
    <3>2. ~Tracked(tracker'[k], c)
      BY <1>3, <1>6
    <3>3. \A i \in DOMAIN inbox'[k][c] : ~(i > 1)
      BY <1>10, <3>1
    <3>4. CASE c \in sockets'[n]
      <4>1. /\ c \in sockets'[k] /\ c \in sockets'[j] /\ 1 \in DOMAIN inbox'[k][c]
            /\ inbox'[k][c][1].kind \in Established
        BY <1>10, <3>1, <3>4 DEF Item, Established
      <4>2. Has(k, c, Established)'
        BY <4>1 DEF Has
      <4>3. Has(j, c, Established)'
        <5>1. 1 \in DOMAIN inbox'[j][c] /\ inbox'[j][c][1].kind \in Established
          BY <1>10, <3>1, <3>4 DEF Item, Established
        <5>2. QED
          BY <5>1 DEF Has
      <4>4. QED
        BY <2>2, <3>1, <3>2, <3>3, <4>1, <4>2, <4>3 DEF EndInv
    <3>5. CASE c \notin sockets'[n]
      <4>1. c \notin sockets'[k] /\ \A i \in DOMAIN inbox'[k][c] : inbox'[k][c][i].kind \notin Established
        BY <1>10, <3>1, <3>5 DEF Item, Established
      <4>2. ~Has(k, c, Established)'
        BY <4>1 DEF Has
      <4>3. QED
        BY <2>2, <3>1, <3>2, <3>3, <4>1, <4>2 DEF EndInv
    <3>6. QED
      BY <3>4, <3>5
  <2>3. QED
    BY <2>1, <2>2
<1>13. QED
  BY <1>8, <1>11, <1>12 DEF Ends

\* What is left of a sequence that is cut off and ended: a beginning, and the end.
EndsWith(S, s, x, r) ==
    /\ r \in Seq(S) /\ \E j \in DOMAIN r : r[j] = x
    /\ \A j \in DOMAIN r : (j \in DOMAIN s /\ r[j] = s[j]) \/ r[j] = x

LEMMA CutOff ==
    ASSUME NEW S, NEW s \in Seq(S), NEW i \in 0 .. Len(s), NEW x \in S
    PROVE  EndsWith(S, s, x, SubSeq(s, 1, i) \o <<x>>)
<1> DEFINE a == SubSeq(s, 1, i)
<1>1. Len(s) \in Nat /\ DOMAIN s = 1 .. Len(s)
  OBVIOUS
<1>2. /\ a \in Seq(S) /\ DOMAIN a = 1 .. i
      /\ \A j \in 1 .. i : j \in DOMAIN s /\ a[j] = s[j]
  BY <1>1
<1>3. <<x>> \in Seq(S) /\ DOMAIN <<x>> = {1} /\ <<x>>[1] = x
  OBVIOUS
<1> HIDE DEF a
<1> DEFINE b == <<x>>
<1>4. b \in Seq(S) /\ DOMAIN b = {1} /\ b[1] = x
  BY <1>3
<1> HIDE DEF b
<1>5. /\ a \o b \in Seq(S)
      /\ \A j \in DOMAIN a : j \in DOMAIN (a \o b) /\ (a \o b)[j] = a[j]
      /\ \A j \in DOMAIN b : \E k \in DOMAIN (a \o b) : (a \o b)[k] = b[j]
      /\ \A j \in DOMAIN (a \o b) :
             j \in DOMAIN a \/ \E k \in DOMAIN b : (a \o b)[j] = b[k]
  BY <1>2, <1>4, Appended
<1>6. EndsWith(S, s, x, a \o b)
  BY <1>2, <1>4, <1>5 DEF EndsWith
<1>7. QED
  BY <1>6 DEF a, b

\* A connection that breaks is closed at both ends, and both are to be told.
LEMMA BreakKeepsEnds ==
    ASSUME Ends, NEW c \in DOMAIN link, ConnectionBreaks(c)
    PROVE  Ends'
<1>1. Shapes /\ \A k \in Nodes : OwnEnds(k)
  BY DEF Ends
<1>2. PICK n \in Nodes, m \in Nodes :
          /\ link[c] = <<n, m>> /\ c \in sockets[n] \cap sockets[m]
          /\ \E i \in 0..Len(inbox[n][c]), j \in 0..Len(inbox[m][c]) :
                 inbox' = [inbox EXCEPT
                     ![n][c] = SubSeq(@, 1, i) \o <<Item("Disconnected")>>,
                     ![m][c] = SubSeq(@, 1, j) \o <<Item("Disconnected")>>]
          /\ sockets' = [sockets EXCEPT ![n] = @ \ {c}, ![m] = @ \ {c}]
  BY DEF ConnectionBreaks
<1>3. UNCHANGED <<plan, tracker, next, link, command, running>>
  BY DEF ConnectionBreaks
<1>4. /\ IsEnd(n, c) /\ IsEnd(m, c) /\ n # m /\ c \in Conns
      /\ \A k : IsEnd(k, c) => k = n \/ k = m
      /\ OtherEnd(n, c) = m /\ OtherEnd(m, c) = n
  <2>1. IsEnd(n, c) /\ IsEnd(m, c) /\ \A k : IsEnd(k, c) => k = n \/ k = m
    BY <1>2 DEF IsEnd
  <2>2. c \in Conns /\ OtherEnd(n, c) # n
    BY <1>1, <2>1, TwoEnds
  <2>3. QED
    BY <1>2, <2>1, <2>2 DEF OtherEnd
<1>5. PICK i \in 0..Len(inbox[n][c]), j \in 0..Len(inbox[m][c]) :
          inbox' = [inbox EXCEPT
              ![n][c] = SubSeq(inbox[n][c], 1, i) \o <<Item("Disconnected")>>,
              ![m][c] = SubSeq(inbox[m][c], 1, j) \o <<Item("Disconnected")>>]
  BY <1>2, <1>4
<1>6. /\ \A k, d : IsEnd(k, d)' <=> IsEnd(k, d)
      /\ \A k, d : OtherEnd(k, d)' = OtherEnd(k, d)
      /\ \A k, d : Items(k, d)' = Items(k, d)
      /\ \A k, d : Allowed(k, d)' = Allowed(k, d)
  BY <1>3 DEF IsEnd, OtherEnd, Items, Allowed, FramesFrom
<1>7. /\ sockets \in [Nodes -> SUBSET Conns] /\ DOMAIN inbox = Nodes
      /\ \A k \in Nodes : DOMAIN inbox[k] = Conns
  BY <1>1 DEF Shapes, OwnEnds
<1>8. /\ DOMAIN inbox' = Nodes /\ \A k \in Nodes : DOMAIN inbox'[k] = Conns
      /\ inbox'[n][c] = SubSeq(inbox[n][c], 1, i) \o <<Item("Disconnected")>>
      /\ inbox'[m][c] = SubSeq(inbox[m][c], 1, j) \o <<Item("Disconnected")>>
      /\ \A k \in Nodes, d \in Conns : d # c \/ (k # n /\ k # m) => inbox'[k][d] = inbox[k][d]
  BY <1>4, <1>5, <1>7
<1>9. /\ sockets' \in [Nodes -> SUBSET Conns]
      /\ \A k \in Nodes : \A d : d # c => (d \in sockets'[k] <=> d \in sockets[k])
      /\ \A k \in Nodes : sockets'[k] \subseteq sockets[k]
      /\ c \notin sockets'[n] /\ c \notin sockets'[m]
  BY <1>2, <1>4, <1>7
<1>10. Shapes'
  BY <1>1, <1>3, <1>8, <1>9 DEF Shapes
<1>11. ASSUME NEW k \in {n, m}
       PROVE  /\ inbox'[k][c] \in Seq(Items(k, c))
              /\ \E x \in DOMAIN inbox'[k][c] : inbox'[k][c][x].kind = "Disconnected"
              /\ \A x \in DOMAIN inbox'[k][c] :
                     \/ x \in DOMAIN inbox[k][c] /\ inbox'[k][c][x] = inbox[k][c][x]
                     \/ inbox'[k][c][x].kind \notin Established
  <2>1. PICK s : s = inbox[k][c]
    OBVIOUS
  <2>2. PICK r : r = inbox'[k][c]
    OBVIOUS
  <2>3. PICK S : S = Items(k, c)
    OBVIOUS
  <2>4. PICK e : e = Item("Disconnected")
    OBVIOUS
  <2>5. s \in Seq(S)
    BY <1>1, <1>4, <2>1, <2>3 DEF OwnEnds
  <2>6. e \in S /\ e.kind = "Disconnected"
    BY <2>3, <2>4 DEF Items, Notices, Item
  <2>7. PICK l \in 0 .. Len(s) : r = SubSeq(s, 1, l) \o <<e>>
    BY <1>8, <2>1, <2>2, <2>4
  <2>8. /\ r \in Seq(S) /\ \E x \in DOMAIN r : r[x] = e
        /\ \A x \in DOMAIN r : (x \in DOMAIN s /\ r[x] = s[x]) \/ r[x] = e
    <3>1. e \in S
      BY <2>6
    <3>2. EndsWith(S, s, e, SubSeq(s, 1, l) \o <<e>>)
      BY <2>5, <3>1, CutOff
    <3>3. EndsWith(S, s, e, r)
      BY <2>7, <3>2
    <3>4. QED
      BY <3>3 DEF EndsWith
  <2>9. QED
    BY <2>1, <2>2, <2>3, <2>6, <2>8 DEF Established
<1>12. ASSUME NEW k \in Nodes PROVE OwnEnds(k)'
  <2>1. \A d \in Conns : IF IsEnd(k, d) THEN inbox'[k][d] \in Seq(Items(k, d))
                                        ELSE inbox'[k][d] = <<>>
    <3> TAKE d \in Conns
    <3>1. CASE d = c /\ k \in {n, m}
      BY <1>4, <1>11, <3>1
    <3>2. CASE ~(d = c /\ k \in {n, m})
      <4>1. inbox'[k][d] = inbox[k][d]
        BY <1>8, <3>2
      <4>2. QED
        BY <1>1, <4>1 DEF OwnEnds
    <3>3. QED
      BY <3>1, <3>2
  <2>2. \A d \in sockets'[k] : IsEnd(k, d)
    BY <1>1, <1>9 DEF OwnEnds
  <2>3. QED
    BY <1>1, <1>3, <1>6, <1>8, <2>1, <2>2 DEF OwnEnds
<1>13. ASSUME NEW k \in Nodes, NEW d \in Conns, IsEnd(k, d) PROVE EndInv(k, d)'
  <2>1. PICK l \in Nodes : l = OtherEnd(k, d)
    BY <1>1, <1>13, TwoEnds
  <2>2. EndInv(k, d) /\ tracker'[k] = tracker[k]
    BY <1>3, <1>13 DEF Ends
  <2>3. CASE d # c
    <3>1. /\ inbox'[k][d] = inbox[k][d] /\ inbox'[l][d] = inbox[l][d]
          /\ (d \in sockets'[k] <=> d \in sockets[k]) /\ (d \in sockets'[l] <=> d \in sockets[l])
      BY <1>8, <1>9, <2>3
    <3>2. \A kinds : /\ Has(k, d, kinds)' <=> Has(k, d, kinds)
                     /\ Has(l, d, kinds)' <=> Has(l, d, kinds)
      BY <3>1 DEF Has
    <3>3. QED
      BY <1>6, <2>1, <2>2, <3>1, <3>2 DEF EndInv
  <2>4. CASE d = c
    <3>1. k \in {n, m} /\ c \notin sockets'[k]
      BY <1>4, <1>9, <1>13, <2>4
    <3>2. /\ \E x \in DOMAIN inbox'[k][c] : inbox'[k][c][x].kind = "Disconnected"
          /\ \A x \in DOMAIN inbox'[k][c] :
                 \/ x \in DOMAIN inbox[k][c] /\ inbox'[k][c][x] = inbox[k][c][x]
                 \/ inbox'[k][c][x].kind \notin Established
      BY <1>11, <3>1
    <3>3. Has(k, c, {"Disconnected"})'
      BY <3>2 DEF Has
    <3>4. Has(k, c, Established)' => Has(k, c, Established)
      BY <3>2 DEF Has
    <3>5. \A x \in DOMAIN inbox'[k][c] : x > 1 => inbox'[k][c][x].kind \notin Established
      BY <2>2, <2>4, <3>2 DEF EndInv
    <3>6. Has(k, c, Established) => ~Tracked(tracker[k], c)
      BY <2>2, <2>4 DEF EndInv
    <3>7. QED
      BY <2>2, <2>4, <3>1, <3>3, <3>4, <3>5, <3>6 DEF EndInv
  <2>5. QED
    BY <2>3, <2>4
<1>14. QED
  BY <1>6, <1>10, <1>12, <1>13 DEF Ends

\* A daemon that stops closes every connection it has, and its own side of them is
\* as new.
LEMMA StopKeepsEnds ==
    ASSUME Ends, NEW n \in Nodes, Stop(n)
    PROVE  Ends'
<1>1. Shapes /\ \A k \in Nodes : OwnEnds(k)
  BY DEF Ends
<1>2. PICK none : none = [c \in Conns |-> <<>>]
  OBVIOUS
<1>3. /\ Network(n, none, Silence, sockets[n])
      /\ tracker' = [tracker EXCEPT ![n] = NewTracker(n)]
      /\ running' = running \ {n} /\ UNCHANGED <<plan, next, link, command>>
  BY <1>2 DEF Stop
<1>4. /\ \A k, d : IsEnd(k, d)' <=> IsEnd(k, d)
      /\ \A k, d : OtherEnd(k, d)' = OtherEnd(k, d)
      /\ \A k, d : Items(k, d)' = Items(k, d)
      /\ \A k, d : Allowed(k, d)' = Allowed(k, d)
  BY <1>3 DEF IsEnd, OtherEnd, Items, Allowed, FramesFrom
<1>5. /\ sockets' = [sockets EXCEPT ![n] = {}] /\ sockets \in [Nodes -> SUBSET Conns]
      /\ DOMAIN inbox' = Nodes /\ \A k \in Nodes : DOMAIN inbox'[k] = Conns
      /\ \A c \in Conns : inbox'[n][c] = <<>>
  BY <1>1, <1>2, <1>3 DEF Network, Shapes
<1>6. /\ DOMAIN tracker' = Nodes /\ tracker'[n] = NewTracker(n)
      /\ \A k \in Nodes : k # n => tracker'[k] = tracker[k]
  BY <1>1, <1>3 DEF Shapes
<1>7. sockets'[n] = {} /\ \A k \in Nodes : k # n => sockets'[k] = sockets[k]
  BY <1>5
<1>8. Shapes'
  BY <1>1, <1>3, <1>5, <1>6 DEF Shapes
<1>9. ASSUME NEW k \in Nodes, k # n, NEW c \in Conns
      PROVE  /\ IF IsEnd(k, c) THEN inbox'[k][c] \in Seq(Items(k, c)) ELSE inbox'[k][c] = <<>>
             /\ \A kinds : Has(k, c, kinds) => Has(k, c, kinds)'
             /\ Has(k, c, Established)' => Has(k, c, Established)
             /\ \A i \in DOMAIN inbox'[k][c] :
                    (i \in DOMAIN inbox[k][c] /\ inbox'[k][c][i] = inbox[k][c][i])
                    \/ inbox'[k][c][i].kind \notin Established
             /\ c \in sockets[n] /\ c \in sockets[k] => Has(k, c, {"Disconnected"})'
  <2>1. \A d \in DOMAIN Silence : Silence[d] \in Seq(FramesFrom(n))
    BY DEF Silence
  <2>2. /\ IF IsEnd(k, c) THEN inbox'[k][c] \in Seq(Items(k, c)) ELSE inbox'[k][c] = <<>>
        /\ \A i \in DOMAIN inbox[k][c] :
               i \in DOMAIN inbox'[k][c] /\ inbox'[k][c][i] = inbox[k][c][i]
        /\ \A i \in DOMAIN inbox'[k][c] :
               i \in DOMAIN inbox[k][c] \/ inbox'[k][c][i].kind \notin Established
        /\ c \in sockets[n] /\ c \in sockets[k] /\ c \in sockets[n] =>
               \E i \in DOMAIN inbox'[k][c] : inbox'[k][c][i].kind = "Disconnected"
    BY <1>3, <1>9, <2>1, NetworkReaches
  <2>3. QED
    BY <2>2 DEF Has
<1>10. OwnEnds(n)'
  <2>1. SoundTracker(NewTracker(n)) /\ NewTracker(n).self = n
        /\ \A c, q : ~Recorded(NewTracker(n), c, q)
    BY NewTrackerSound DEF NewTracker
  <2>2. \A c \in Conns : IF IsEnd(n, c) THEN inbox'[n][c] \in Seq(Items(n, c))
                                        ELSE inbox'[n][c] = <<>>
    BY <1>5, EmptySeq
  <2>3. QED
    BY <1>4, <1>5, <1>6, <1>7, <2>1, <2>2 DEF OwnEnds
<1>11. ASSUME NEW k \in Nodes, k # n PROVE OwnEnds(k)'
  <2>1. tracker'[k] = tracker[k] /\ sockets'[k] = sockets[k] /\ OwnEnds(k)
    BY <1>1, <1>6, <1>7, <1>11
  <2>2. \A c \in Conns : IF IsEnd(k, c) THEN inbox'[k][c] \in Seq(Items(k, c))
                                        ELSE inbox'[k][c] = <<>>
    BY <1>9, <1>11
  <2>3. QED
    BY <1>4, <1>5, <2>1, <2>2 DEF OwnEnds
<1>12. ASSUME NEW c \in Conns, IsEnd(n, c) PROVE EndInv(n, c)'
  <2>1. c \notin sockets'[n] /\ inbox'[n][c] = <<>> /\ DOMAIN inbox'[n][c] = {}
    BY <1>5, <1>7
  <2>2. ~Tracked(tracker'[n], c)
    BY <1>6, NewTrackerSound, TrackedRecorded
  <2>3. \A kinds : ~Has(n, c, kinds)'
    BY <2>1 DEF Has
  <2>4. QED
    BY <2>1, <2>2, <2>3 DEF EndInv
<1>13. ASSUME NEW k \in Nodes, k # n, NEW c \in Conns, IsEnd(k, c) PROVE EndInv(k, c)'
  <2>1. PICK l \in Nodes : l = OtherEnd(k, c)
    BY <1>1, <1>13, TwoEnds
  <2>2. EndInv(k, c) /\ tracker'[k] = tracker[k] /\ sockets'[k] = sockets[k]
    BY <1>6, <1>7, <1>13 DEF Ends
  <2>3. /\ \A kinds : Has(k, c, kinds) => Has(k, c, kinds)'
        /\ Has(k, c, Established)' => Has(k, c, Established)
        /\ \A i \in DOMAIN inbox'[k][c] :
               (i \in DOMAIN inbox[k][c] /\ inbox'[k][c][i] = inbox[k][c][i])
               \/ inbox'[k][c][i].kind \notin Established
        /\ c \in sockets[n] /\ c \in sockets[k] => Has(k, c, {"Disconnected"})'
    BY <1>9, <1>13
  <2>4. /\ c \in sockets[k] /\ c \notin sockets[l] => Has(k, c, {"Disconnected"})
        /\ c \in sockets[k] => Has(k, c, Established) \/ Tracked(tracker[k], c)
        /\ Tracked(tracker[k], c) => c \in sockets[k] \/ Has(k, c, {"Disconnected"})
        /\ Has(k, c, Established) =>
               ~Tracked(tracker[k], c) /\ (c \in sockets[k] \/ Has(k, c, {"Disconnected"}))
        /\ \A i \in DOMAIN inbox[k][c] : i > 1 => inbox[k][c][i].kind \notin Established
        /\ c \in sockets[k] /\ c \in sockets[l] =>
               \/ PeerFor(tracker[k], c) = {l}
               \/ Has(k, c, {"Hello"})
               \/ Has(l, c, Established)
    BY <2>1, <2>2 DEF EndInv
  <2>5. c \in sockets[k] /\ c \notin sockets'[l] => Has(k, c, {"Disconnected"})'
    BY <1>7, <2>3, <2>4
  <2>6. c \in sockets[k] /\ c \in sockets'[l] =>
            \/ PeerFor(tracker[k], c) = {l} \/ Has(k, c, {"Hello"})' \/ Has(l, c, Established)'
    <3>1. CASE l = n
      BY <1>7, <3>1
    <3>2. CASE l # n
      <4>1. \A kinds : Has(l, c, kinds) => Has(l, c, kinds)'
        BY <1>9, <3>2
      <4>2. sockets'[l] = sockets[l]
        BY <1>7, <3>2
      <4>3. QED
        BY <2>3, <2>4, <4>1, <4>2
    <3>3. QED
      BY <3>1, <3>2
  <2>7. \A i \in DOMAIN inbox'[k][c] : i > 1 => inbox'[k][c][i].kind \notin Established
    BY <2>3, <2>4
  <2>8. /\ c \in sockets[k] => Has(k, c, Established)' \/ Tracked(tracker[k], c)
        /\ Tracked(tracker[k], c) => c \in sockets[k] \/ Has(k, c, {"Disconnected"})'
        /\ Has(k, c, Established)' =>
               ~Tracked(tracker[k], c) /\ (c \in sockets[k] \/ Has(k, c, {"Disconnected"})')
    BY <2>3, <2>4
  <2>9. QED
    BY <1>4, <2>1, <2>2, <2>5, <2>6, <2>7, <2>8 DEF EndInv
<1>14. QED
  <2>1. \A k \in Nodes : OwnEnds(k)'
    BY <1>10, <1>11
  <2>2. \A k \in Nodes, c \in Conns : IsEnd(k, c) => EndInv(k, c)'
    BY <1>12, <1>13
  <2>3. QED
    BY <1>4, <1>8, <2>1, <2>2 DEF Ends

\* What the runtime is told and gets changes with the worker's steps only.
LEMMA NothingTold ==
    ASSUME TransportInv, Ends', UNCHANGED <<plan, tracker, running, announced, taken>>
    PROVE  TransportInv'
BY DEF TransportInv, AnnouncedWhileConnected, Numbered, EventsInOrder

\* A step of the runtime leaves the connections alone, and asks for what has a kind.
LEMMA RuntimeStep ==
    ASSUME TransportInv, NEW n \in Nodes, TakeTransportEvent(n) \/ Broadcast(n)
    PROVE  TransportInv'
<1>1. UNCHANGED <<plan, tracker, next, link, sockets, inbox, running, announced, taken>>
  BY DEF TakeTransportEvent, Broadcast
<1>2. Ends /\ Shapes
  BY DEF TransportInv, Ends
<1>3. DOMAIN command' = Nodes /\ \A k \in Nodes : \A cmd \in command'[k] : cmd.what \in Whats
  <2>1. CASE TakeTransportEvent(n)
    <3>1. PICK asked : asked =
              IF Head(upward[n]).kind = "PeerAuthenticated"
              THEN {[kind |-> "Send", peer |-> Head(upward[n]).peer, what |-> "SchedulerState"]}
              ELSE {}
      OBVIOUS
    <3>2. \A cmd \in asked : cmd.what \in Whats
      BY <3>1 DEF Whats
    <3>3. command' = [command EXCEPT ![n] = asked]
      BY <2>1, <3>1 DEF TakeTransportEvent
    <3>4. QED
      BY <1>2, <3>2, <3>3 DEF Shapes
  <2>2. CASE Broadcast(n)
    BY <1>2, <2>2 DEF Broadcast, Whats, Shapes
  <2>3. QED
    BY <2>1, <2>2
<1>4. Shapes'
  BY <1>1, <1>2, <1>3 DEF Shapes
<1>5. /\ \A k : OwnEnds(k)' <=> OwnEnds(k)
      /\ \A k, c : (IsEnd(k, c)' <=> IsEnd(k, c)) /\ (EndInv(k, c)' <=> EndInv(k, c))
  BY <1>1 DEF OwnEnds, EndInv, IsEnd, OtherEnd, Items, FramesFrom, Allowed, Has
<1>6. Ends'
  BY <1>2, <1>4, <1>5 DEF Ends
<1>7. QED
  BY <1>1, <1>6, NothingTold

\* A daemon that stops has no peer to tell of any more.
LEMMA StopStep ==
    ASSUME TransportInv, NEW n \in Nodes, Stop(n)
    PROVE  TransportInv'
<1>1. Ends /\ Shapes
  BY DEF TransportInv, Ends
<1>2. Ends'
  BY <1>1, StopKeepsEnds
<1>3. /\ tracker' = [tracker EXCEPT ![n] = NewTracker(n)]
      /\ announced' = [announced EXCEPT ![n] = [p \in Nodes |-> 0]]
      /\ running' = running \ {n} /\ UNCHANGED <<plan, taken>>
  BY DEF Stop
<1>4. DOMAIN tracker = Nodes /\ announced \in [Nodes -> [Nodes -> Int]] /\ running \subseteq Nodes
  BY <1>1 DEF TransportInv, Shapes
<1>5. announced' \in [Nodes -> [Nodes -> Int]]
  BY <1>3, <1>4
<1>6. AnnouncedWhileConnected'
  <2> SUFFICES ASSUME NEW k \in Nodes, NEW p \in Nodes
               PROVE  announced'[k][p] = IF IsConnected(tracker'[k], p) THEN 1 ELSE 0
    BY DEF AnnouncedWhileConnected
  <2>1. CASE k = n
    <3>1. announced'[n][p] = 0 /\ tracker'[n] = NewTracker(n)
      BY <1>3, <1>4
    <3>2. ~IsConnected(NewTracker(n), p)
      BY NewTrackerSound, ConnectedRecorded
    <3>3. QED
      BY <2>1, <3>1, <3>2
  <2>2. CASE k # n
    <3>1. announced'[k] = announced[k] /\ tracker'[k] = tracker[k]
      BY <1>3, <1>4, <2>2
    <3>2. QED
      BY <3>1 DEF TransportInv, AnnouncedWhileConnected
  <2>3. QED
    BY <2>1, <2>2
<1>7. Numbered'
  <2>1. \A k \in running', p \in Nodes : \A i \in DOMAIN taken'[k][p] :
            taken'[k][p][i].seq <= tracker'[k].highest[p]
    <3> TAKE k \in running', p \in Nodes
    <3>1. k \in running /\ k # n /\ tracker'[k] = tracker[k]
      BY <1>3, <1>4
    <3>2. QED
      BY <1>3, <3>1 DEF TransportInv, Numbered
  <2>2. QED
    BY <1>3, <2>1 DEF TransportInv, Numbered, EventsInOrder
<1>8. QED
  BY <1>2, <1>5, <1>6, <1>7 DEF TransportInv

\* The plan sets out without connections, and with nothing accepted.
LEMMA TransportInit ==
    ASSUME Init
    PROVE  TransportInv
<1>1. link = <<>> /\ DOMAIN link = {} /\ \A n, c : ~IsEnd(n, c)
  BY DEF Init, IsEnd
<1>2. /\ plan \in Plans /\ tracker = [n \in Nodes |-> NewTracker(n)]
      /\ next = [n \in Nodes |-> 1] /\ sockets = [n \in Nodes |-> {}]
      /\ inbox = [n \in Nodes |-> [c \in Conns |-> <<>>]]
      /\ command = [n \in Nodes |-> {}] /\ running = Nodes
      /\ announced = [n \in Nodes |-> [p \in Nodes |-> 0]]
      /\ taken = [n \in Nodes |-> [p \in Nodes |-> <<>>]]
  BY DEF Init
<1>3. Shapes
  <2>1. link \in Seq({d \in Nodes \X Nodes : d[1] # d[2]})
    BY <1>1, EmptySeq
  <2>2. QED
    BY <1>1, <1>2, <2>1 DEF Shapes
<1>4. ASSUME NEW n \in Nodes PROVE OwnEnds(n)
  <2>1. SoundTracker(NewTracker(n)) /\ NewTracker(n).self = n
        /\ \A c, q : ~Recorded(NewTracker(n), c, q)
    BY NewTrackerSound DEF NewTracker
  <2>2. tracker[n] = NewTracker(n) /\ sockets[n] = {} /\ inbox[n] = [c \in Conns |-> <<>>]
    BY <1>2
  <2>3. QED
    BY <1>1, <2>1, <2>2 DEF OwnEnds
<1>5. Ends
  BY <1>1, <1>3, <1>4 DEF Ends
<1>6. announced \in [Nodes -> [Nodes -> Int]] /\ AnnouncedWhileConnected
  <2>1. \A n, p \in Nodes : announced[n][p] = 0 /\ tracker[n] = NewTracker(n)
    BY <1>2
  <2>2. \A n, p \in Nodes : ~IsConnected(NewTracker(n), p)
    BY NewTrackerSound, ConnectedRecorded
  <2>3. QED
    BY <1>2, <2>1, <2>2 DEF AnnouncedWhileConnected
<1>7. Numbered
  <2>1. \A n, p \in Nodes : taken[n][p] = <<>> /\ DOMAIN taken[n][p] = {}
    BY <1>2
  <2>2. taken \in [Nodes -> [Nodes -> Seq([seq : Nat, what : Whats])]]
    <3>1. <<>> \in Seq([seq : Nat, what : Whats])
      BY EmptySeq
    <3>2. QED
      BY <1>2, <3>1
  <2>3. QED
    BY <1>2, <2>1, <2>2 DEF Numbered, EventsInOrder
<1>8. QED
  BY <1>5, <1>6, <1>7 DEF TransportInv

\* Every step keeps it all.
LEMMA TransportStep ==
    ASSUME TransportInv, [Next]_vars
    PROVE  TransportInv'
<1>1. Ends /\ Shapes
  BY DEF TransportInv, Ends
<1>2. ASSUME NEW n \in Nodes, Worker(n) PROVE TransportInv'
  <2>1. CASE HandleCommand(n)
    BY <2>1, CommandStep
  <2>2. ASSUME NEW c \in Conns, Handle(n, c) PROVE TransportInv'
    BY <2>2, HandleStep
  <2>3. QED
    BY <1>2, <2>1, <2>2 DEF Worker
<1>3. ASSUME NEW n \in Nodes, NEW m \in Nodes \ {n}, Dial(n, m) PROVE TransportInv'
  <2>1. Ends'
    BY <1>1, <1>3, DialKeepsEnds
  <2>2. UNCHANGED <<plan, tracker, running, announced, taken>>
    BY <1>3 DEF Dial
  <2>3. QED
    BY <2>1, <2>2, NothingTold
<1>4. ASSUME NEW c \in DOMAIN link, ConnectionBreaks(c) PROVE TransportInv'
  <2>1. Ends'
    BY <1>1, <1>4, BreakKeepsEnds
  <2>2. UNCHANGED <<plan, tracker, running, announced, taken>>
    BY <1>4 DEF ConnectionBreaks
  <2>3. QED
    BY <2>1, <2>2, NothingTold
<1>5. ASSUME UNCHANGED vars PROVE TransportInv'
  <2>1. /\ \A k : OwnEnds(k)' <=> OwnEnds(k)
        /\ \A k, c : (IsEnd(k, c)' <=> IsEnd(k, c)) /\ (EndInv(k, c)' <=> EndInv(k, c))
    BY <1>5 DEF vars, OwnEnds, EndInv, IsEnd, OtherEnd, Items, FramesFrom, Allowed, Has
  <2>2. Shapes'
    BY <1>1, <1>5 DEF vars, Shapes
  <2>3. Ends'
    BY <1>1, <1>5, <2>1, <2>2 DEF vars, Ends
  <2>4. QED
    BY <1>5, <2>3, NothingTold DEF vars
<1>6. QED
  BY <1>2, <1>3, <1>4, <1>5, RuntimeStep, StopStep DEF Next

-----------------------------------------------------------------------------
(* The theorems *)

LEMMA TransportHolds == Spec => []TransportInv
<1>1. Init => TransportInv
  BY TransportInit
<1>2. TransportInv /\ [Next]_vars => TransportInv'
  BY TransportStep
<1>3. QED
  BY <1>1, <1>2, PTL DEF Spec

(***************************************************************************)
(* The runtime's picture of who is connected is the worker's: it is told   *)
(* of a peer once when the first connection is authenticated and once when *)
(* the last ends, whatever connections replace each other, break or are    *)
(* collapsed (authenticate_peer and close_endpoint).                       *)
(***************************************************************************)
THEOREM PeersAnnouncedOnce == Spec => []AnnouncedWhileConnected
<1>1. TransportInv => AnnouncedWhileConnected
  BY DEF TransportInv
<1>2. QED
  BY <1>1, TransportHolds, PTL

(***************************************************************************)
(* A peer's events reach the runtime in the order the peer sent them, none *)
(* twice, over any number of connections (accept_inbound_event).           *)
(***************************************************************************)
THEOREM EventsKeepTheirOrder == Spec => []EventsInOrder
<1>1. TransportInv => EventsInOrder
  BY DEF TransportInv, Numbered
<1>2. QED
  BY <1>1, TransportHolds, PTL

(***************************************************************************)
(* Daemons whose break settings differ are never connected and take no     *)
(* event from each other, whoever dials (handle_peer_hello).               *)
(***************************************************************************)
THEOREM StrangersStayStrangers == Spec => []StrangersExchangeNothing
<1>1. ASSUME TransportInv PROVE StrangersExchangeNothing
  <2> SUFFICES ASSUME NEW n \in Nodes, NEW p \in Nodes, plan.config[n] # plan.config[p]
               PROVE  ~IsConnected(tracker[n], p) /\ taken[n][p] = <<>>
    BY DEF StrangersExchangeNothing
  <2>1. OwnEnds(n)
    BY <1>1 DEF TransportInv, Ends
  <2>2. ASSUME NEW c, Recorded(tracker[n], c, {p}) PROVE FALSE
    <3>1. p \in Allowed(n, c)
      BY <2>1, <2>2 DEF OwnEnds
    <3>2. QED
      BY <3>1 DEF Allowed
  <2>3. taken[n][p] = <<>>
    BY <1>1 DEF TransportInv, Numbered
  <2>4. QED
    BY <2>2, <2>3, ConnectedRecorded
<1>2. QED
  BY <1>1, TransportHolds, PTL

\* With nothing under way, what is open at one end is open at the other, tracked
\* and authenticated.
LEMMA QuietEnds ==
    ASSUME Ends, Quiet, NEW n \in Nodes, NEW c, IsEnd(n, c)
    PROVE  /\ c \in sockets[n] => /\ c \in sockets[OtherEnd(n, c)]
                                  /\ PeerFor(tracker[n], c) = {OtherEnd(n, c)}
                                  /\ Tracked(tracker[n], c)
           /\ Tracked(tracker[n], c) => c \in sockets[n]
<1>1. c \in Conns /\ OtherEnd(n, c) \in Nodes /\ EndInv(n, c)
  BY TwoEnds DEF Ends
<1>2. inbox[n][c] = <<>> /\ inbox[OtherEnd(n, c)][c] = <<>>
  BY <1>1 DEF Quiet
<1>3. \A kinds : ~Has(n, c, kinds) /\ ~Has(OtherEnd(n, c), c, kinds)
  <2>1. DOMAIN inbox[n][c] = {} /\ DOMAIN inbox[OtherEnd(n, c)][c] = {}
    BY <1>2
  <2>2. QED
    BY <2>1 DEF Has
<1>4. QED
  BY <1>1, <1>3 DEF EndInv

\* With nothing under way, the endpoint of a peer is the one open connection to it.
LEMMA QuietEndpoint ==
    ASSUME Ends, Quiet, NEW n \in Nodes, NEW m \in Nodes
    PROVE  {c \in sockets[n] : OtherEnd(n, c) = m} = EndpointFor(tracker[n], m)
<1>1. OwnEnds(n) /\ SoundTracker(tracker[n]) /\ TrackerOK(tracker[n])
  BY DEF Ends, OwnEnds, SoundTracker
<1>2. ASSUME NEW c \in EndpointFor(tracker[n], m)
      PROVE  EndpointFor(tracker[n], m) = {c} /\ Recorded(tracker[n], c, {m})
  <2>1. IsConnected(tracker[n], m) /\ c = First(OfPeer(tracker[n], m)).ep
        /\ EndpointFor(tracker[n], m) = {c}
    BY <1>2 DEF EndpointFor
  <2>2. First(OfPeer(tracker[n], m)) \in OfPeer(tracker[n], m)
    <3>1. OfPeer(tracker[n], m) \in SUBSET Connections
      BY <1>1 DEF TrackerOK, OfPeer
    <3>2. QED
      BY <2>1, <3>1, FirstOf DEF IsConnected
  <2>3. QED
    BY <2>1, <2>2 DEF OfPeer, Recorded
<1>3. ASSUME NEW c \in sockets[n], OtherEnd(n, c) = m PROVE c \in EndpointFor(tracker[n], m)
  <2>1. IsEnd(n, c)
    BY <1>1 DEF OwnEnds
  <2>2. PeerFor(tracker[n], c) = {m} /\ Tracked(tracker[n], c)
    BY <1>3, <2>1, QuietEnds
  <2>3. Recorded(tracker[n], c, {m})
    BY <1>1, <2>2, PeerOfRecorded
  <2>4. PICK d : d \in EndpointFor(tracker[n], m)
    BY <2>3, ConnectedRecorded DEF EndpointFor
  <2>5. Recorded(tracker[n], d, {m})
    BY <1>2, <2>4
  <2>6. c \in Conns /\ d \in Conns
    BY <1>1, <2>3, <2>5, RecordedInConns
  <2>7. c = d
    BY <1>1, <2>3, <2>5, <2>6 DEF SoundTracker
  <2>8. QED
    BY <2>4, <2>7
<1>4. ASSUME NEW c \in EndpointFor(tracker[n], m) PROVE c \in sockets[n] /\ OtherEnd(n, c) = m
  <2>1. Recorded(tracker[n], c, {m})
    BY <1>2, <1>4
  <2>2. IsEnd(n, c) /\ m \in Allowed(n, c)
    BY <1>1, <2>1 DEF OwnEnds
  <2>3. c \in sockets[n]
    BY <2>1, <2>2, QuietEnds, TrackedRecorded
  <2>4. QED
    BY <2>2, <2>3 DEF Allowed
<1>5. QED
  BY <1>3, <1>4

(***************************************************************************)
(* Once everything under way has been handled, no daemon has a connection  *)
(* open or authenticated that its other end has not: breaks, collapses and *)
(* daemons that stop leave nothing half open.                              *)
(***************************************************************************)
THEOREM NothingStaysHalfOpen == Spec => []EndsAgree
<1>1. ASSUME TransportInv PROVE EndsAgree
  <2> SUFFICES ASSUME Quiet, NEW n \in running, NEW m \in Nodes \ {n}
               PROVE  /\ EndpointFor(tracker[n], m) = EndpointFor(tracker[m], n)
                      /\ {c \in sockets[n] : OtherEnd(n, c) = m} = EndpointFor(tracker[n], m)
    BY DEF EndsAgree
  <2>1. Ends /\ Shapes /\ n \in Nodes /\ m \in Nodes
    BY <1>1 DEF TransportInv, Ends, Shapes
  <2>2. ASSUME NEW k \in Nodes, NEW l \in Nodes, NEW c \in sockets[k], OtherEnd(k, c) = l
        PROVE  c \in sockets[l] /\ OtherEnd(l, c) = k
    <3>1. IsEnd(k, c)
      BY <2>1 DEF Ends, OwnEnds
    <3>2. QED
      BY <2>1, <2>2, <3>1, QuietEnds, TwoEnds
  <2>3. {c \in sockets[n] : OtherEnd(n, c) = m} = {c \in sockets[m] : OtherEnd(m, c) = n}
    BY <2>1, <2>2
  <2>4. QED
    BY <2>1, <2>3, QuietEndpoint
<1>2. QED
  BY <1>1, TransportHolds, PTL
=============================================================================
