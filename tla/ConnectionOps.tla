---------------------------- MODULE ConnectionOps ---------------------------
(***************************************************************************)
(* The connection tracker of src/sync_transport/connections.rs as operators *)
(* on a value.  A tracker is a record                                      *)
(*   self      the id of the daemon                                        *)
(*   conns     the connections, each [ep, dir, peer, nth]: its endpoint,    *)
(*             who dialled, an Option of the peer whose hello came over it, *)
(*             and its place in the vector, from 1                         *)
(*   highest   the highest sequence number accepted from each peer, -1 for *)
(*             none; it outlives the peer's connections                    *)
(* Peer ids are numbers, ordered as the code orders their bytes.           *)
(***************************************************************************)
EXTENDS Integers, FiniteSets, Sequences, SequencesExt

CONSTANT Nodes      \* the peer ids

ASSUME NodesAssumption == Nodes \subseteq Nat /\ IsFiniteSet(Nodes)

NewTracker(n) == [self |-> n, conns |-> {}, highest |-> [p \in Nodes |-> -1]]

Tracked(t, ep) == \E c \in t.conns : c.ep = ep
OfPeer(t, p) == {c \in t.conns : c.peer = {p}}
IsConnected(t, p) == OfPeer(t, p) # {}
First(cs) == CHOOSE c \in cs : \A d \in cs : c.nth <= d.nth

\* peer_for_endpoint, endpoint_for_peer, authenticated_endpoints
PeerFor(t, ep) == UNION {c.peer : c \in {c \in t.conns : c.ep = ep}}
EndpointFor(t, p) == IF IsConnected(t, p) THEN {First(OfPeer(t, p)).ep} ELSE {}
Authenticated(t) == {c.ep : c \in {c \in t.conns : c.peer # {}}}

\* A connection is recorded behind the others, or given its direction again.
RecordEndpoint(t, ep, dir) ==
    IF Tracked(t, ep)
    THEN [t EXCEPT !.conns = {IF c.ep = ep THEN [c EXCEPT !.dir = dir] ELSE c : c \in @}]
    ELSE [t EXCEPT !.conns =
             @ \cup {[ep |-> ep, dir |-> dir, peer |-> {}, nth |-> Cardinality(@) + 1]}]

\* remove_endpoint, for a set of them: what stays moves up.  The peer has gone
\* when that was its last connection.
MovedUp(cs) == {[c EXCEPT !.nth = Cardinality({d \in cs : d.nth <= c.nth})] : c \in cs}
Dropping(t, eps) == [t EXCEPT !.conns = MovedUp({c \in @ : c.ep \notin eps})]
Without(t, ep) == Dropping(t, {ep})
Disconnected(t, ep) == {p \in PeerFor(t, ep) : ~IsConnected(Without(t, ep), p)}

\* desired_connection_direction: the same connection seen from either end.
Desired_Outgoing(n, p) == "Outgoing"
Desired(n, p) == IF n < p THEN "Outgoing" ELSE "Incoming"

\* endpoint_to_keep: the first of the desired direction, else the first.
EndpointToKeep(t, p) ==
    LET desired == {c \in OfPeer(t, p) : c.dir = Desired(t.self, p)}
    IN  First(IF desired # {} THEN desired ELSE OfPeer(t, p)).ep

\* collapse_duplicate_peer_connections: the endpoints that go.
Surplus(t, p) == {c.ep : c \in OfPeer(t, p)} \ {EndpointToKeep(t, p)}

\* authenticate_peer: the tracker, the endpoints to close, and whether the peer
\* is new.  A hello from this daemon itself, or over an endpoint no longer
\* tracked, closes the endpoint.
Claimed(t, ep, p) ==
    [t EXCEPT !.conns = {IF c.ep = ep THEN [c EXCEPT !.peer = {p}] ELSE c : c \in @}]
Authentication_AlwaysNew(t, ep, p) ==
    LET surplus == Surplus(Claimed(t, ep, p), p)
    IN  IF p = t.self THEN [tracker |-> Without(t, ep), close |-> {ep}, isNew |-> FALSE]
        ELSE IF ~Tracked(t, ep) THEN [tracker |-> t, close |-> {ep}, isNew |-> FALSE]
        ELSE [tracker |-> Dropping(Claimed(t, ep, p), surplus),
              close   |-> surplus,
              isNew   |-> ep \notin surplus]
Authentication(t, ep, p) ==
    LET surplus == Surplus(Claimed(t, ep, p), p)
    IN  IF p = t.self THEN [tracker |-> Without(t, ep), close |-> {ep}, isNew |-> FALSE]
        ELSE IF ~Tracked(t, ep) THEN [tracker |-> t, close |-> {ep}, isNew |-> FALSE]
        ELSE [tracker |-> Dropping(Claimed(t, ep, p), surplus),
              close   |-> surplus,
              isNew   |-> ~IsConnected(t, p) /\ ep \notin surplus]

\* accept_inbound_event: its four answers.
Acceptance_AnySequence(t, ep, sender, seq) ==
    IF PeerFor(t, ep) = {} THEN "Unauthenticated"
    ELSE IF sender \notin PeerFor(t, ep) THEN "SenderMismatch"
    ELSE "Accepted"
Acceptance(t, ep, sender, seq) ==
    IF PeerFor(t, ep) = {} THEN "Unauthenticated"
    ELSE IF sender \notin PeerFor(t, ep) THEN "SenderMismatch"
    ELSE IF seq <= t.highest[sender] THEN "Replayed"
    ELSE "Accepted"
Accepting(t, sender, seq) == [t EXCEPT !.highest[sender] = seq]
=============================================================================
