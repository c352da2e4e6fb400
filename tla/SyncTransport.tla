---------------------------- MODULE SyncTransport ---------------------------
(***************************************************************************)
(* The sync transports of a few daemons and the network between them: the  *)
(* worker thread of src/sync_transport/worker.rs, the discovery thread that *)
(* dials, and the runtime above, which waits for the worker's reply to     *)
(* every command it sends (src/sync_transport.rs).                         *)
(*                                                                         *)
(* A connection is numbered in the order of dialling.  For each of its ends *)
(* the network keeps what the worker there has not handled yet, in order:  *)
(* message-io keeps the order within a connection and none between two.    *)
(*                                                                         *)
(* Left out: frames that do not decode (a peer with another secret is not  *)
(* dialled), the payload of events, and the u64 limit of the sequence.     *)
(***************************************************************************)
EXTENDS ConnectionOps

\* A plan is what happens from outside, and how often at most: the fingerprint of
\* each daemon's break settings, who dials whom how often, and the bounds on the
\* broadcasts, on the connections that break and on the daemons that stop.
CONSTANT Plans

Dials(p) == FoldSet(LAMBDA d, sum : p.dialling[d] + sum, 0, DOMAIN p.dialling)
Conns == 1..Max({Dials(p) : p \in Plans})

ASSUME PlansAssumption ==
    \A p \in Plans :
        /\ DOMAIN p.config = Nodes
        /\ DOMAIN p.dialling \subseteq {d \in Nodes \X Nodes : d[1] # d[2]}
        /\ \A d \in DOMAIN p.dialling : p.dialling[d] \in Nat
        /\ {p.broadcasts, p.failures, p.stops} \subseteq Nat

VARIABLES
    plan,       \* the plan of this behaviour
    tracker,    \* tracker[n]: n's connection tracker
    next,       \* next[n]: the next sequence number, shared by all peers
    link,       \* the connections dialled so far: a sequence of <<from, to>>
    sockets,    \* sockets[n]: the connections n has not removed
    inbox,      \* inbox[n][c]: what n's worker has still to handle of c
    upward,     \* upward[n]: worker to runtime
    command,    \* command[n]: the command n's runtime waits for, an Option
    running,    \* the daemons whose transport has not been shut down
    broadcasts, failures,       \* counters of the bounded actions
    announced,  \* history: authentications less disconnections reported of a peer
    taken       \* history: the events accepted from a peer, [seq, what]

vars == <<plan, tracker, next, link, sockets, inbox, upward, command, running,
          broadcasts, failures, announced, taken>>

HelloFrame(n) == [kind |-> "Hello", sender |-> n, config |-> plan.config[n]]
EventFrame(n, seq, what) == [kind |-> "Event", sender |-> n, seq |-> seq, what |-> what]
Item(k) == [kind |-> k]

OtherEnd(n, c) == IF link[c][1] = n THEN link[c][2] ELSE link[c][1]

Init ==
    /\ plan \in Plans
    /\ tracker = [n \in Nodes |-> NewTracker(n)]
    /\ next = [n \in Nodes |-> 1]
    /\ link = <<>>
    /\ sockets = [n \in Nodes |-> {}]
    /\ inbox = [n \in Nodes |-> [c \in Conns |-> <<>>]]
    /\ upward = [n \in Nodes |-> <<>>]
    /\ command = [n \in Nodes |-> {}]
    /\ running = Nodes
    /\ broadcasts = 0 /\ failures = 0
    /\ announced = [n \in Nodes |-> [p \in Nodes |-> 0]]
    /\ taken = [n \in Nodes |-> [p \in Nodes |-> <<>>]]

-----------------------------------------------------------------------------
(* The network *)

\* Frames n puts on the connections of frames, then the connections of closing
\* it removes: the other end reads what was sent before it sees the end.  What
\* is sent to an end that has removed the connection is lost.
Network_KeepsOpen(n, rest, frames, closing) ==
    /\ sockets' = sockets
    /\ inbox' = [m \in Nodes |-> [c \in Conns |->
           IF m = n THEN rest[c]
           ELSE IF c \notin DOMAIN link \/ c \notin sockets[m] \/ m # OtherEnd(n, c)
                THEN inbox[m][c]
           ELSE inbox[m][c] \o (IF c \in DOMAIN frames /\ c \in sockets[n]
                                THEN frames[c] ELSE <<>>)]]
Network(n, rest, frames, closing) ==
    /\ sockets' = [sockets EXCEPT ![n] = @ \ closing]
    /\ inbox' = [m \in Nodes |-> [c \in Conns |->
           IF m = n THEN rest[c]
           ELSE IF c \notin DOMAIN link \/ c \notin sockets[m] \/ m # OtherEnd(n, c)
                THEN inbox[m][c]
           ELSE inbox[m][c] \o (IF c \in DOMAIN frames /\ c \in sockets[n]
                                THEN frames[c] ELSE <<>>)
                            \o (IF c \in closing \cap sockets[n]
                                THEN <<Item("Disconnected")>> ELSE <<>>)]]

Silence == [c \in {} |-> <<>>]

\* connect_discovered_peer, once per resolved service: no connection there is
\* makes a difference.  A daemon that has stopped does not answer.
Dial(n, m) ==
    /\ n \in running
    /\ <<n, m>> \in DOMAIN plan.dialling
    /\ Cardinality({c \in DOMAIN link : link[c] = <<n, m>>}) < plan.dialling[<<n, m>>]
    /\ LET c == Len(link) + 1
       IN  /\ c \in Conns
           /\ link' = Append(link, <<n, m>>)
           /\ IF m \in running
              THEN /\ sockets' = [sockets EXCEPT ![n] = @ \cup {c}, ![m] = @ \cup {c}]
                   /\ inbox' = [inbox EXCEPT ![n][c] = <<Item("Connected")>>,
                                             ![m][c] = <<Item("Accepted")>>]
              ELSE /\ inbox' = [inbox EXCEPT ![n][c] = <<Item("ConnectFailed")>>]
                   /\ UNCHANGED sockets
    /\ UNCHANGED <<plan, tracker, next, upward, command, running, broadcasts, failures,
                   announced, taken>>

\* A connection breaks: what is under way to either end is lost from some frame
\* on, and both ends are told.
ConnectionBreaks(c) ==
    /\ failures < plan.failures
    /\ failures' = failures + 1
    /\ \E n, m \in Nodes :
           /\ link[c] = <<n, m>> /\ c \in sockets[n] \cap sockets[m]
           /\ \E i \in 0..Len(inbox[n][c]), j \in 0..Len(inbox[m][c]) :
                  inbox' = [inbox EXCEPT
                      ![n][c] = SubSeq(@, 1, i) \o <<Item("Disconnected")>>,
                      ![m][c] = SubSeq(@, 1, j) \o <<Item("Disconnected")>>]
           /\ sockets' = [sockets EXCEPT ![n] = @ \ {c}, ![m] = @ \ {c}]
    /\ UNCHANGED <<plan, tracker, next, link, upward, command, running, broadcasts,
                   announced, taken>>

-----------------------------------------------------------------------------
(* The worker *)

Emit(n, es) == upward' = [upward EXCEPT ![n] = @ \o es]
PeerEvent(k, p) == [kind |-> k, peer |-> p]

\* close_endpoint, for a set of endpoints and a tracker the handler has already
\* changed: the events it emits and the tracker it leaves.
Gone(t, eps) == UNION {Disconnected(t, ep) : ep \in eps}
GoneEvents(t, eps) == SetToSeq({PeerEvent("PeerDisconnected", p) : p \in Gone(t, eps)})
Announce(n, new, gone) ==
    announced' = [announced EXCEPT ![n] =
        [p \in Nodes |-> @[p] + (IF p \in new THEN 1 ELSE 0) - (IF p \in gone THEN 1 ELSE 0)]]

\* Sending fails once message-io has seen the connection end; the worker is told
\* later, by the Disconnected behind it.
MayFail(n, eps) ==
    {ep \in eps : ep \notin sockets[n]
                     \/ \E i \in DOMAIN inbox[n][ep] : inbox[n][ep][i].kind = "Disconnected"}

Rest(n, c) == [inbox[n] EXCEPT ![c] = Tail(@)]

Close(n, c, rest, frames) ==
    /\ tracker' = [tracker EXCEPT ![n] = Without(@, c)]
    /\ Emit(n, GoneEvents(tracker[n], {c}))
    /\ Announce(n, {}, Gone(tracker[n], {c}))
    /\ Network(n, rest, frames, {c})

\* handle_network_event for Connected and Accepted, with send_hello.
HandleEstablished(n, c, dir) ==
    /\ Head(inbox[n][c]).kind = (IF dir = "Outgoing" THEN "Connected" ELSE "Accepted")
    /\ \/ /\ tracker' = [tracker EXCEPT ![n] = RecordEndpoint(@, c, dir)]
          /\ Network(n, Rest(n, c), [ep \in {c} |-> <<HelloFrame(n)>>], {})
          /\ UNCHANGED <<upward, announced>>
       \/ /\ c \in MayFail(n, {c})
          /\ Close(n, c, Rest(n, c), Silence)
    /\ UNCHANGED taken

\* handle_network_event for ConnectFailed and Disconnected.
HandleEnd(n, c) ==
    /\ Head(inbox[n][c]).kind \in {"ConnectFailed", "Disconnected"}
    /\ Close(n, c, Rest(n, c), Silence)
    /\ UNCHANGED taken

\* handle_peer_hello: a peer with other break settings is rejected, whatever the
\* connection was; its own hello is left to authenticate_peer.
Incompatible_Never(n, f) == FALSE
Incompatible(n, f) == f.sender # n /\ f.config # plan.config[n]
HandleHello(n, c) ==
    LET f == Head(inbox[n][c])
        a == Authentication(tracker[n], c, f.sender)
    IN  /\ f.kind = "Hello"
        /\ IF Incompatible(n, f)
           THEN /\ tracker' = [tracker EXCEPT ![n] = Without(@, c)]
                /\ Emit(n, <<PeerEvent("PeerRejected", f.sender)>>
                               \o GoneEvents(tracker[n], {c}))
                /\ Announce(n, {}, Gone(tracker[n], {c}))
                /\ Network(n, Rest(n, c), Silence, {c})
           ELSE /\ tracker' = [tracker EXCEPT ![n] = a.tracker]
                /\ Emit(n, IF a.isNew THEN <<PeerEvent("PeerAuthenticated", f.sender)>>
                           ELSE <<>>)
                /\ Announce(n, IF a.isNew THEN {f.sender} ELSE {}, {})
                /\ Network(n, Rest(n, c), Silence, a.close)
        /\ UNCHANGED taken

\* handle_domain_event: an event is passed up, or dropped, or ends the connection.
HandleEvent(n, c) ==
    LET f == Head(inbox[n][c])
        answer == Acceptance(tracker[n], c, f.sender, f.seq)
    IN  /\ f.kind = "Event"
        /\ \/ /\ answer = "Accepted"
              /\ tracker' = [tracker EXCEPT ![n] = Accepting(@, f.sender, f.seq)]
              /\ Emit(n, <<[kind |-> "Domain", peer |-> f.sender, what |-> f.what]>>)
              /\ taken' = [taken EXCEPT ![n][f.sender] =
                              Append(@, [seq |-> f.seq, what |-> f.what])]
              /\ Network(n, Rest(n, c), Silence, {})
              /\ UNCHANGED announced
           \/ /\ answer = "Replayed"
              /\ Network(n, Rest(n, c), Silence, {})
              /\ UNCHANGED <<tracker, upward, announced, taken>>
           \/ /\ answer \in {"Unauthenticated", "SenderMismatch"}
              /\ Close(n, c, Rest(n, c), Silence)
              /\ UNCHANGED taken

Handle(n, c) ==
    /\ n \in running /\ c \in DOMAIN link /\ inbox[n][c] # <<>>
    /\ \/ HandleEstablished(n, c, "Outgoing")
       \/ HandleEstablished(n, c, "Incoming")
       \/ HandleEnd(n, c)
       \/ HandleHello(n, c)
       \/ HandleEvent(n, c)
    /\ UNCHANGED <<plan, next, link, command, running, broadcasts, failures>>

\* encode_event: a number is used by every event that is encoded, wherever the
\* frame gets; a directed event to a peer without a connection is not.
SequenceAfter(n, cmd, to) ==
    IF cmd.kind = "Send" /\ to = {} THEN next[n] ELSE next[n] + 1

\* handle_transport_commands: one frame to every authenticated endpoint, or to
\* the endpoint of a peer.
HandleCommand(n) ==
    /\ n \in running
    /\ \E cmd \in command[n] :
          LET to == IF cmd.kind = "Broadcast" THEN Authenticated(tracker[n])
                    ELSE EndpointFor(tracker[n], cmd.peer)
              f == EventFrame(n, next[n], cmd.what)
          IN  \E failed \in SUBSET MayFail(n, to) :
                  /\ tracker' = [tracker EXCEPT ![n] = Dropping(@, failed)]
                  /\ Emit(n, GoneEvents(tracker[n], failed))
                  /\ Announce(n, {}, Gone(tracker[n], failed))
                  /\ Network(n, inbox[n], [ep \in to \ failed |-> <<f>>], failed)
                  /\ next' = [next EXCEPT ![n] = SequenceAfter(n, cmd, to)]
    /\ command' = [command EXCEPT ![n] = {}]
    /\ UNCHANGED <<plan, link, running, broadcasts, failures, taken>>

\* Shutdown: the worker's loop ends and removes every endpoint it tracks, the
\* listener is removed, discovery stops.
Stop(n) ==
    /\ n \in running /\ command[n] = {}
    /\ Cardinality(Nodes \ running) < plan.stops
    /\ running' = running \ {n}
    /\ Network(n, [c \in Conns |-> <<>>], Silence, sockets[n])
    /\ upward' = [upward EXCEPT ![n] = <<>>]
    /\ tracker' = [tracker EXCEPT ![n] = NewTracker(n)]
    /\ announced' = [announced EXCEPT ![n] = [p \in Nodes |-> 0]]
    /\ UNCHANGED <<plan, next, link, command, broadcasts, failures, taken>>

-----------------------------------------------------------------------------
(* The runtime *)

\* handle_sync_transport_event: a new peer is sent the SchedulerState.
TakeTransportEvent(n) ==
    /\ n \in running /\ command[n] = {} /\ upward[n] # <<>>
    /\ upward' = [upward EXCEPT ![n] = Tail(@)]
    /\ command' = [command EXCEPT ![n] =
           IF Head(upward[n]).kind = "PeerAuthenticated"
           THEN {[kind |-> "Send", peer |-> Head(upward[n]).peer, what |-> "SchedulerState"]}
           ELSE {}]
    /\ UNCHANGED <<plan, tracker, next, link, sockets, inbox, running, broadcasts, failures,
                   announced, taken>>

Broadcast(n) ==
    /\ n \in running /\ command[n] = {} /\ broadcasts < plan.broadcasts
    /\ broadcasts' = broadcasts + 1
    /\ command' = [command EXCEPT ![n] = {[kind |-> "Broadcast", what |-> "Change"]}]
    /\ UNCHANGED <<plan, tracker, next, link, sockets, inbox, upward, running, failures,
                   announced, taken>>

Worker(n) == HandleCommand(n) \/ \E c \in Conns : Handle(n, c)

Next ==
    \/ \E n \in Nodes :
           \/ Worker(n)
           \/ TakeTransportEvent(n)
           \/ Broadcast(n)
           \/ Stop(n)
           \/ \E m \in Nodes \ {n} : Dial(n, m)
    \/ \E c \in DOMAIN link : ConnectionBreaks(c)

\* The two threads of a daemon keep running, and the discovery thread dials the
\* services that are resolved.
Fairness ==
    \A n \in Nodes :
        /\ WF_vars(Worker(n))
        /\ WF_vars(TakeTransportEvent(n))
        /\ WF_vars(\E m \in Nodes \ {n} : Dial(n, m))

Spec == Init /\ [][Next]_vars /\ Fairness

-----------------------------------------------------------------------------

(***************************************************************************)
(* What the worker tells the runtime alternates: a peer is announced when  *)
(* its first connection is authenticated, given up when its last one ends, *)
(* and neither while connections replace each other.                       *)
(***************************************************************************)
AnnouncedWhileConnected ==
    \A n, p \in Nodes : announced[n][p] = IF IsConnected(tracker[n], p) THEN 1 ELSE 0

(***************************************************************************)
(* Whatever connections a peer's events come over, and in whatever order   *)
(* these are read, the runtime gets the events in the order they were sent *)
(* and none twice.                                                         *)
(***************************************************************************)
EventsInOrder ==
    \A n, p \in Nodes :
        \A i, j \in DOMAIN taken[n][p] : i < j => taken[n][p][i].seq < taken[n][p][j].seq

Quiet ==
    /\ \A n \in Nodes : upward[n] = <<>> /\ command[n] = {}
    /\ \A n \in Nodes, c \in Conns : inbox[n][c] = <<>>

(***************************************************************************)
(* When everything under way has been handled, the two ends of a           *)
(* connection are both open and authenticated, or both closed: no socket   *)
(* is left that only one of the daemons knows of, and a daemon that has    *)
(* stopped is given up by the others.                                      *)
(***************************************************************************)
EndsAgree ==
    Quiet => \A n \in running : \A m \in Nodes \ {n} :
                 /\ EndpointFor(tracker[n], m) = EndpointFor(tracker[m], n)
                 /\ {c \in sockets[n] : OtherEnd(n, c) = m} = EndpointFor(tracker[n], m)

(***************************************************************************)
(* Daemons whose break settings differ take nothing from each other, and   *)
(* each is told of the other (build-notes/peer-config-compatibility.md).   *)
(***************************************************************************)
StrangersExchangeNothing ==
    \A n, p \in Nodes :
        plan.config[n] # plan.config[p] => ~IsConnected(tracker[n], p) /\ taken[n][p] = <<>>

(***************************************************************************)
(* Daemons that dial each other, once each, end up connected and stay so,  *)
(* unless their settings differ, a connection breaks or a daemon stops.    *)
(***************************************************************************)
Undisturbed ==
    /\ \A n, p \in Nodes :
           plan.config[n] = plan.config[p]
           /\ (n # p => {<<n, p>>, <<p, n>>} \cap DOMAIN plan.dialling # {})
    /\ \A d \in DOMAIN plan.dialling : plan.dialling[d] = 1
    /\ plan.failures = 0 /\ plan.stops = 0

AllConnected ==
    \A n, p \in Nodes : n # p => IsConnected(tracker[n], p)
EventuallyConnected == Undisturbed => <>[]AllConnected

(***************************************************************************)
(* "Added a directed SchedulerState sync event sent to each newly          *)
(* authenticated peer" (build-notes/break-counter-sync.md:15): with        *)
(* everything handled, a connected peer's SchedulerState has arrived.      *)
(***************************************************************************)
SchedulerStateArrives ==
    Quiet => \A n, p \in running :
                 IsConnected(tracker[n], p) =>
                     \E i \in DOMAIN taken[n][p] : taken[n][p][i].what = "SchedulerState"

(***************************************************************************)
(* "collapses duplicate peer connections with a deterministic rule: the    *)
(* lower peer ID keeps its outgoing connection and the higher peer ID keeps *)
(* its incoming connection" (build-notes/authenticated-peer-transport.md): *)
(* collapsing leaves a connection.                                         *)
(***************************************************************************)
CollapseLeavesOne ==
    (Quiet /\ failures = 0 /\ running = Nodes) =>
        \A c \in DOMAIN link : IsConnected(tracker[link[c][1]], link[c][2])
=============================================================================
