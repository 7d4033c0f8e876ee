--------------------------- MODULE DirectRouting ---------------------------
(***************************************************************************)
(* Direct messages of GossipProtocol (src/src/gossip.ts): a message is     *)
(* routed hop by hop towards its target by XOR distance, over connections  *)
(* and membership views that may change while it travels.  Payloads that   *)
(* wrap a gossip repair are not distinguished from the others.             *)
(***************************************************************************)
EXTENDS Integers, Sequences, FiniteSets

CONSTANTS
    Peer,           \* peer identifiers, as numbers of IdWidth bits
    Msg,            \* identifiers of direct messages
    Unsent,         \* "not sent"
    IdWidth,        \* CECR_ID_WIDTH_BITS
    Distance,       \* Distance[p][q]: XOR of the two identifiers
    Bounds,         \* lower bounds of the distance buckets: powers of two
    MaxDirectHops,  \* option maxDirectHops
    Overlays,       \* possible initial connections, per peer
    MaxChanges,     \* bound: connection and view changes
    MaxFailedSends  \* bound: routing steps in which every send throws

ASSUME DirectRoutingAssumption ==
    /\ Peer \subseteq Nat /\ IdWidth \in Nat
    /\ Distance \in [Peer -> [Peer -> Nat]]
    /\ \A p, q \in Peer : Distance[p][q] = 0 <=> p = q
    /\ Bounds \subseteq Nat
    /\ MaxDirectHops \in Nat
    /\ Overlays \subseteq [Peer -> SUBSET Peer]
    /\ MaxChanges \in Nat /\ MaxFailedSends \in Nat
    /\ Unsent \notin [from : Peer, to : Peer]

ASSUME BucketAssumption == Bounds = {2^k : k \in 0..(IdWidth - 1)}

VARIABLES
    conn,       \* conn[p]: getConnectedPeers() of p
    view,       \* view[p]: canonicalPeerSet() of p
    sent,       \* sent[m]: sender and target of m, Unsent before sendDirect
    net,        \* copies of messages under way
    seen,       \* seen[p]: seenDirectIds of p
    received,   \* received[m]: directMessageReceived events raised for m
    changes,    \* connection and view changes so far
    failures    \* routing steps in which every send threw

routingVars == <<conn, view, sent, net, seen, received, changes, failures>>

\* A copy under way to the last peer of its path.
Copy == [id : Msg, to : Peer, hops : Nat, path : Seq(Peer)]
Holder(c) == c.path[Len(c.path)]
Previous(c) == c.path[Len(c.path) - 1]

-----------------------------------------------------------------------------
(* Next hops *)

\* bucketRank: the bounds up to a distance, so that a rank is lower when it is
\* a smaller set.
Bucket(d) == {b \in Bounds : b <= d}
LowerBucket(a, b) == \E k \in Bucket(b) : a < k

\* Faulty variant: a fall-back that accepts equal or greater distances.
AnyCandidates(p, target, exclude) ==
    LET candidates == conn[p] \ exclude
        progress == {q \in candidates :
                        LowerBucket(Distance[q][target], Distance[p][target])}
    IN  IF progress # {} THEN progress ELSE candidates

\* getCecrOverlaySnapshot's xorBucketCoverage: p has a connection into every
\* distance bucket in which some live peer is.
XorBucketCoverage(p, live, linked) ==
    {Bucket(Distance[p][q]) : q \in live \ {p}}
        \subseteq {Bucket(Distance[p][q]) : q \in linked \cap live}

\* orderedRouteCandidates as a set: the neighbours in a lower bucket or, when
\* there are none, those at a strictly smaller distance.  The order in which
\* the code tries them (XOR distance, or the coordinate score once consensus
\* is reached) is left open, as is which sends throw.
RouteCandidates(p, target, exclude) ==
    LET candidates == conn[p] \ exclude
        progress == {q \in candidates :
                        LowerBucket(Distance[q][target], Distance[p][target])}
    IN  IF progress # {} THEN progress
        ELSE {q \in candidates : Distance[q][target] < Distance[p][target]}

\* Faulty variant: the last hop of the budget is never used.
NextHopsShort(p, c, exclude) ==
    IF c.to \notin view[p] \/ c.hops + 1 >= MaxDirectHops THEN {}
    ELSE IF c.to \in conn[p] THEN {c.to}
    ELSE RouteCandidates(p, c.to, exclude)

\* The peers that routeDirect may hand c to: the target itself when it is
\* connected, nobody when it is not live or the hop budget is spent.
NextHops(p, c, exclude) ==
    IF c.to \notin view[p] \/ c.hops >= MaxDirectHops THEN {}
    ELSE IF c.to \in conn[p] THEN {c.to}
    ELSE RouteCandidates(p, c.to, exclude)

Forwarded(c, next) ==
    [id |-> c.id, to |-> c.to, hops |-> c.hops + 1, path |-> Append(c.path, next)]

\* routeDirect of copy c at p; `rest' are the other copies under way.
RouteDirect(p, c, exclude, rest) ==
    IF c.to = p
    THEN /\ received' = [received EXCEPT ![c.id] = @ + 1]
         /\ net' = rest
         /\ UNCHANGED failures
    ELSE /\ \/ \E next \in NextHops(p, c, exclude) :
                  net' = rest \cup {Forwarded(c, next)} /\ UNCHANGED failures
            \/ NextHops(p, c, exclude) = {} /\ net' = rest /\ UNCHANGED failures
            \/ /\ NextHops(p, c, exclude) # {} /\ net' = rest
               /\ failures < MaxFailedSends /\ failures' = failures + 1
         /\ UNCHANGED received

-----------------------------------------------------------------------------
\* sendDirect.
SendDirect(p, m, target) ==
    /\ sent[m] = Unsent
    /\ sent' = [sent EXCEPT ![m] = [from |-> p, to |-> target]]
    /\ seen' = [seen EXCEPT ![p] = @ \cup {m}]
    /\ RouteDirect(p, [id |-> m, to |-> target, hops |-> 0, path |-> <<p>>],
                   {}, net)
    /\ UNCHANGED <<conn, view, changes>>

\* handleIncomingDirect of a copy that arrives over an open connection.
HandleDirect(c) ==
    LET p == Holder(c)
    IN  /\ Previous(c) \in conn[p]
        /\ IF c.id \in seen[p]
           THEN /\ net' = net \ {c}
                /\ UNCHANGED <<seen, received, failures>>
           ELSE /\ seen' = [seen EXCEPT ![p] = @ \cup {c.id}]
                /\ RouteDirect(p, c, {Previous(c)}, net \ {c})
        /\ UNCHANGED <<conn, view, sent, changes>>

\* A copy is lost with the connection it travelled on.
Lose(c) ==
    /\ \/ Previous(c) \notin conn[Holder(c)]
       \/ Holder(c) \notin conn[Previous(c)]
    /\ net' = net \ {c}
    /\ UNCHANGED <<conn, view, sent, seen, received, changes, failures>>

\* pruneTracking or cleanup drops an id.
ForgetDirect(p, m) ==
    /\ m \in seen[p]
    /\ seen' = [seen EXCEPT ![p] = @ \ {m}]
    /\ UNCHANGED <<conn, view, sent, net, received, changes, failures>>

\* The mesh opens or closes p's side of a connection.
ConnectionChange(p, q) ==
    /\ p # q
    /\ changes < MaxChanges /\ changes' = changes + 1
    /\ conn' = [conn EXCEPT ![p] = (@ \ {q}) \cup ({q} \ @)]
    /\ UNCHANGED <<view, sent, net, seen, received, failures>>

\* The membership layer adds or drops q at p.
ViewChange(p, q) ==
    /\ p # q
    /\ changes < MaxChanges /\ changes' = changes + 1
    /\ view' = [view EXCEPT ![p] = (@ \ {q}) \cup ({q} \ @)]
    /\ UNCHANGED <<conn, sent, net, seen, received, failures>>

RoutingInit ==
    /\ conn \in Overlays
    /\ view = [p \in Peer |-> Peer]
    /\ sent = [m \in Msg |-> Unsent]
    /\ net = {}
    /\ seen = [p \in Peer |-> {}]
    /\ received = [m \in Msg |-> 0]
    /\ changes = 0
    /\ failures = 0

RoutingNext ==
    \/ \E p, target \in Peer, m \in Msg : SendDirect(p, m, target)
    \/ \E c \in net : HandleDirect(c) \/ Lose(c)
    \/ \E p \in Peer, m \in Msg : ForgetDirect(p, m)
    \/ \E p, q \in Peer : ConnectionChange(p, q) \/ ViewChange(p, q)

RoutingSpec == RoutingInit /\ [][RoutingNext]_routingVars

\* Copies on open connections arrive.
FairRouting == RoutingSpec /\ WF_routingVars(\E c \in net : HandleDirect(c))

-----------------------------------------------------------------------------
(* Properties *)

\* Every variable keeps its shape.
RoutingTypeOK ==
    /\ conn \in [Peer -> SUBSET Peer]
    /\ view \in [Peer -> SUBSET Peer]
    /\ sent \in [Msg -> [from : Peer, to : Peer] \cup {Unsent}]
    /\ net \subseteq Copy
    /\ seen \in [Peer -> SUBSET Msg]
    /\ received \in [Msg -> Nat]
    /\ changes \in Nat /\ failures \in Nat

\* "A non-improving hop is never forwarded": along the route of a copy the
\* distance to the target strictly decreases, though every hop consulted
\* connections and views of its own that have changed since.
StrictProgress ==
    \A c \in net : \A i, j \in 1..Len(c.path) :
        i < j => Distance[c.path[j]][c.to] < Distance[c.path[i]][c.to]

\* So no route ever comes back to a peer, even one that has forgotten the id.
NoRouteLoop ==
    \A c \in net : \A i, j \in 1..Len(c.path) :
        i # j => c.path[i] # c.path[j]

\* A message exists once: as a copy under way, or as the one event at its
\* target, never as both and never as two.
SingleInstance ==
    /\ \A c, d \in net : c.id = d.id => c = d
    /\ \A c \in net : received[c.id] = 0
    /\ \A m \in Msg : received[m] <= 1

\* In an overlay that every peer reports as covering its XOR buckets, a
\* message reaches its target within a hop budget of the identifier width,
\* as long as connections and views stay what they are and sends succeed.
DeliveredWhenCovered ==
    /\ \A p \in Peer : XorBucketCoverage(p, view[p], conn[p])
    /\ [](changes = 0 /\ failures = 0)
    => \A m \in Msg : (sent[m] # Unsent) ~> (received[m] = 1)
=============================================================================
