------------------------------ MODULE Consensus ------------------------------
(* CECR state between neighbours (gossip.ts): each peer tells a rotating     *)
(* fan-out which membership it sees, and may use the coordinate weight only  *)
(* in consensus, when all neighbours have told the same for some rounds; the *)
(* largest fresh network size is passed on with it.  A membership's hash     *)
(* stands for the membership; ids are numeric and configurations equal.      *)
(* Time advances by the period of the CECR timer, which is the gossip        *)
(* interval; a state message arrives before anything else happens.           *)
EXTENDS Integers, FiniteSets, FanOut

CONSTANTS
  Peers,          \* a finite set of integers
  Null,
  Rounds,         \* cecrConvergenceRounds
  MaxAge,         \* cecrExtremaMaxAgeMs, in periods
  ClockSkew,      \* clockSkewMs, in periods
  Fastest,        \* bound: how far clocks are ahead of true time, in periods
  EchoSize,       \* a network size that a broadcast aggregate has counted
  Scenarios       \* overlays, memberships and clocks, with the bounds of a run

ScenarioOK(s) ==
  /\ s.members \subseteq Peers /\ s.views \subseteq SUBSET Peers
  /\ s.edges \subseteq SUBSET Peers /\ s.links \subseteq SUBSET Peers
  /\ s.ahead \in [Peers -> 0..Fastest]

ASSUME CecrAssumption ==
  /\ Peers \subseteq Nat /\ IsFiniteSet(Peers)
  /\ {Rounds, MaxAge, EchoSize} \subseteq Nat \ {0} /\ {ClockSkew, Fastest} \subseteq Nat
  /\ \A s \in Scenarios : ScenarioOK(s)

VARIABLES
  node,           \* the CECR state of each peer
  canonical,      \* canonicalPeerSet of each peer
  neighbours,     \* the neighbours of each peer
  synced,         \* the peers whose timer has fired in this period
  setup,          \* the scenario
  used            \* how much of its bounds is used

cecrVars == <<node, canonical, neighbours, synced, setup, used>>

(* A stamp is the true time that has passed since.                           *)
Oldest == MaxAge + 1
Stamp == (-Fastest)..Oldest

Observation == [size: Nat, seen: Stamp]

Remote == [view: SUBSET Peers, rounds: 1..Rounds, age: 0..Oldest, size: Nat, seen: Stamp]

(* extrema is {} for null; stable counts the periods since it changed.       *)
Node == [extrema: SUBSET Peers, stable: 0..Rounds, cursor: Nat,
         aggregate: Observation \cup {Null}, remote: [Peers -> Remote \cup {Null}]]

ASSUME NullAssumption == Null \notin Observation /\ Null \notin Remote

CecrTypeOK ==
  /\ node \in [Peers -> Node]
  /\ canonical \in [Peers -> SUBSET Peers]
  /\ neighbours \in [Peers -> SUBSET Peers]
  /\ synced \subseteq Peers
  /\ setup \in Scenarios

CecrInit ==
  /\ node = [p \in Peers |->
               [extrema |-> {}, stable |-> 0, cursor |-> 0, aggregate |-> Null,
                remote |-> [q \in Peers |-> Null]]]
  /\ setup \in Scenarios
  /\ canonical = [p \in Peers |-> setup.members]
  /\ neighbours = [p \in Peers |-> {q \in Peers : {p, q} \in setup.edges}]
  /\ synced = {}
  /\ used = [changes |-> 0, faults |-> 0, echoes |-> 0, opens |-> 0]

Least(i, j) == IF i < j THEN i ELSE j

-----------------------------------------------------------------------------
(* The network size                                                          *)

Now(p) == - setup.ahead[p]

Fresh(p, o) == o.seen - Now(p) <= MaxAge

Better(o, b) == o.size > b.size \/ (o.size = b.size /\ o.seen < b.seen)

(* cecrNetworkSizeEstimate *)
Estimate(p) ==
  LET own == [size |-> Cardinality(canonical[p] \cup {p}), seen |-> Now(p)]
      heard == {node[p].remote[q] : q \in Peers} \ {Null}
      others == {o \in {[size |-> r.size, seen |-> r.seen] : r \in heard}
                        \cup ({node[p].aggregate} \ {Null}) : Fresh(p, o)}
  IN CHOOSE b \in others \cup {own} : \A o \in others \cup {own} : ~Better(o, b)

(* Faulty variant: what is relayed counts as seen now.                       *)
ObservedFaulty(p, seen) == Now(p)

(* The time of an observation, unless it is too far in the future.           *)
Observed(p, seen) == IF seen >= Now(p) - ClockSkew THEN seen ELSE Now(p)

-----------------------------------------------------------------------------
(* Consensus                                                                 *)

Extrema(p) == IF Cardinality(canonical[p] \cup {p}) < 2 THEN {} ELSE canonical[p] \cup {p}

(* Faulty variant: a change of the membership is not timed.                  *)
SnapshotFaulty(p) == [node[p] EXCEPT !.extrema = Extrema(p)]

(* updateCecrExtremaSnapshot *)
Snapshot(p) ==
  [node[p] EXCEPT !.extrema = Extrema(p),
                  !.stable = IF node[p].extrema = Extrema(p) THEN @ ELSE 0]

(* hasCecrConsensus, with the snapshot that effectiveCecrCoordinateWeight    *)
(* takes before.                                                             *)
InConsensus(p) ==
  LET n == Snapshot(p) IN
  /\ n.extrema # {}
  /\ n.stable >= Rounds
  /\ \A q \in neighbours[p] :
       /\ n.remote[q] # Null
       /\ n.remote[q].age <= MaxAge
       /\ n.remote[q].view = n.extrema
       /\ n.remote[q].rounds >= Rounds

(* handleIncomingCecrState: what q knows of p after p's message.             *)
Heard(q, p) ==
  LET old == node[q].remote[p] IN
  [view |-> canonical[p] \cup {p},
   rounds |-> IF old # Null /\ old.view = canonical[p] \cup {p}
              THEN Least(old.rounds + 1, Rounds) ELSE 1,
   age |-> 0, size |-> Estimate(p).size, seen |-> Observed(q, Estimate(p).seen)]

(* publishCecrState: p is n after it, the peers of T have heard.             *)
Published(p, n, T) ==
  [q \in Peers |-> IF q = p THEN n
                   ELSE IF q \in T /\ p \in neighbours[q]
                   THEN [node[q] EXCEPT !.remote[p] = Heard(q, p)]
                   ELSE node[q]]

Window(p, among) ==
  SelectFanoutPeers(among, {}, node[p].cursor, Cardinality(canonical[p] \cup {p}))

(* The CECR timer.                                                           *)
Sync(p) ==
  /\ p \notin synced
  /\ synced' = synced \cup {p}
  /\ LET w == Window(p, neighbours[p])
         n == [node[p] EXCEPT !.stable = Least(@ + 1, Rounds)]
         s == [Snapshot(p) EXCEPT !.cursor = w.cursor,
                 !.stable = IF node[p].extrema = Extrema(p) THEN n.stable ELSE 0]
     IN node' = Published(p, s, w.peers)
  /\ UNCHANGED <<canonical, neighbours, setup, used>>

(* A route is chosen: the snapshot is taken, nothing is sent.                *)
Route(p) ==
  /\ node' = [node EXCEPT ![p] = Snapshot(p)]
  /\ UNCHANGED <<canonical, neighbours, synced, setup, used>>

-----------------------------------------------------------------------------
(* The environment                                                           *)

Use(what) == used[what] < setup[what] /\ used' = [used EXCEPT ![what] = @ + 1]

Grown(stamp) == Least(stamp + 1, Oldest)

(* What a peer remembers, one period later.                                  *)
Older(o) == IF o = Null THEN Null ELSE [o EXCEPT !.seen = Grown(o.seen)]
Aged(r) == IF r = Null THEN Null ELSE [Older(r) EXCEPT !.age = Grown(r.age)]

(* A period ends when every timer has fired and closures are noticed.        *)
PeriodEnds ==
  /\ synced = Peers
  /\ \A p \in Peers : \A q \in neighbours[p] : p \in neighbours[q]
  /\ synced' = {}
  /\ node' = [p \in Peers |->
       [node[p] EXCEPT !.aggregate = Older(@),
                       !.remote = [q \in Peers |-> Aged(node[p].remote[q])]]]
  /\ UNCHANGED <<canonical, neighbours, setup, used>>

(* Membership decides.                                                       *)
ChangeView(p) ==
  /\ Use("changes")
  /\ \E v \in setup.views : v # canonical[p] /\ canonical' = [canonical EXCEPT ![p] = v]
  /\ UNCHANGED <<node, neighbours, synced, setup>>

(* An aggregate of GossipEcho has counted EchoSize holders.                  *)
Echo(p) ==
  /\ Use("echoes")
  /\ node' = [node EXCEPT ![p].aggregate = [size |-> EchoSize, seen |-> Now(p)]]
  /\ UNCHANGED <<canonical, neighbours, synced, setup>>

(* peer:disconnected at p; the other side notices within the period.         *)
Disconnected(p, q) ==
  LET rest == neighbours[p] \ {q}
      w == Window(p, rest)
      s == [Snapshot(p) EXCEPT !.cursor = w.cursor, !.remote[q] = Null]
  IN
  /\ q \in neighbours[p]
  /\ IF p \in neighbours[q] THEN Use("faults") ELSE UNCHANGED used
  /\ neighbours' = [neighbours EXCEPT ![p] = rest]
  /\ node' = Published(p, s, w.peers)
  /\ UNCHANGED <<canonical, synced, setup>>

(* peer:connected: each end publishes to the other.                          *)
Connected(p, q) ==
  /\ {p, q} \in setup.links /\ p < q /\ q \notin neighbours[p] /\ p \notin neighbours[q]
  /\ Use("opens")
  /\ neighbours' = [neighbours EXCEPT ![p] = @ \cup {q}, ![q] = @ \cup {p}]
  /\ node' = [node EXCEPT ![p] = [Snapshot(p) EXCEPT !.remote[q] = Heard(p, q)],
                         ![q] = [Snapshot(q) EXCEPT !.remote[p] = Heard(q, p)]]
  /\ UNCHANGED <<canonical, synced, setup>>

CecrNext ==
  \/ PeriodEnds
  \/ \E p \in Peers : Sync(p) \/ Route(p) \/ ChangeView(p) \/ Echo(p)
  \/ \E p, q \in Peers : Disconnected(p, q) \/ Connected(p, q)

CecrSpec == CecrInit /\ [][CecrNext]_cecrVars

(* Every timer fires in every period, a closure is noticed by the other side.*)
Closed(p, q) == p \notin neighbours[q] /\ Disconnected(p, q)

FairCecr ==
  /\ CecrSpec
  /\ WF_cecrVars(\/ PeriodEnds
                 \/ \E p \in Peers : Sync(p)
                 \/ \E p, q \in Peers : Closed(p, q))

-----------------------------------------------------------------------------
(* Properties                                                                *)

(* Two neighbours that both route by coordinates see the same membership,    *)
(* although each knows the other's only from messages and views change.      *)
NeighboursAgree ==
  \A p \in Peers : \A q \in neighbours[p] :
    InConsensus(p) /\ InConsensus(q) => canonical[p] \cup {p} = canonical[q] \cup {q}

(* Neighbours that see one membership for good come to a lasting consensus,  *)
(* though a round does not reach all of them.                                *)
Agreed == \A p \in Peers : Extrema(p) # {} /\ \A q \in neighbours[p] : Extrema(p) = Extrema(q)

ConsensusComes == <>[]Agreed => <>[](\A p \in Peers : InConsensus(p))

(* "An old high-water mark cannot circulate and keep a departed network size *)
(* alive forever": not even between clocks that disagree.                    *)
MarksFade ==
  <>[](\A p \in Peers :
         Estimate(p).size <= Cardinality(UNION {canonical[q] \cup {q} : q \in Peers}))
=============================================================================
