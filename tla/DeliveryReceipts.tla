-------------------------- MODULE DeliveryReceipts --------------------------
(* Tracked delivery of one broadcast (gossip.ts, "Tracked delivery           *)
(* receipts" and the CECR-DR extension): who of the sender's membership at   *)
(* the time of the broadcast is known, by whom, to hold the payload.  Peers  *)
(* are integers in the order of their ids; a receipt's bitmap is the set of  *)
(* the positions that are set.  The hash of a membership stands for the      *)
(* membership.  A route for a repair is assumed between any two peers that   *)
(* have a connection (DirectRouting); which neighbours a round contacts is   *)
(* left open (FanOut).                                                       *)
EXTENDS Naturals, FiniteSets, Sequences

CONSTANTS
  Peers,          \* a finite set of integers
  Sender,
  None,
  Score(_, _),    \* of a target and a candidate: the hash that selects owners
  MaxRepairs,     \* MAX_REPAIR_ATTEMPTS_PER_TARGET
  Scenarios       \* first overlays and memberships, with the bounds of a run

Selection == INSTANCE FanOut

ASSUME Assumption ==
  /\ Peers \subseteq Nat /\ IsFiniteSet(Peers) /\ Sender \in Peers
  /\ MaxRepairs \in Nat
  /\ \A s \in Scenarios : s.members \subseteq Peers
  /\ None \notin [bits: SUBSET Nat, ids: SUBSET Peers, kept: SUBSET Peers,
                  timedOut: BOOLEAN, completed: BOOLEAN, tries: [Peers -> Nat]]

(* Hashes are strings of one length, compared as numbers are.                *)
ASSUME ScoreAssumption == \A t, c \in Peers : Score(t, c) \in Nat

VARIABLES
  st,             \* deliveryStates, of each peer
  dirty,          \* dirtyDeliveryReceiptIds: peers that have a receipt to send
  view,           \* canonicalPeerSet of each peer
  conn,           \* the neighbours of each peer
  net,            \* messages on their way
  late,           \* the peers whose clock has passed the deadline
  audience,       \* the membership of the broadcast; {} before it
  held,           \* history: the peers the payload has reached
  told,           \* history: what the sender's application was told
  forgot,         \* history: the peers that have forgotten the delivery
  setup,          \* the scenario
  used            \* how much of its bounds is used

vars == <<st, dirty, view, conn, net, late, audience, held, told, forgot, setup, used>>

(* peerIds is {} when unknown; kept is the membership at which the payload   *)
(* was retained, {} without a payload.                                       *)
State == [bits: SUBSET (0..Cardinality(Peers)), ids: SUBSET Peers, kept: SUBSET Peers,
          timedOut: BOOLEAN, completed: BOOLEAN, tries: [Peers -> 0..MaxRepairs]]

Packet == [kind: {"copy", "repair", "receipt"}, from: Peers, to: Peers, bits: SUBSET (0..Cardinality(Peers))]

TypeOK ==
  /\ st \in [Peers -> State \cup {None}]
  /\ dirty \subseteq {p \in Peers : st[p] # None}
  /\ view \in [Peers -> SUBSET Peers]
  /\ conn \in [Peers -> SUBSET Peers]
  /\ net \subseteq Packet
  /\ late \subseteq Peers /\ audience \subseteq Peers
  /\ held \subseteq Peers /\ forgot \subseteq Peers
  /\ told \in Seq({"complete", "timeout"})

Init ==
  /\ st = [p \in Peers |-> None]
  /\ dirty = {} /\ net = {} /\ late = {} /\ audience = {}
  /\ held = {} /\ told = <<>> /\ forgot = {}
  /\ setup \in Scenarios
  /\ view = [p \in Peers |-> setup.members \cup {p}]
  /\ conn = [p \in Peers |-> {q \in Peers : {p, q} \in setup.edges}]
  /\ used = [faults |-> 0, changes |-> 0, opens |-> 0]

-----------------------------------------------------------------------------
(* Receipts                                                                  *)

Index(ids, p) == Cardinality({q \in ids : q < p})

(* Faulty variant: a membership of the right size will do.                   *)
ReconstructFaulty(v) == IF Cardinality(v) = Cardinality(audience) THEN v ELSE {}

(* reconstructDeliveryPeers *)
Reconstruct(v) == IF v = audience THEN v ELSE {}

Own(ids, p) == {Index(ids, q) : q \in ids \cap {p}}

Blank == [bits |-> {}, ids |-> {}, kept |-> {}, timedOut |-> FALSE,
          completed |-> FALSE, tries |-> [t \in Peers |-> 0]]

Known(p) == IF st[p] = None THEN Blank ELSE st[p]

Ids(p) == IF Known(p).ids = {} THEN Reconstruct(view[p]) ELSE Known(p).ids

(* registerTrackedDelivery, of a copy that has just been retained.           *)
WithCopy(p, bits) ==
  [Known(p) EXCEPT !.bits = @ \cup bits \cup Own(Ids(p), p), !.ids = Ids(p),
                   !.kept = IF @ = {} THEN view[p] ELSE @]

(* mergeDeliveryReceipt *)
WithReceipt(p, bits) == [Known(p) EXCEPT !.bits = @ \cup bits, !.ids = Ids(p)]

(* Faulty variant: what others report is not passed on.                      *)
ChangedFaulty(p, s) == st[p] = None \/ (s.bits \ st[p].bits) \cap Own(s.ids, p) # {}

Changed(p, s) == st[p] = None \/ s.bits # st[p].bits

Delivered(s) == {q \in s.ids : Index(s.ids, q) \in s.bits}

Pending(s) == s.ids \ (Delivered(s) \cup {Sender})

Complete(s) == s.ids # {} /\ Pending(s) = {}

(* emitDeliveryStatus *)
Announces(p, s) == p = Sender /\ Complete(s) /\ ~s.completed

Announced(p, s) == [s EXCEPT !.completed = @ \/ Announces(p, s)]

Tried(s, due) == [s EXCEPT !.tries = [t \in Peers |-> IF t \in due THEN @[t] + 1 ELSE @[t]]]

(* What p stores, and what its application is told, when s replaces its      *)
(* state and the peers of due have been repaired.                            *)
Stores(p, s, due) ==
  IF Changed(p, s)
  THEN /\ st' = [st EXCEPT ![p] = Tried(Announced(p, s), due)]
       /\ told' = IF Announces(p, s) THEN Append(told, "complete") ELSE told
  ELSE /\ st' = [st EXCEPT ![p] = Tried(s, due)]
       /\ UNCHANGED told

Dirtied(p, s) == IF Changed(p, s) THEN dirty \cup {p} ELSE dirty

-----------------------------------------------------------------------------
(* Packets and repairs                                                       *)

(* The sets of neighbours that one round may contact.                        *)
FanOuts(p, excluded) ==
  LET eligible == conn[p] \ excluded
      budget == Selection!CecrFanout(Cardinality(conn[p]), Cardinality(view[p]))
      count == IF budget < Cardinality(eligible) THEN budget ELSE Cardinality(eligible)
  IN {T \in SUBSET eligible : Cardinality(T) = count}

(* Packets of one kind between two peers are merged: bits are only added.    *)
Put(packets, kind, p, T, bits) ==
  LET Same(m, t) == m.kind = kind /\ m.from = p /\ m.to = t IN
  {m \in packets : ~\E t \in T : Same(m, t)}
    \cup {[kind |-> kind, from |-> p, to |-> t,
           bits |-> bits \cup UNION {m.bits : m \in {n \in packets : Same(n, t)}}] : t \in T}

(* The better candidate for t: the lower score, or the lower id.             *)
Before(t, c, d) ==
  Score(t, c) < Score(t, d) \/ (Score(t, c) = Score(t, d) /\ c < d)

(* Faulty variant: a peer that has nothing may be chosen.                    *)
OwnerFaulty(s, t) == CHOOSE c \in s.ids : \A d \in s.ids \ {c} : Before(t, c, d)

(* selectRepairOwner *)
Owner(s, t) == CHOOSE c \in Delivered(s) : \A d \in Delivered(s) \ {c} : Before(t, c, d)

(* The peers that p repairs now.  A repair arrives or is lost before the     *)
(* repair interval ends.                                                     *)
Due(p, s) ==
  IF s.kept = {} \/ view[p] # s.kept \/ p \in late \/ Complete(s) THEN {}
  ELSE {t \in Pending(s) \cap view[p] :
          /\ Delivered(s) # {} /\ Owner(s, t) = p
          /\ s.tries[t] < MaxRepairs
          /\ ~\E m \in net : m.kind = "repair" /\ m.from = p /\ m.to = t}

(* sendDirect, of a repair                                                   *)
Repaired(packets, p, due, bits) ==
  Put(packets, "repair", p, {t \in due : conn[p] # {} /\ conn[t] # {}}, bits)

-----------------------------------------------------------------------------
(* The sender and the copies.  The microtask that follows a retention        *)
(* repairs at once what the handler's state calls for.                       *)

(* broadcast with trackDelivery *)
Broadcast ==
  /\ audience = {}
  /\ audience' = view[Sender]
  /\ LET s == [Blank EXCEPT !.bits = {Index(view[Sender], Sender)},
                            !.ids = view[Sender], !.kept = view[Sender]] IN
     /\ Stores(Sender, s, Due(Sender, s))
     /\ \E T \in FanOuts(Sender, {Sender}) :
        net' = Repaired(Put({}, "copy", Sender, T, s.bits), Sender, Due(Sender, s), s.bits)
  /\ dirty' = {Sender}
  /\ held' = {Sender}
  /\ UNCHANGED <<view, conn, late, forgot, setup, used>>

(* handleIncomingMessage, of a copy or of a repair; via, the last hop.       *)
ReceiveCopy(m) ==
  LET p == m.to
      s == WithCopy(p, m.bits)
      fresh == p \notin held
      due == IF fresh THEN Due(p, s) ELSE {}
      rest == net \ {m}
  IN
  /\ m.kind \in {"copy", "repair"}
  /\ IF p \in late
     THEN /\ net' = rest
          /\ UNCHANGED <<st, dirty, told, held>>
     ELSE /\ Stores(p, s, due)
          /\ dirty' = Dirtied(p, s)
          /\ held' = held \cup {p}
          /\ \E via \in IF m.kind = "copy" THEN {m.from} ELSE conn[p] :
             \E T \in FanOuts(p, {Sender, via}) :
               net' = Repaired(Put(rest, "copy", p, IF fresh THEN T ELSE {}, s.bits),
                               p, due, s.bits)
  /\ UNCHANGED <<view, conn, late, audience, forgot, setup, used>>

(* handleIncomingCecrDeliveryState *)
ReceiveReceipt(m) ==
  LET p == m.to
      s == WithReceipt(p, m.bits)
  IN
  /\ m.kind = "receipt"
  /\ net' = net \ {m}
  /\ Stores(p, s, {})
  /\ dirty' = Dirtied(p, s)
  /\ UNCHANGED <<view, conn, late, audience, held, forgot, setup, used>>

-----------------------------------------------------------------------------
(* Timers                                                                    *)

(* The state of p with its own bit set, as maintenance leaves it.            *)
Asserted(p) ==
  [Known(p) EXCEPT !.ids = Ids(p), !.bits = @ \cup (IF st[p].kept = {} THEN {} ELSE Own(Ids(p), p))]

(* Faulty variant: a completed delivery may still time out.                  *)
TimesOutFaulty(p, s) == p \in late /\ ~s.timedOut

TimesOut(p, s) == p \in late /\ ~Complete(s) /\ ~s.timedOut

(* maintainTrackedDeliveries, which repairs the targets of due, and then     *)
(* publishCecrDeliveryState to the peers of T.                               *)
Maintain(p, due, T) ==
  LET s == Asserted(p)
      ready == Dirtied(p, s)
      n == IF Changed(p, s) THEN Announced(p, s) ELSE s
  IN
  /\ st' = [st EXCEPT ![p] = [Tried(n, due) EXCEPT !.timedOut = @ \/ TimesOut(p, s)]]
  /\ told' = told \o (IF Changed(p, s) /\ Announces(p, s) THEN <<"complete">> ELSE <<>>)
                  \o (IF p = Sender /\ TimesOut(p, s) THEN <<"timeout">> ELSE <<>>)
  /\ dirty' = IF T = {} THEN ready ELSE ready \ {p}
  /\ net' = Put(Repaired(net, p, due, s.bits), "receipt", p, IF p \in ready THEN T ELSE {}, s.bits)
  /\ UNCHANGED <<view, conn, late, audience, held, forgot, setup, used>>

(* The CECR timer: maintenance, then the receipts to the fan-out.  Whether   *)
(* the repair interval has passed is left open.                              *)
Sync(p) ==
  /\ st[p] # None
  /\ \E due \in {{}, Due(p, Asserted(p))}, T \in FanOuts(p, {}) : Maintain(p, due, T)

(* The clean-up timer: maintenance only.                                     *)
Tidy(p) ==
  /\ st[p] # None
  /\ \E due \in {{}, Due(p, Asserted(p))} : Maintain(p, due, {})

(* pruneTracking, long after the deadline.                                   *)
Forget(p) ==
  /\ p \in setup.forgets
  /\ st[p] # None /\ p \in late /\ p \notin forgot
  /\ st' = [st EXCEPT ![p] = None]
  /\ dirty' = dirty \ {p}
  /\ forgot' = forgot \cup {p}
  /\ UNCHANGED <<view, conn, net, late, audience, held, told, setup, used>>

-----------------------------------------------------------------------------
(* The environment                                                           *)

Use(what) == used[what] < setup[what] /\ used' = [used EXCEPT ![what] = @ + 1]

PassDeadline(p) ==
  /\ p \in setup.deadline
  /\ audience # {} /\ p \notin late
  /\ late' = late \cup {p}
  /\ UNCHANGED <<st, dirty, view, conn, net, audience, held, told, forgot, setup, used>>

ChangeView(p) ==
  /\ Use("changes")
  /\ \E v \in SUBSET Peers : p \in v /\ v # view[p] /\ view' = [view EXCEPT ![p] = v]
  /\ UNCHANGED <<st, dirty, conn, net, late, audience, held, told, forgot, setup>>

Published(packets, p, T) ==
  Put(packets, "receipt", p, IF p \in dirty THEN T ELSE {}, Known(p).bits)

(* peer:disconnected: what was under way is lost; both ends publish.         *)
Disconnected(p, q) ==
  /\ Use("faults")
  /\ q \in conn[p]
  /\ conn' = [conn EXCEPT ![p] = @ \ {q}, ![q] = @ \ {p}]
  /\ \E T \in FanOuts(p, {q}), U \in FanOuts(q, {p}) :
     /\ net' = Published(Published({m \in net : {m.from, m.to} # {p, q}}, p, T), q, U)
     /\ dirty' = dirty \ ((IF T = {} THEN {} ELSE {p}) \cup (IF U = {} THEN {} ELSE {q}))
  /\ UNCHANGED <<st, view, late, audience, held, told, forgot, setup>>

(* peer:connected: both ends mark their delivery and publish to the other.   *)
Connected(p, q) ==
  /\ Use("opens")
  /\ p # q /\ q \notin conn[p] /\ {p, q} \in setup.links
  /\ conn' = [conn EXCEPT ![p] = @ \cup {q}, ![q] = @ \cup {p}]
  /\ net' = Put(Put(net, "receipt", p, IF st[p] = None THEN {} ELSE {q}, Known(p).bits),
                "receipt", q, IF st[q] = None THEN {} ELSE {p}, Known(q).bits)
  /\ dirty' = dirty \ {p, q}
  /\ UNCHANGED <<st, view, late, audience, held, told, forgot, setup>>

(* A routed repair is lost.                                                  *)
LoseRepair(m) ==
  /\ Use("faults")
  /\ m.kind = "repair"
  /\ net' = net \ {m}
  /\ UNCHANGED <<st, dirty, view, conn, late, audience, held, told, forgot, setup>>

Next ==
  \/ Broadcast
  \/ \E m \in net : ReceiveCopy(m) \/ ReceiveReceipt(m) \/ LoseRepair(m)
  \/ \E p \in Peers : Sync(p) \/ Tidy(p) \/ Forget(p) \/ PassDeadline(p) \/ ChangeView(p)
  \/ \E p, q \in Peers : Disconnected(p, q) \/ Connected(p, q)

Spec == Init /\ [][Next]_vars

(* The CECR timer fires and repairs all that is due.                         *)
FullSync(p) ==
  /\ st[p] # None
  /\ \E T \in FanOuts(p, {}) : Maintain(p, Due(p, Asserted(p)), T)

(* Timers fire and packets arrive.  Each such step adds a bit, a repair or a *)
(* receiver, or takes a packet or a mark away: they come to an end.          *)
Progress ==
  \/ Broadcast
  \/ \E m \in net : ReceiveCopy(m) \/ ReceiveReceipt(m)
  \/ \E p \in Peers : FullSync(p)

FairSpec == Spec /\ WF_vars(Progress)

-----------------------------------------------------------------------------
(* Properties                                                                *)

(* A bit, wherever it is stored and whatever memberships it has crossed,     *)
(* names a peer of the broadcast's membership that the payload has reached.  *)
NoFalseReceipt ==
  \A p \in Peers :
    st[p] # None =>
      \A i \in st[p].bits : \E q \in held \cap audience : Index(audience, q) = i

(* As long as the sender has not forgotten the delivery, its application is  *)
(* told of completion at most once, and of a timeout at most once and never  *)
(* after completion.                                                         *)
ToldOnce ==
  Sender \notin forgot =>
    told \in {<<>>, <<"complete">>, <<"timeout">>, <<"timeout", "complete">>}

(* Nobody's connections or memberships change and nothing is forgotten.      *)
Calm == used.opens = 0 /\ used.changes = 0 /\ used.faults = 0 /\ forgot = {}

(* Every round contacts all neighbours.                                      *)
Covered == \A p \in Peers : FanOuts(p, {}) = {conn[p]}

SenderKnows(q) == st[Sender] # None /\ Index(audience, q) \in st[Sender].bits

(* In a calm overlay whose fan-out covers every degree, each receipt reaches *)
(* the sender, over any number of peers and after the deadline too.          *)
SenderLearns ==
  Covered /\ []Calm =>
    \A q \in Peers : q \in held \cap audience ~> SenderKnows(q)

(* As long as a member has not got the payload there is a holder that        *)
(* regards itself as the one to repair it, although each holder chooses from *)
(* the receipts that have come its way.                                      *)
RepairerExists ==
  forgot = {} =>
    \A t \in audience \ held : \E p \in held :
      st[p].kept # {} /\ p \in Delivered(st[p]) /\ Owner(st[p], t) = p

(* "Re-asserting the local bit also repairs receipt loss": before the        *)
(* deadline a receipt reaches the sender whatever the fan-out.               *)
ReceiptLossRepaired ==
  [](late = {} /\ used.changes = 0 /\ used.faults = 0) => \A q \in Peers : q \in held \cap audience ~> SenderKnows(q)
=============================================================================
