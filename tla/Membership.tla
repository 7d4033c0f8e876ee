----------------------------- MODULE Membership -----------------------------
(* Membership gossip of PartialMesh (index.ts): what the peers of a mesh     *)
(* believe of one identity, the subject.  The subject renews a leased,       *)
(* versioned record; peers merge what they hear into their own table, list   *)
(* the subject in globalPeers while the lease lasts and pass the record on.  *)
(* A subject older than the versioned records sends its id only; a peer that *)
(* hears an id without a record writes a compatibility lease itself.         *)
(* Records of different identities never touch each other; that a message    *)
(* also brings news of others is the choice of Receive.                      *)
EXTENDS Naturals, FiniteSets

CONSTANTS
  Peers,           \* the peers that hear of the subject
  Subject,         \* the identity, not one of Peers
  Setups,          \* what a behaviour may start from, [kind, links, ahead,
                   \* delays, starts, renewals]: whether the subject is "v1" or "legacy", who
                   \* is connected, how far each clock is ahead, whether
                   \* a message may take a unit of time or is lost then;
                   \* bounds on the incarnations of the subject and on the
                   \* renewals of each
  LeaseMs, GossipIntervalMs, TombstoneRetentionMs, ClockSkewMs,
  None,
  MaxTime,         \* bound: the clock
  MaxNet           \* bound: with so many messages under way, others are lost

(* The constructor refuses any other configuration.                          *)
Configured ==
  /\ LeaseMs \in Nat \ {0} /\ GossipIntervalMs \in Nat \ {0} /\ ClockSkewMs \in Nat
  /\ TombstoneRetentionMs \in Nat
  /\ 3 * GossipIntervalMs <= LeaseMs
  /\ TombstoneRetentionMs >= LeaseMs + 2 * ClockSkewMs + GossipIntervalMs

ASSUME ConfigAssumption == Configured

ASSUME BoundAssumption ==
  /\ {MaxTime, MaxNet} \subseteq Nat
  /\ Subject \notin Peers
  /\ \A s \in Setups : /\ s.kind \in {"v1", "legacy"}
                       /\ s.links \subseteq (Peers \cup {Subject}) \X (Peers \cup {Subject})
                       /\ s.ahead \in [Peers \cup {Subject} -> Nat]
                       \* no more apart than peers allow for
                       /\ \A n, k \in Peers \cup {Subject} :
                            s.ahead[n] <= s.ahead[k] + ClockSkewMs
                       /\ s.delays \in BOOLEAN
                       /\ {s.starts, s.renewals} \subseteq Nat

VARIABLES
  setup,           \* one of Setups; never changes
  subject,         \* [up, starts, incarnation, sequence, validUntil]
  node,            \* [Peers -> what the peer holds of the subject]
  told,            \* [Peers -> BOOLEAN]: the last mesh:membership named it
  best,            \* history: the newest version the peer has accepted
  net,             \* membership messages under way
  now              \* the true time; every peer reads its own clock

vars == <<setup, subject, node, told, best, net, now>>

Clock(n) == now + setup.ahead[n]

Linked(n) == {k \in Peers : <<n, k>> \in setup.links \/ <<k, n>> \in setup.links}

(* validUntil is None in a record of a peer that left.                       *)
Records == [incarnation: Nat, sequence: Nat, state: {"alive", "left"},
            issuedAt: Nat, validUntil: Nat \cup {None}]

ASSUME NoneAssumption == None \notin Records

Alive(inc, seq, t) ==
  [incarnation |-> inc, sequence |-> seq, state |-> "alive", issuedAt |-> t,
   validUntil |-> t + LeaseMs]

Left(inc, seq, t) ==
  [incarnation |-> inc, sequence |-> seq, state |-> "left", issuedAt |-> t,
   validUntil |-> None]

(* What a message says of the subject: its record, whether peers has its id, *)
(* whether retiredPeers does.                                                *)
Messages == [to: Peers, from: Peers \cup {Subject}, record: Records \cup {None},
             listed: BOOLEAN, retired: BOOLEAN]

(* The tables membershipRecordsById, membershipEquivocationAtById and        *)
(* globalPeers at the subject's key.                                         *)
Holdings == [record: Records \cup {None}, quarantinedAt: Nat \cup {None},
             listed: BOOLEAN]

TypeOK ==
  /\ setup \in Setups
  /\ subject \in [up: BOOLEAN, starts: 1..setup.starts, incarnation: Nat,
                  sequence: 0..(setup.renewals + 1), validUntil: Nat]
  /\ node \in [Peers -> Holdings]
  /\ told \in [Peers -> BOOLEAN]
  /\ best \in [Peers -> Nat \X Nat]
  /\ net \subseteq Messages
  /\ now \in 1..MaxTime

Init ==
  /\ setup \in Setups
  /\ subject = [up |-> TRUE, starts |-> 1, incarnation |-> 1 + setup.ahead[Subject],
                sequence |-> 0, validUntil |-> 0]
  /\ node = [n \in Peers |-> [record |-> None, quarantinedAt |-> None, listed |-> FALSE]]
  /\ told = [n \in Peers |-> FALSE]
  /\ best = [n \in Peers |-> <<0, 0>>]
  /\ net = {}
  /\ now = 1

-----------------------------------------------------------------------------
(* One peer's table.  h is what it holds, t its clock.                       *)

(* Order of versions, of pairs <<incarnation, sequence>>.                    *)
Before(v, w) == v[1] < w[1] \/ (v[1] = w[1] /\ v[2] < w[2])

Version(record) == <<record.incarnation, record.sequence>>

(* isMembershipRecordNewer                                                   *)
Supersedes(record, h) ==
  h.record # None => Before(Version(h.record), Version(record))

(* Two different records of one version: the subject is quarantined.         *)
Equivocates(record, h) ==
  h.record # None /\ Version(h.record) = Version(record) /\ h.record # record

Acceptable(record, t) ==
  /\ record.issuedAt <= t + ClockSkewMs
  /\ record.state = "alive" =>
       /\ record.validUntil > record.issuedAt
       /\ record.validUntil <= record.issuedAt + LeaseMs
       /\ t < record.validUntil + TombstoneRetentionMs

(* mergeMembershipRecord answers TRUE.                                       *)
Changes(record, h, t) ==
  /\ record # None
  /\ Acceptable(record, t)
  /\ Equivocates(record, h) \/ Supersedes(record, h)

(* mergeMembershipRecord                                                     *)
Merged(record, h, t) ==
  IF ~Changes(record, h, t) THEN h
  ELSE IF Equivocates(record, h) THEN [h EXCEPT !.quarantinedAt = t]
  ELSE [h EXCEPT !.record = record]

(* Faulty variant: the lease is not looked at.                               *)
RebuiltFaultyLease(h, t) ==
  [h EXCEPT !.listed = h.record # None /\ h.record.state = "alive"
                       /\ h.quarantinedAt = None]

(* rebuildGlobalMembership                                                   *)
Rebuilt(h, t) ==
  [h EXCEPT !.listed = /\ h.record # None
                       /\ h.record.state = "alive"
                       /\ h.record.validUntil > t
                       /\ h.quarantinedAt = None]

(* Faulty variant: a tombstone goes at once.                                 *)
ForgottenFaultyTombstone(record, t) ==
  record.state = "left" \/ record.validUntil + TombstoneRetentionMs <= t

Forgotten(record, t) ==
  IF record.state = "alive" THEN record.validUntil + TombstoneRetentionMs <= t
  ELSE t > record.issuedAt + TombstoneRetentionMs

(* pruneMembershipRecords                                                    *)
Pruned(h, t) ==
  Rebuilt([record |-> IF h.record # None /\ Forgotten(h.record, t) THEN None ELSE h.record,
           quarantinedAt |-> IF /\ h.quarantinedAt # None
                                /\ t > h.quarantinedAt + TombstoneRetentionMs
                             THEN None ELSE h.quarantinedAt,
           listed |-> h.listed], t)

(* membershipRecordsForWire                                                  *)
OnWire(record, t) ==
  /\ record.state = "alive" => record.validUntil > t
  /\ record.state = "left" => t <= record.issuedAt + TombstoneRetentionMs

(* The messages sendMembership writes for a peer with holdings h.            *)
Sent(n, h, targets) ==
  {[to |-> k, from |-> n,
    record |-> IF h.record # None /\ OnWire(h.record, Clock(n)) THEN h.record ELSE None,
    listed |-> h.listed, retired |-> FALSE] : k \in targets}

Newest(v, record) ==
  IF record # None /\ Before(v, Version(record)) THEN Version(record) ELSE v

-----------------------------------------------------------------------------
(* The subject                                                               *)

(* Faulty variant: a renewal keeps the sequence.                             *)
NextSequenceFaultySame(sequence) == IF sequence = 0 THEN 1 ELSE sequence

NextSequence(sequence) == sequence + 1

(* renewLocalMembership(force) declines while most of the lease is left.     *)
KeepsLease(force) ==
  /\ ~force
  /\ subject.sequence > 0
  /\ subject.validUntil > Clock(Subject) + 2 * GossipIntervalMs

(* signalingClient.send: best effort.                                        *)
Send(base, messages) ==
  net' = IF Cardinality(base) < MaxNet THEN base \cup messages ELSE base

(* Every message of the subject: its own record when it writes versions.     *)
Speaks(record, retired) ==
  Send(net, {[to |-> k, from |-> Subject,
              record |-> IF setup.kind = "v1" THEN record ELSE None,
              listed |-> ~retired,
              retired |-> retired /\ setup.kind = "legacy"] : k \in Linked(Subject)})

(* The membership timer (force) or another broadcastMembership of the        *)
(* subject.  Bound: the lease ends before the clock does.                    *)
Advertise(force) ==
  LET t == Clock(Subject)
      seq == IF KeepsLease(force) THEN subject.sequence ELSE NextSequence(subject.sequence)
      until == IF KeepsLease(force) THEN subject.validUntil ELSE t + LeaseMs
  IN /\ subject.up
     /\ seq <= setup.renewals
     /\ until <= MaxTime
     /\ subject' = [subject EXCEPT !.sequence = seq, !.validUntil = until]
     /\ Speaks(Alive(subject.incarnation, seq, until - LeaseMs), FALSE)
     /\ UNCHANGED <<setup, node, told, best, now>>

(* The subject leaves: with a record of its own, or, when it is older, by    *)
(* naming itself in retiredPeers.  External: the sender of this repository   *)
(* just stops.                                                               *)
Leave ==
  /\ subject.up
  /\ subject.sequence > 0
  /\ subject' = [subject EXCEPT !.up = FALSE, !.sequence = subject.sequence + 1]
  /\ Speaks(Left(subject.incarnation, subject.sequence + 1, Clock(Subject)), TRUE)
  /\ UNCHANGED <<setup, node, told, best, now>>

Crash ==
  /\ subject.up
  /\ subject' = [subject EXCEPT !.up = FALSE]
  /\ UNCHANGED <<setup, node, told, best, net, now>>

(* A new PartialMesh of the same identity; its incarnation is Date.now(),    *)
(* and a restart takes longer than a millisecond.                            *)
Restart ==
  /\ ~subject.up
  /\ subject.starts < setup.starts
  /\ Clock(Subject) > subject.incarnation
  /\ subject' = [up |-> TRUE, starts |-> subject.starts + 1,
                 incarnation |-> Clock(Subject), sequence |-> 0, validUntil |-> 0]
  /\ UNCHANGED <<setup, node, told, best, net, now>>

-----------------------------------------------------------------------------
(* The peers                                                                 *)

(* Faulty variant: emitted before the list is replaced.                      *)
EmitFaultyStale(n, listed) == told' = [told EXCEPT ![n] = node[n].listed]

(* emit('mesh:membership')                                                   *)
Emit(n, listed) == told' = [told EXCEPT ![n] = listed]

(* The membership timer of n, or any other call of broadcastMembership:      *)
(* prune, tell the application, send.                                        *)
Broadcast(n) ==
  LET h == Pruned(node[n], Clock(n)) IN
  /\ node' = [node EXCEPT ![n] = h]
  /\ IF h.listed # node[n].listed THEN Emit(n, h.listed) ELSE UNCHANGED told
  /\ Send(net, Sent(n, h, Linked(n)))
  /\ UNCHANGED <<setup, subject, best, now>>

(* getGlobalPeers: prunes, and tells nobody.                                 *)
Read(n) ==
  /\ node' = [node EXCEPT ![n] = Pruned(@, Clock(n))]
  /\ node' # node
  /\ UNCHANGED <<setup, subject, told, best, net, now>>

(* A transport peer that names itself retired.                               *)
OwnRetirement(m, h, t) ==
  IF ~(m.retired /\ m.from = Subject) THEN None
  ELSE IF h.record = None THEN Left(0, 1, t)
  ELSE Left(h.record.incarnation, h.record.sequence + 1, t)

(* Faulty variant: a versioned record does not stand in the way.             *)
CompatibilityLeaseFaulty(m, h, t) ==
  IF ~m.listed THEN None ELSE Alive(IF h.record = None THEN 0 ELSE h.record.incarnation, t, t)

(* Versioned records and departures supersede the lease of an older peer.    *)
CompatibilityLease(m, h, t) ==
  IF ~m.listed \/ (h.record # None /\ (h.record.incarnation > 0 \/ h.record.state = "left"))
  THEN None ELSE Alive(0, t, t)

(* The message also changes what the peer knows of others, or degrees and    *)
(* neighbours (capacities, topology).                                        *)
OtherNews == BOOLEAN

(* mergeMembership: the record, then the departure, then the bare id.        *)
Receive(m) ==
  LET n == m.to
      t == Clock(n)
      h0 == node[n]
      others == Linked(n) \ {m.from}
  IN \E other \in OtherNews, h1 \in {Merged(m.record, h0, t)} :
     \E h2 \in {Merged(OwnRetirement(m, h1, t), h1, t)} :
     \E h3 \in {Merged(CompatibilityLease(m, h2, t), h2, t)} :
     LET h4 == Rebuilt(h3, t)
         after == IF others = {} THEN h4 ELSE Pruned(h4, t)
         news == \/ Changes(m.record, h0, t)
                 \/ Changes(OwnRetirement(m, h1, t), h1, t)
                 \/ Changes(CompatibilityLease(m, h2, t), h2, t)
                 \/ h4.listed # h0.listed
     IN /\ IF news \/ other
           THEN /\ node' = [node EXCEPT ![n] = after]
                /\ Emit(n, after.listed)
                /\ Send(net \ {m}, Sent(n, after, others))
           ELSE /\ node' = [node EXCEPT ![n] = h4]
                /\ net' = net \ {m}
                /\ UNCHANGED told
        /\ best' = [best EXCEPT ![n] =
                      Newest(Newest(Newest(@, h1.record), h2.record), h3.record)]
        /\ UNCHANGED <<setup, subject, now>>

(* A connection breaks with the message in it.                               *)
Lose(m) ==
  /\ net' = net \ {m}
  /\ UNCHANGED <<setup, subject, node, told, best, now>>

(* Assumed of the network: a message arrives or is lost within the retention *)
(* time of the lease it brings.                                              *)
Tick ==
  /\ now < MaxTime
  /\ \A m \in net : (m.record # None /\ m.record.state = "alive") =>
                      ~Forgotten(m.record, Clock(m.to) + 1)
  /\ now' = now + 1
  /\ net' = IF setup.delays THEN net ELSE {}
  /\ UNCHANGED <<setup, subject, node, told, best>>

Next ==
  \/ \E force \in BOOLEAN : Advertise(force)
  \/ Leave \/ Crash \/ Restart
  \/ \E n \in Peers : Broadcast(n) \/ Read(n)
  \/ \E m \in net : Receive(m) \/ Lose(m)
  \/ Tick

Spec == Init /\ [][Next]_vars

(* setInterval: the membership timer of every peer and the clock go on.      *)
FairSpec ==
  /\ Spec
  /\ WF_vars(Tick)
  /\ \A n \in Peers : WF_vars(Broadcast(n))
  /\ WF_vars(\E m \in net : Receive(m) \/ Lose(m))  \* no packet is stuck

-----------------------------------------------------------------------------
(* Properties                                                                *)

(* A peer lists the subject under the newest version it ever accepted: what  *)
(* was forgotten after the retention time never comes back with an older     *)
(* record that some peer still had or that was under way.                    *)
ListsTheLatest ==
  \A n \in Peers : node[n].listed => Version(node[n].record) = best[n]

(* A subject that renews, crashes, restarts and leaves with versioned        *)
(* records is never taken for an equivocator; only the departure of an older *)
(* one, which every peer dates itself, looks like one.                       *)
NoFalseEquivocation ==
  \A n \in Peers : node[n].quarantinedAt # None => setup.kind = "legacy"

(* No peer believes a v1 subject longer than one lease after the subject     *)
(* wrote it: forwarding never extends a lease.                               *)
ForwardingKeepsTheLease ==
  setup.kind = "v1" =>
    \A n \in Peers : node[n].listed =>
      /\ node[n].record.incarnation > 0
      /\ node[n].record.incarnation = subject.incarnation =>
           /\ node[n].record.validUntil <= subject.validUntil
           /\ node[n].record.sequence <= subject.sequence

(* The application may not yet know that the subject has gone (Read), but    *)
(* is told of every subject that is listed, unless a quarantine ended.       *)
ToldOfTheListed ==
  setup.kind = "v1" => \A n \in Peers : node[n].listed => told[n]

(* A v1 subject that is gone drops out of every list.                        *)
DepartedIsForgotten ==
  (setup.kind = "v1" /\ ~subject.up) ~>
    (subject.up \/ \A n \in Peers : ~node[n].listed)

=============================================================================
