------------------------- MODULE Membership_proofs -------------------------
(***************************************************************************)
(* What peers believe of a subject that writes versioned records, for any  *)
(* number of peers, clocks and lost messages, crashes and restarts.        *)
(***************************************************************************)
EXTENDS Membership, TLAPS

(* The records that such a subject writes.                                   *)
Genuine ==
  {r \in Records : /\ r.incarnation > 0 /\ r.sequence > 0
                   /\ r.state = "alive" => r.validUntil = r.issuedAt + LeaseMs}

NoLater(v, w) == v[1] < w[1] \/ (v[1] = w[1] /\ v[2] <= w[2])

(* The record of the lease that the subject may write once more.             *)
Lease ==
  IF subject.up /\ subject.sequence > 0
  THEN {Alive(subject.incarnation, subject.sequence, subject.validUntil - LeaseMs)} ELSE {}

Written ==
  ({node[n].record : n \in Peers} \cup {m.record : m \in net} \cup Lease) \ {None}

(* One record for each version, and the later the version the later written. *)
Chronicle(W) ==
  /\ W \subseteq Genuine
  /\ \A r, q \in W :
       /\ Version(r) = Version(q) => r = q
       /\ Before(Version(r), Version(q)) => r.issuedAt <= q.issuedAt

(* No record is newer than the subject, or promises more than it did.        *)
Bounded(W) ==
  \A r \in W :
    /\ NoLater(Version(r), <<subject.incarnation, subject.sequence>>)
    /\ r.issuedAt <= Clock(Subject)
    /\ r.incarnation = subject.incarnation /\ r.state = "alive" =>
         r.validUntil <= subject.validUntil

(* A peer that accepted version b, and whose clock shows t, has the record   *)
(* of b; or it has forgotten it, but then no lease up to b lasts any longer. *)
Remembers(h, b, t, W) ==
  \/ h.record # None /\ Version(h.record) = b
  \/ \A r \in W : r.state = "alive" /\ NoLater(Version(r), b) => r.validUntil <= t

Sound(h, b, t, W) ==
  /\ h \in [record: Genuine \cup {None}, quarantinedAt: {None}, listed: BOOLEAN]
  /\ b \in Nat \X Nat
  /\ h.record # None => h.record \in W /\ NoLater(Version(h.record), b)
  /\ Remembers(h, b, t, W)

ListsLatest(h, b) ==
  h.listed => h.record # None /\ h.record.state = "alive" /\ Version(h.record) = b

SubjectOK ==
  /\ subject \in [up: BOOLEAN, starts: Nat, incarnation: Nat \ {0}, sequence: Nat, validUntil: Nat]
  /\ subject.validUntil <= Clock(Subject) + LeaseMs
  /\ subject.sequence > 0 /\ subject.up => LeaseMs <= subject.validUntil

(* A message that lists the subject brings a lease that is not forgotten.    *)
MessageOK(m) ==
  /\ m.to \in Peers /\ m.record \in Genuine \cup {None} /\ m.listed \in BOOLEAN /\ ~m.retired
  /\ m.listed => /\ m.record # None /\ m.record.state = "alive"
                 /\ Clock(m.to) < m.record.validUntil + TombstoneRetentionMs

NodeOK(n) ==
  /\ Sound(node[n], best[n], Clock(n), Written)
  /\ ListsLatest(node[n], best[n])
  /\ NoLater(best[n], <<subject.incarnation, subject.sequence>>)

Versioned ==
  /\ SubjectOK
  /\ node = [n \in Peers |-> node[n]] /\ best = [n \in Peers |-> best[n]]
  /\ \A n \in Peers : NodeOK(n)
  /\ \A m \in net : MessageOK(m)
  /\ Chronicle(Written)
  /\ Bounded(Written)

Inv ==
  /\ setup \in Setups /\ now \in Nat
  /\ setup.kind = "v1" => Versioned

-----------------------------------------------------------------------------
(* Clocks                                                                    *)

LEMMA Settings ==
  /\ LeaseMs \in Nat \ {0} /\ GossipIntervalMs \in Nat \ {0} /\ ClockSkewMs \in Nat
  /\ TombstoneRetentionMs \in Nat
  /\ TombstoneRetentionMs >= LeaseMs + 2 * ClockSkewMs + GossipIntervalMs
BY ConfigAssumption DEF Configured

LEMMA Clocks ==
  ASSUME Inv
  PROVE  /\ \A n \in Peers \cup {Subject} : Clock(n) \in Nat
         /\ \A n, k \in Peers \cup {Subject} : Clock(n) <= Clock(k) + ClockSkewMs
<1>1. /\ setup.ahead \in [Peers \cup {Subject} -> Nat]
      /\ \A n, k \in Peers \cup {Subject} : setup.ahead[n] <= setup.ahead[k] + ClockSkewMs
  BY BoundAssumption DEF Inv
<1>2. \A n, k \in Peers \cup {Subject} : setup.ahead[n] \in Nat /\ setup.ahead[k] \in Nat
  BY <1>1
<1> QED
  BY <1>1, <1>2, Settings DEF Clock, Inv

-----------------------------------------------------------------------------
(* One peer's table                                                          *)

LEMMA RecordTypes ==
  ASSUME NEW r \in Genuine
  PROVE  /\ r.incarnation \in Nat \ {0} /\ r.sequence \in Nat \ {0} /\ r.issuedAt \in Nat
         /\ r.state \in {"alive", "left"}
         /\ r.state = "alive" => r.validUntil = r.issuedAt + LeaseMs /\ r.validUntil \in Nat
         /\ r # None
         /\ Version(r) \in Nat \X Nat
         /\ Version(r)[1] = r.incarnation /\ Version(r)[2] = r.sequence
BY NoneAssumption, Settings DEF Genuine, Records, Version

LEMMA Trichotomy ==
  ASSUME NEW v \in Nat \X Nat, NEW w \in Nat \X Nat
  PROVE  /\ NoLater(v, w) <=> ~Before(w, v)
         /\ NoLater(v, w) <=> Before(v, w) \/ v = w
BY DEF NoLater, Before

LEMMA NoLaterTransitive ==
  ASSUME NEW u \in Nat \X Nat, NEW v \in Nat \X Nat, NEW w \in Nat \X Nat,
         NoLater(u, v), NoLater(v, w)
  PROVE  NoLater(u, w)
BY DEF NoLater

(* A record is accepted only when it is newer: one version has one content.  *)
LEMMA MergedLemma ==
  ASSUME NEW W, Chronicle(W), NEW t, NEW b, NEW h, Sound(h, b, t, W),
         NEW record \in W \cup {None}
  PROVE  LET k == Merged(record, h, t)
         IN  /\ Sound(k, Newest(b, k.record), t, W)
             /\ k.listed = h.listed
             /\ Newest(b, k.record) = b \/ (record # None /\ Newest(b, k.record) = Version(record))
<1> DEFINE k == Merged(record, h, t)
<1>1. CASE k = h
  <2>1. Newest(b, h.record) = b
    <3>1. CASE h.record = None
      BY <3>1 DEF Newest
    <3>2. CASE h.record # None
      <4>1. h.record \in Genuine /\ NoLater(Version(h.record), b) /\ b \in Nat \X Nat
        BY <3>2 DEF Sound
      <4> QED
        BY <4>1, RecordTypes, Trichotomy DEF Newest
    <3> QED
      BY <3>1, <3>2
  <2> QED
    BY <1>1, <2>1
<1>2. CASE k # h
  <2>1. Changes(record, h, t)
    BY <1>2 DEF Merged
  <2>2. record \in W /\ record \in Genuine /\ record # None
    BY <2>1 DEF Changes, Chronicle
  <2>3. ~Equivocates(record, h)
    BY <2>2 DEF Equivocates, Sound, Chronicle
  <2>4. k = [h EXCEPT !.record = record] /\ Supersedes(record, h)
    BY <2>1, <2>3 DEF Merged, Changes
  <2>5. k.record = record /\ k.listed = h.listed
        /\ k \in [record: Genuine \cup {None}, quarantinedAt: {None}, listed: BOOLEAN]
    BY <2>2, <2>4 DEF Sound
  <2>6. Version(record) \in Nat \X Nat /\ b \in Nat \X Nat
    BY <2>2, RecordTypes DEF Sound
  <2>7. CASE Before(b, Version(record))
    <3>1. Newest(b, k.record) = Version(record)
      BY <2>2, <2>5, <2>7 DEF Newest
    <3>2. NoLater(Version(record), Version(record))
      BY <2>6, Trichotomy
    <3> QED
      BY <2>2, <2>5, <2>6, <3>1, <3>2 DEF Sound, Remembers
  <2>8. CASE ~Before(b, Version(record))
    <3>1. Newest(b, k.record) = b
      BY <2>5, <2>8 DEF Newest
    <3>2. NoLater(Version(record), b)
      BY <2>6, <2>8, Trichotomy
    <3>3. ~(h.record # None /\ Version(h.record) = b)
      BY <2>4, <2>8 DEF Supersedes
    <3>4. Remembers(k, b, t, W)
      BY <3>3 DEF Sound, Remembers
    <3> QED
      BY <2>2, <2>5, <2>6, <3>1, <3>2, <3>4 DEF Sound
  <2> QED
    BY <2>7, <2>8
<1> QED
  BY <1>1, <1>2

(* What is listed has a lease that lasts: it is the newest known.            *)
LEMMA RebuiltLemma ==
  ASSUME NEW W, Chronicle(W), NEW t \in Nat, NEW b, NEW h, Sound(h, b, t, W)
  PROVE  /\ Sound(Rebuilt(h, t), b, t, W)
         /\ ListsLatest(Rebuilt(h, t), b)
         /\ Rebuilt(h, t).record = h.record
         /\ Rebuilt(h, t).listed => h.record # None /\ h.record.state = "alive"
                                    /\ h.record.validUntil > t
<1> DEFINE k == Rebuilt(h, t)
           l == /\ h.record # None
                /\ h.record.state = "alive"
                /\ h.record.validUntil > t
                /\ h.quarantinedAt = None
<1>1. k = [h EXCEPT !.listed = l] /\ l \in BOOLEAN
  BY DEF Rebuilt
<1>2. k \in [record: Genuine \cup {None}, quarantinedAt: {None}, listed: BOOLEAN]
      /\ k.record = h.record /\ k.listed = l
  BY <1>1 DEF Sound
<1>3. Sound(k, b, t, W)
  BY <1>2 DEF Sound, Remembers
<1>4. ListsLatest(k, b)
  <2> SUFFICES ASSUME l PROVE Version(h.record) = b
    BY <1>2 DEF ListsLatest
  <2>1. h.record \in Genuine /\ h.record \in W /\ NoLater(Version(h.record), b)
    BY DEF Sound
  <2>2. ~(h.record.validUntil <= t)
    BY <2>1, RecordTypes
  <2> QED
    BY <2>1, <2>2 DEF Sound, Remembers
<1> QED
  BY <1>2, <1>3, <1>4

(* What is forgotten has no older lease that lasts any longer.               *)
LEMMA PrunedLemma ==
  ASSUME NEW W, Chronicle(W), NEW t \in Nat, NEW b, NEW h, Sound(h, b, t, W)
  PROVE  /\ Sound(Pruned(h, t), b, t, W)
         /\ ListsLatest(Pruned(h, t), b)
         /\ Pruned(h, t).record \in {h.record, None}
         /\ Pruned(h, t).listed => /\ Pruned(h, t).record # None
                                   /\ Pruned(h, t).record.state = "alive"
                                   /\ Pruned(h, t).record.validUntil > t
<1> DEFINE record == IF h.record # None /\ Forgotten(h.record, t) THEN None ELSE h.record
           k == [record |-> record, quarantinedAt |-> None, listed |-> h.listed]
<1>1. Pruned(h, t) = Rebuilt(k, t)
  BY DEF Pruned, Sound
<1>2. k \in [record: Genuine \cup {None}, quarantinedAt: {None}, listed: BOOLEAN]
      /\ k.record \in {h.record, None}
  BY DEF Sound
<1>3. Remembers(k, b, t, W)
  <2>1. CASE record = h.record
    BY <2>1 DEF Sound, Remembers
  <2>2. CASE record # h.record /\ Version(h.record) # b
    BY <2>2 DEF Sound, Remembers
  <2>3. CASE record # h.record /\ Version(h.record) = b
    <3>1. h.record \in Genuine /\ h.record \in W /\ Forgotten(h.record, t)
      BY <2>3 DEF Sound
    <3> SUFFICES ASSUME NEW r \in W, r.state = "alive", NoLater(Version(r), b)
                 PROVE  r.validUntil <= t
      BY DEF Remembers
    <3>2. r \in Genuine
      BY DEF Chronicle
    <3>3. r.issuedAt <= h.record.issuedAt
      BY <2>3, <3>1, <3>2, RecordTypes, Trichotomy DEF Chronicle
    <3> QED
      BY <3>1, <3>2, <3>3, RecordTypes, Settings DEF Forgotten
  <2> QED
    BY <2>1, <2>2, <2>3
<1>4. Sound(k, b, t, W)
  BY <1>2, <1>3 DEF Sound
<1> HIDE DEF k
<1> QED
  BY <1>1, <1>2, <1>4, RebuiltLemma

-----------------------------------------------------------------------------
(* Every step keeps the invariant                                            *)

LEMMA InitInv == Init => Inv
<1> SUFFICES ASSUME Init PROVE Inv
  OBVIOUS
<1>1. setup \in Setups /\ now \in Nat /\ setup.ahead[Subject] \in Nat
  BY BoundAssumption DEF Init
<1>2. Clock(Subject) \in Nat
  BY <1>1 DEF Clock
<1>3. subject = [up |-> TRUE, starts |-> 1, incarnation |-> 1 + setup.ahead[Subject],
                sequence |-> 0, validUntil |-> 0]
  BY DEF Init
<1>4. SubjectOK
  BY <1>1, <1>2, <1>3, Settings DEF SubjectOK
<1>5. Written = {}
  BY <1>3 DEF Init, Written, Lease
<1>6. Chronicle({}) /\ Bounded({})
  BY DEF Chronicle, Bounded
<1>7. ASSUME NEW n \in Peers PROVE NodeOK(n)
  <2>1. node[n] = [record |-> None, quarantinedAt |-> None, listed |-> FALSE] /\ best[n] = <<0, 0>>
    BY DEF Init
  <2>2. NoLater(best[n], <<subject.incarnation, subject.sequence>>)
    BY <1>1, <1>3, <2>1 DEF NoLater
  <2> QED
    BY <1>5, <2>1, <2>2 DEF NodeOK, Sound, Remembers, ListsLatest
<1> QED
  BY <1>1, <1>4, <1>5, <1>6, <1>7 DEF Init, Inv, Versioned

(* Records may be lost, and none is added.                                   *)
LEMMA SubsetLemma ==
  ASSUME NEW W, NEW V, V \subseteq W
  PROVE  /\ Chronicle(W) => Chronicle(V)
         /\ Bounded(W) => Bounded(V)
         /\ \A h, b, t : Sound(h, b, t, W) /\ (h.record # None => h.record \in V) => Sound(h, b, t, V)
BY DEF Chronicle, Bounded, Sound, Remembers

(* A message that the peer n writes of its holdings h, pruned just before.   *)
LEMMA SentLemma ==
  ASSUME Inv, NEW n \in Peers, NEW h, NEW targets, targets \subseteq Peers,
         h.record \in Genuine \cup {None}, h.listed \in BOOLEAN,
         h.listed => h.record # None /\ h.record.state = "alive" /\ h.record.validUntil > Clock(n),
         NEW m \in Sent(n, h, targets)
  PROVE  MessageOK(m) /\ m.record \in {h.record, None}
<1>1. PICK k \in targets :
        m = [to |-> k, from |-> n,
             record |-> IF h.record # None /\ OnWire(h.record, Clock(n)) THEN h.record ELSE None,
             listed |-> h.listed, retired |-> FALSE]
  BY DEF Sent
<1>2. /\ m.to = k /\ m.listed = h.listed /\ m.retired = FALSE
      /\ m.record = IF h.record # None /\ OnWire(h.record, Clock(n)) THEN h.record ELSE None
  BY <1>1
<1>3. Clock(k) \in Nat /\ Clock(n) \in Nat /\ Clock(k) <= Clock(n) + ClockSkewMs
  BY Clocks
<1>4. ASSUME h.listed
      PROVE  m.record = h.record /\ Clock(k) < h.record.validUntil + TombstoneRetentionMs
  <2>1. h.record \in Genuine /\ h.record.state = "alive" /\ h.record.validUntil > Clock(n)
    BY <1>4
  <2>2. OnWire(h.record, Clock(n))
    BY <2>1 DEF OnWire
  <2> QED
    BY <1>2, <1>3, <2>1, <2>2, RecordTypes, Settings
<1> QED
  BY <1>2, <1>4 DEF MessageOK

(* A step that only changes what peers hold and what is under way.           *)
LEMMA PeerStep ==
  ASSUME Inv, setup.kind = "v1", UNCHANGED <<setup, subject, now>>,
         NEW n \in Peers, NEW h, NEW b,
         node' = [node EXCEPT ![n] = h], best' = [best EXCEPT ![n] = b],
         Sound(h, b, Clock(n), Written), ListsLatest(h, b),
         NoLater(b, <<subject.incarnation, subject.sequence>>),
         \A m \in net' : MessageOK(m) /\ m.record \in Written \cup {None}
  PROVE  Inv'
<1>1. node'[n] = h /\ \A k \in Peers \ {n} : node'[k] = node[k]
  BY DEF Inv, Versioned
<1>2. best'[n] = b /\ \A k \in Peers \ {n} : best'[k] = best[k]
  BY DEF Inv, Versioned
<1>3. h.record \in Written \cup {None}
  BY DEF Sound
<1>4. Lease' = Lease
  BY DEF Lease
<1>5. Written' \subseteq Written
  BY <1>1, <1>3, <1>4 DEF Written
<1>6. Chronicle(Written') /\ Bounded(Written')
  BY <1>5, SubsetLemma DEF Inv, Versioned
<1>7. Chronicle(Written)' /\ Bounded(Written)'
  BY <1>6 DEF Chronicle, Bounded, Clock
<1>8. ASSUME NEW k \in Peers PROVE NodeOK(k)'
  <2>1. /\ Sound(node'[k], best'[k], Clock(k), Written) /\ ListsLatest(node'[k], best'[k])
        /\ NoLater(best'[k], <<subject.incarnation, subject.sequence>>)
    BY <1>1, <1>2 DEF Inv, Versioned, NodeOK
  <2>2. node'[k].record # None => node'[k].record \in Written'
    BY DEF Written
  <2>3. Sound(node'[k], best'[k], Clock(k), Written')
    BY <1>5, <2>1, <2>2, SubsetLemma
  <2>4. Sound(node[k], best[k], Clock(k), Written)'
    BY <2>3 DEF Sound, Remembers, Clock
  <2> QED
    BY <2>1, <2>4 DEF NodeOK, ListsLatest
<1>9. \A m \in net' : MessageOK(m)'
  BY DEF MessageOK, Clock
<1>10. SubjectOK'
  BY DEF Inv, Versioned, SubjectOK, Clock
<1>11. node' = [k \in Peers |-> node'[k]] /\ best' = [k \in Peers |-> best'[k]]
  BY DEF Inv, Versioned
<1> QED
  BY <1>7, <1>8, <1>9, <1>10, <1>11 DEF Inv, Versioned

LEMMA WrittenLemma ==
  ASSUME Inv, setup.kind = "v1"
  PROVE  /\ \A m \in net : MessageOK(m) /\ m.record \in Written \cup {None}
         /\ Chronicle(Written) /\ Written \subseteq Genuine
         /\ \A n \in Peers : NodeOK(n) /\ node[n].record \in Written \cup {None}
BY DEF Inv, Versioned, Written, Chronicle

LEMMA ReadStep ==
  ASSUME Inv, setup.kind = "v1", NEW n \in Peers, Broadcast(n) \/ Read(n)
  PROVE  Inv'
<1> DEFINE h == Pruned(node[n], Clock(n))
<1>1. /\ Sound(h, best[n], Clock(n), Written) /\ ListsLatest(h, best[n])
      /\ h.record \in {node[n].record, None}
      /\ h.listed => h.record # None /\ h.record.state = "alive" /\ h.record.validUntil > Clock(n)
  BY WrittenLemma, PrunedLemma, Clocks DEF NodeOK
<1>2. /\ node' = [node EXCEPT ![n] = h] /\ UNCHANGED <<setup, subject, now, best>>
      /\ net' \in {net, net \cup Sent(n, h, Linked(n))}
  BY DEF Broadcast, Read, Send
<1> HIDE DEF h
<1>3. best' = [best EXCEPT ![n] = best[n]]
  BY <1>2 DEF Inv, Versioned
<1>4. h.record \in Genuine \cup {None} /\ h.listed \in BOOLEAN /\ h.record \in Written \cup {None}
  BY <1>1 DEF Sound
<1>5. Linked(n) \subseteq Peers
  BY DEF Linked
<1>6. \A m \in Sent(n, h, Linked(n)) : MessageOK(m) /\ m.record \in Written \cup {None}
  BY <1>1, <1>4, <1>5, SentLemma
<1>7. \A m \in net' : MessageOK(m) /\ m.record \in Written \cup {None}
  BY <1>2, <1>6, WrittenLemma
<1>8. NoLater(best[n], <<subject.incarnation, subject.sequence>>)
  BY DEF Inv, Versioned, NodeOK
<1> QED
  BY <1>1, <1>2, <1>3, <1>7, <1>8, PeerStep

(* A peer whom a message lists the subject to knows a record of it.          *)
LEMMA ListedLemma ==
  ASSUME Inv, setup.kind = "v1", NEW m \in net, m.listed
  PROVE  Merged(m.record, node[m.to], Clock(m.to)).record \in Genuine
<1> DEFINE h == node[m.to]
           t == Clock(m.to)
<1>1. /\ m.to \in Peers /\ m.record \in Genuine /\ m.record \in Written /\ m.record # None
      /\ m.record.state = "alive" /\ t < m.record.validUntil + TombstoneRetentionMs
  BY WrittenLemma DEF MessageOK
<1>2. h \in [record: Genuine \cup {None}, quarantinedAt: {None}, listed: BOOLEAN]
  BY <1>1, WrittenLemma DEF NodeOK, Sound
<1>3. m.record.issuedAt <= t + ClockSkewMs
  <2>1. m.record.issuedAt <= Clock(Subject)
    BY <1>1 DEF Inv, Versioned, Bounded
  <2>2. Clock(Subject) <= t + ClockSkewMs /\ t \in Nat /\ Clock(Subject) \in Nat
    BY <1>1, Clocks
  <2> QED
    BY <1>1, <2>1, <2>2, RecordTypes, Settings
<1>4. Acceptable(m.record, t)
  BY <1>1, <1>3, RecordTypes, Settings DEF Acceptable
<1> HIDE DEF h, t
<1>5. CASE h.record = None
  <2>1. Merged(m.record, h, t) = [h EXCEPT !.record = m.record]
    BY <1>1, <1>4, <1>5 DEF Merged, Changes, Equivocates, Supersedes
  <2> QED
    BY <1>1, <1>2, <2>1 DEF h, t
<1>6. CASE h.record # None
  <2>1. Merged(m.record, h, t) \in {h, [h EXCEPT !.quarantinedAt = t], [h EXCEPT !.record = m.record]}
    BY DEF Merged
  <2> QED
    BY <1>1, <1>2, <1>6, <2>1 DEF h, t
<1> QED
  BY <1>5, <1>6

LEMMA NewestTwice ==
  ASSUME NEW b \in Nat \X Nat, NEW r \in Genuine \cup {None}
  PROVE  Newest(Newest(b, r), r) = Newest(b, r) /\ Newest(b, r) \in Nat \X Nat
<1>1. r # None => Version(r) \in Nat \X Nat
  BY RecordTypes
<1> QED
  BY <1>1, Trichotomy DEF Newest, Before

(* Neither a retirement nor a compatibility lease is made up.                *)
LEMMA ReceiveLemma ==
  ASSUME Inv, setup.kind = "v1", NEW m \in net, Receive(m)
  PROVE  LET n == m.to
             t == Clock(n)
             h1 == Merged(m.record, node[n], t)
             h4 == Rebuilt(h1, t)
         IN  /\ best' = [best EXCEPT ![n] = Newest(@, h1.record)]
             /\ \/ node' = [node EXCEPT ![n] = h4] /\ net' = net \ {m}
                \/ /\ node' = [node EXCEPT ![n] = Pruned(h4, t)]
                   /\ Send(net \ {m}, Sent(n, Pruned(h4, t), Linked(n) \ {m.from}))
                \/ /\ node' = [node EXCEPT ![n] = h4]
                   /\ Send(net \ {m}, Sent(n, h4, {}))
<1> DEFINE n == m.to
           t == Clock(n)
           h1 == Merged(m.record, node[n], t)
           h4 == Rebuilt(h1, t)
<1>1. n \in Peers /\ ~m.retired /\ m.record \in Written \cup {None}
  BY WrittenLemma DEF MessageOK
<1>2. \A h : OwnRetirement(m, h, t) = None
  BY <1>1 DEF OwnRetirement
<1>3. \A h : Merged(None, h, t) = h
  BY DEF Merged, Changes
<1>4. CompatibilityLease(m, h1, t) = None
  <2>1. m.listed => h1.record \in Genuine
    BY ListedLemma
  <2>2. m.listed => h1.record # None /\ h1.record.incarnation > 0
    BY <2>1, RecordTypes DEF Genuine
  <2> QED
    BY <2>2 DEF CompatibilityLease
<1>5. /\ \A h : Merged(OwnRetirement(m, h, t), h, t) = h
      /\ Merged(CompatibilityLease(m, h1, t), h1, t) = h1
  BY <1>2, <1>3, <1>4
<1>6. h1.record \in Genuine \cup {None} /\ best[n] \in Nat \X Nat
  <2>1. Sound(node[n], best[n], t, Written)
    BY <1>1, WrittenLemma DEF NodeOK
  <2>2. Sound(h1, Newest(best[n], h1.record), t, Written)
    BY <1>1, <2>1, WrittenLemma, MergedLemma
  <2> QED
    BY <2>1, <2>2 DEF Sound
<1> DEFINE others == Linked(n) \ {m.from}
           after == IF others = {} THEN h4 ELSE Pruned(h4, t)
<1>7. /\ best' = [best EXCEPT ![n] = Newest(Newest(Newest(@, h1.record), h1.record), h1.record)]
      /\ \/ node' = [node EXCEPT ![n] = h4] /\ net' = net \ {m}
         \/ node' = [node EXCEPT ![n] = after] /\ Send(net \ {m}, Sent(n, after, others))
  <2>1. PICK h2 \in {Merged(OwnRetirement(m, h1, t), h1, t)} :
        \E h3 \in {Merged(CompatibilityLease(m, h2, t), h2, t)} :
          LET g == Rebuilt(h3, t)
              later == IF others = {} THEN g ELSE Pruned(g, t)
          IN  /\ \/ node' = [node EXCEPT ![n] = later] /\ Send(net \ {m}, Sent(n, later, others))
                 \/ node' = [node EXCEPT ![n] = g] /\ net' = net \ {m}
              /\ best' = [best EXCEPT ![n] = Newest(Newest(Newest(@, h1.record), h2.record), h3.record)]
    <3> HIDE DEF h1
    <3> QED
      BY DEF Receive, h1
  <2>2. h2 = h1
    BY <1>5, <2>1
  <2> HIDE DEF h1
  <2> QED
    BY <1>5, <2>1, <2>2
<1> QED
  BY <1>6, <1>7, NewestTwice

LEMMA ReceiveStep ==
  ASSUME Inv, setup.kind = "v1", NEW m \in net, Receive(m)
  PROVE  Inv'
<1> DEFINE n == m.to
           t == Clock(n)
           h1 == Merged(m.record, node[n], t)
           h4 == Rebuilt(h1, t)
           k == Pruned(h4, t)
           b == Newest(best[n], h1.record)
           targets == Linked(n) \ {m.from}
<1>1. n \in Peers /\ m.record \in Written \cup {None} /\ t \in Nat
  BY WrittenLemma, Clocks DEF MessageOK
<1>2. UNCHANGED <<setup, subject, now>>
  BY DEF Receive
<1>3. /\ best' = [best EXCEPT ![n] = b]
      /\ \/ node' = [node EXCEPT ![n] = h4] /\ net' = net \ {m}
         \/ node' = [node EXCEPT ![n] = k] /\ Send(net \ {m}, Sent(n, k, targets))
         \/ node' = [node EXCEPT ![n] = h4] /\ Send(net \ {m}, Sent(n, h4, {}))
  BY ReceiveLemma
<1>4. Sound(h1, b, t, Written) /\ (b = best[n] \/ (m.record # None /\ b = Version(m.record)))
  BY <1>1, WrittenLemma, MergedLemma DEF NodeOK
<1>5. NoLater(b, <<subject.incarnation, subject.sequence>>)
  BY <1>1, <1>4, WrittenLemma DEF NodeOK, Inv, Versioned, Bounded
<1> HIDE DEF h1, b
<1>6. Sound(h4, b, t, Written) /\ ListsLatest(h4, b)
  BY <1>1, <1>4, WrittenLemma, RebuiltLemma
<1> HIDE DEF h4
<1>7. /\ Sound(k, b, t, Written) /\ ListsLatest(k, b)
      /\ k.listed => k.record # None /\ k.record.state = "alive" /\ k.record.validUntil > t
  BY <1>1, <1>6, WrittenLemma, PrunedLemma
<1> HIDE DEF k
<1>8. \A q \in net \ {m} : MessageOK(q) /\ q.record \in Written \cup {None}
  BY WrittenLemma
<1>9. CASE node' = [node EXCEPT ![n] = k] /\ Send(net \ {m}, Sent(n, k, targets))
  <2>1. k.record \in Genuine \cup {None} /\ k.listed \in BOOLEAN /\ k.record \in Written \cup {None}
        /\ targets \subseteq Peers
    BY <1>7 DEF Sound, Linked
  <2> HIDE DEF targets
  <2>2. \A q \in Sent(n, k, targets) : MessageOK(q) /\ q.record \in Written \cup {None}
    BY <1>1, <1>7, <2>1, SentLemma
  <2>3. \A q \in net' : MessageOK(q) /\ q.record \in Written \cup {None}
    BY <1>8, <1>9, <2>2 DEF Send
  <2> HIDE DEF n
  <2> QED
    BY <1>1, <1>2, <1>3, <1>5, <1>7, <1>9, <2>3, PeerStep
<1>10. CASE /\ node' = [node EXCEPT ![n] = h4]
            /\ net' = net \ {m} \/ Send(net \ {m}, Sent(n, h4, {}))
  <2>1. net' = net \ {m}
    BY <1>10 DEF Send, Sent
  <2> HIDE DEF n
  <2> QED
    BY <1>1, <1>2, <1>3, <1>5, <1>6, <1>8, <1>10, <2>1, PeerStep
<1> QED
  BY <1>3, <1>9, <1>10

LEMMA LoseStep ==
  ASSUME Inv, setup.kind = "v1", NEW m \in net, Lose(m)
  PROVE  Inv'
<1> DEFINE n == m.to
<1>1. n \in Peers
  BY WrittenLemma DEF MessageOK
<1>2. /\ Sound(node[n], best[n], Clock(n), Written) /\ ListsLatest(node[n], best[n])
      /\ NoLater(best[n], <<subject.incarnation, subject.sequence>>)
  BY <1>1, WrittenLemma DEF NodeOK
<1>3. node' = [node EXCEPT ![n] = node[n]] /\ best' = [best EXCEPT ![n] = best[n]]
      /\ UNCHANGED <<setup, subject, now>> /\ net' = net \ {m}
  BY DEF Lose, Inv, Versioned
<1>4. \A q \in net' : MessageOK(q) /\ q.record \in Written \cup {None}
  BY <1>3, WrittenLemma
<1> HIDE DEF n
<1> QED
  BY <1>1, <1>2, <1>3, <1>4, PeerStep

(* A step of the subject: a record that was not written yet is newer than    *)
(* what any peer has accepted.                                               *)
LEMMA SubjectStep ==
  ASSUME Inv, setup.kind = "v1", UNCHANGED <<setup, node, best, now>>,
         SubjectOK', Chronicle(Written'), Bounded(Written)',
         NoLater(<<subject.incarnation, subject.sequence>>,
                 <<subject'.incarnation, subject'.sequence>>),
         \A r \in Written' : r \in Written \/ \A n \in Peers : Before(best[n], Version(r)),
         \A m \in net' : MessageOK(m)
  PROVE  Inv'
<1>1. ASSUME NEW n \in Peers PROVE NodeOK(n)'
  <2>1. /\ Sound(node[n], best[n], Clock(n), Written) /\ ListsLatest(node[n], best[n])
        /\ NoLater(best[n], <<subject.incarnation, subject.sequence>>)
    BY DEF Inv, Versioned, NodeOK
  <2>2. best[n] \in Nat \X Nat
    BY <2>1 DEF Sound
  <2>3. node[n].record # None => node[n].record \in Written'
    BY DEF Written
  <2>4. ASSUME NEW r \in Written', r.state = "alive", NoLater(Version(r), best[n])
        PROVE  r \in Written
    BY <2>2, <2>4, RecordTypes, Trichotomy DEF Chronicle
  <2>5. Remembers(node[n], best[n], Clock(n), Written')
    BY <2>1, <2>4 DEF Sound, Remembers
  <2>6. Sound(node[n], best[n], Clock(n), Written')
    BY <2>1, <2>3, <2>5 DEF Sound
  <2>7. Sound(node[n], best[n], Clock(n), Written)'
    BY <2>6 DEF Sound, Remembers, Clock
  <2>8. NoLater(best[n], <<subject'.incarnation, subject'.sequence>>)
    <3>1. subject'.incarnation \in Nat /\ subject'.sequence \in Nat
          /\ subject.incarnation \in Nat /\ subject.sequence \in Nat
      BY DEF SubjectOK, Inv, Versioned
    <3> QED
      BY <2>1, <2>2, <3>1 DEF NoLater
  <2> QED
    BY <2>1, <2>7, <2>8 DEF NodeOK, ListsLatest
<1>2. Chronicle(Written)' /\ \A m \in net' : MessageOK(m)'
  BY DEF Chronicle, MessageOK, Clock
<1> QED
  BY <1>1, <1>2 DEF Inv, Versioned

(* Crash and Restart write nothing.                                          *)
LEMMA CrashStep ==
  ASSUME Inv, setup.kind = "v1", Crash \/ Restart
  PROVE  Inv'
<1>1. /\ UNCHANGED <<setup, node, best, now, net>>
      /\ \/ subject' = [subject EXCEPT !.up = FALSE]
         \/ /\ Clock(Subject) > subject.incarnation
            /\ subject' = [up |-> TRUE, starts |-> subject.starts + 1,
                           incarnation |-> Clock(Subject), sequence |-> 0, validUntil |-> 0]
  BY DEF Crash, Restart
<1>2. SubjectOK /\ Clock(Subject) \in Nat /\ Clock(Subject)' = Clock(Subject)
  BY <1>1, Clocks DEF Inv, Versioned, Clock
<1>3. SubjectOK'
  <2>1. CASE subject' = [subject EXCEPT !.up = FALSE]
    BY <1>2, <2>1 DEF SubjectOK
  <2>2. CASE /\ Clock(Subject) > subject.incarnation
             /\ subject' = [up |-> TRUE, starts |-> subject.starts + 1,
                            incarnation |-> Clock(Subject), sequence |-> 0, validUntil |-> 0]
    <3>1. Clock(Subject) \in Nat \ {0} /\ subject.starts + 1 \in Nat
      BY <1>2, <2>2 DEF SubjectOK
    <3> QED
      BY <1>2, <2>2, <3>1, Settings DEF SubjectOK
  <2> QED
    BY <1>1, <2>1, <2>2
<1>4. Lease' = {}
  BY <1>1, <1>2 DEF Lease, SubjectOK
<1>5. Written' \subseteq Written
  BY <1>1, <1>4 DEF Written
<1>6. Chronicle(Written') /\ Bounded(Written')
  BY <1>5, SubsetLemma DEF Inv, Versioned
<1>7. NoLater(<<subject.incarnation, subject.sequence>>,
              <<subject'.incarnation, subject'.sequence>>)
  BY <1>1, <1>2 DEF NoLater, SubjectOK
<1>8. Bounded(Written)'
  <2> SUFFICES ASSUME NEW r \in Written'
               PROVE  /\ NoLater(Version(r), <<subject'.incarnation, subject'.sequence>>)
                      /\ r.issuedAt <= Clock(Subject)
                      /\ r.incarnation = subject'.incarnation /\ r.state = "alive" =>
                           r.validUntil <= subject'.validUntil
    BY <1>2 DEF Bounded
  <2>1. r \in Genuine /\ r \in Written
    BY <1>5, WrittenLemma
  <2>2. /\ NoLater(Version(r), <<subject.incarnation, subject.sequence>>)
        /\ r.issuedAt <= Clock(Subject)
        /\ r.incarnation = subject.incarnation /\ r.state = "alive" =>
             r.validUntil <= subject.validUntil
    BY <2>1 DEF Inv, Versioned, Bounded
  <2>3. r.incarnation \in Nat /\ r.incarnation <= subject.incarnation /\ subject.incarnation \in Nat
        /\ r.sequence \in Nat
    BY <1>2, <2>1, <2>2, RecordTypes DEF NoLater, SubjectOK
  <2>4. CASE subject' = [subject EXCEPT !.up = FALSE]
    BY <1>2, <2>2, <2>4 DEF SubjectOK
  <2>5. CASE subject' # [subject EXCEPT !.up = FALSE]
    BY <1>1, <1>2, <2>1, <2>2, <2>3, <2>5, RecordTypes DEF NoLater
  <2> QED
    BY <2>4, <2>5
<1>9. \A m \in net' : MessageOK(m)
  BY <1>1, WrittenLemma
<1> QED
  BY <1>1, <1>3, <1>5, <1>6, <1>7, <1>8, <1>9, SubjectStep

(* What the subject says of itself arrives before it is forgotten.           *)
LEMMA SpeaksLemma ==
  ASSUME Inv, setup.kind = "v1", NEW r \in Genuine, NEW retired \in BOOLEAN,
         Speaks(r, retired),
         ~retired => r.state = "alive" /\ Clock(Subject) < r.validUntil
  PROVE  \A m \in net' : m \in net \/ (MessageOK(m) /\ m.record = r)
<1> SUFFICES ASSUME NEW m \in net', m \notin net PROVE MessageOK(m) /\ m.record = r
  OBVIOUS
<1>1. PICK k \in Linked(Subject) :
        m = [to |-> k, from |-> Subject, record |-> r, listed |-> ~retired, retired |-> FALSE]
  BY DEF Speaks, Send
<1>2. k \in Peers
  BY DEF Linked
<1>3. Clock(k) \in Nat /\ Clock(Subject) \in Nat /\ Clock(k) <= Clock(Subject) + ClockSkewMs
  BY <1>2, Clocks
<1>4. ~retired => Clock(k) < r.validUntil + TombstoneRetentionMs
  BY <1>3, RecordTypes, Settings
<1> QED
  BY <1>1, <1>2, <1>4, RecordTypes DEF MessageOK

(* The subject writes the next version of its record and sends it.           *)
LEMMA FreshStep ==
  ASSUME Inv, setup.kind = "v1", UNCHANGED <<setup, node, best, now>>, SubjectOK',
         NEW r \in Genuine, NEW retired \in BOOLEAN, Speaks(r, retired),
         ~retired => r.state = "alive" /\ Clock(Subject) < r.validUntil,
         Version(r) = <<subject.incarnation, subject.sequence + 1>>,
         r.issuedAt = Clock(Subject),
         r.state = "alive" => r.validUntil <= subject'.validUntil,
         subject'.incarnation = subject.incarnation,
         subject'.sequence = subject.sequence + 1,
         subject.validUntil <= subject'.validUntil,
         Lease' \subseteq {r}
  PROVE  Inv'
<1>1. \A m \in net' : m \in net \/ (MessageOK(m) /\ m.record = r)
  BY SpeaksLemma
<1>2. \A m \in net' : MessageOK(m)
  BY <1>1, WrittenLemma
<1>3. Written' \subseteq Written \cup {r}
  BY <1>1 DEF Written
<1>4. /\ subject.incarnation \in Nat /\ subject.sequence \in Nat /\ subject.validUntil \in Nat
      /\ subject'.validUntil \in Nat /\ Clock(Subject) \in Nat
  BY Clocks DEF SubjectOK, Inv, Versioned
<1>5. \A q \in Written : /\ Before(Version(q), Version(r))
                         /\ q.issuedAt <= r.issuedAt
                         /\ q.incarnation = subject.incarnation /\ q.state = "alive" =>
                              q.validUntil <= subject'.validUntil
  <2> SUFFICES ASSUME NEW q \in Written
               PROVE  /\ Before(Version(q), Version(r)) /\ q.issuedAt <= r.issuedAt
                      /\ q.incarnation = subject.incarnation /\ q.state = "alive" =>
                           q.validUntil <= subject'.validUntil
    OBVIOUS
  <2>1. q \in Genuine
    BY WrittenLemma
  <2>2. /\ NoLater(Version(q), <<subject.incarnation, subject.sequence>>)
        /\ q.issuedAt <= Clock(Subject)
        /\ q.incarnation = subject.incarnation /\ q.state = "alive" =>
             q.validUntil <= subject.validUntil
    BY DEF Inv, Versioned, Bounded
  <2>3. Before(Version(q), Version(r))
    BY <1>4, <2>1, <2>2, RecordTypes DEF NoLater, Before
  <2> QED
    BY <1>4, <2>1, <2>2, <2>3, RecordTypes
<1>6. Chronicle(Written')
  <2>1. Chronicle(Written \cup {r})
    <3>1. \A q \in Written : /\ Version(q) # Version(r) /\ ~Before(Version(r), Version(q))
      BY <1>5, WrittenLemma, RecordTypes, Trichotomy DEF Before
    <3>2. ~Before(Version(r), Version(r))
      BY RecordTypes DEF Before
    <3> QED
      BY <1>5, <3>1, <3>2, WrittenLemma DEF Chronicle
  <2> QED
    BY <1>3, <2>1, SubsetLemma
<1>7. Bounded(Written)'
  <2> SUFFICES ASSUME NEW q \in Written'
               PROVE  /\ NoLater(Version(q), <<subject'.incarnation, subject'.sequence>>)
                      /\ q.issuedAt <= Clock(Subject)
                      /\ q.incarnation = subject'.incarnation /\ q.state = "alive" =>
                           q.validUntil <= subject'.validUntil
    BY DEF Bounded, Clock
  <2>1. CASE q = r
    BY <1>4, <2>1 DEF NoLater
  <2>2. CASE q \in Written
    <3>1. q \in Genuine /\ Before(Version(q), Version(r)) /\ q.issuedAt <= r.issuedAt
      BY <1>5, <2>2, WrittenLemma
    <3>2. NoLater(Version(q), Version(r))
      BY <3>1, RecordTypes, Trichotomy
    <3> QED
      BY <1>5, <2>2, <3>1, <3>2
  <2> QED
    BY <1>3, <2>1, <2>2
<1>8. NoLater(<<subject.incarnation, subject.sequence>>,
              <<subject'.incarnation, subject'.sequence>>)
  BY <1>4 DEF NoLater
<1>9. \A q \in Written' : q \in Written \/ \A n \in Peers : Before(best[n], Version(q))
  <2>1. ASSUME NEW n \in Peers PROVE Before(best[n], Version(r))
    <3>1. best[n] \in Nat \X Nat /\ NoLater(best[n], <<subject.incarnation, subject.sequence>>)
      BY WrittenLemma DEF NodeOK, Sound
    <3> QED
      BY <1>4, <3>1 DEF NoLater, Before
  <2> QED
    BY <1>3, <2>1
<1> QED
  BY <1>2, <1>6, <1>7, <1>8, <1>9, SubjectStep

LEMMA AdvertiseStep ==
  ASSUME Inv, setup.kind = "v1", NEW force \in BOOLEAN, Advertise(force)
  PROVE  Inv'
<1>1. SubjectOK /\ Clock(Subject) \in Nat /\ Clock(Subject)' = Clock(Subject)
  BY Clocks DEF Inv, Versioned, Clock, Advertise
<1>2. UNCHANGED <<setup, node, best, now>> /\ subject.up
  BY DEF Advertise
<1>3. CASE KeepsLease(force)
  <2> DEFINE r == Alive(subject.incarnation, subject.sequence, subject.validUntil - LeaseMs)
  <2>1. subject' = [subject EXCEPT !.sequence = subject.sequence, !.validUntil = subject.validUntil]
        /\ Speaks(r, FALSE)
    BY <1>3 DEF Advertise
  <2>2. subject' = subject
    BY <1>1, <2>1 DEF SubjectOK
  <2>3. subject.sequence > 0 /\ Clock(Subject) < subject.validUntil
    BY <1>1, <1>3, Settings DEF KeepsLease, SubjectOK
  <2>4. r \in Lease
    BY <1>2, <2>3 DEF Lease
  <2>5. r \in Genuine /\ r.state = "alive" /\ r.validUntil = subject.validUntil
    BY <1>1, <1>2, <2>3, NoneAssumption, Settings DEF SubjectOK, Genuine, Records, Alive
  <2>6. r \in Written
    BY <2>4, <2>5, RecordTypes DEF Written
  <2> HIDE DEF r
  <2>7. \A m \in net' : m \in net \/ (MessageOK(m) /\ m.record = r)
    BY <2>1, <2>3, <2>5, SpeaksLemma
  <2>8. (\A m \in net' : MessageOK(m)) /\ Written' \subseteq Written
    <3>1. \A m \in net' : MessageOK(m) /\ m.record \in Written \cup {None}
      BY <2>6, <2>7, WrittenLemma
    <3>2. Lease' = Lease
      BY <2>2 DEF Lease
    <3> QED
      BY <1>2, <3>1, <3>2 DEF Written
  <2>9. Chronicle(Written') /\ Bounded(Written')
    BY <2>8, SubsetLemma DEF Inv, Versioned
  <2>10. Bounded(Written)' /\ SubjectOK'
    BY <1>1, <2>2, <2>9 DEF Bounded, SubjectOK
  <2>11. NoLater(<<subject.incarnation, subject.sequence>>,
                 <<subject'.incarnation, subject'.sequence>>)
    BY <1>1, <2>2 DEF NoLater, SubjectOK
  <2> QED
    BY <1>2, <2>8, <2>9, <2>10, <2>11, SubjectStep
<1>4. CASE ~KeepsLease(force)
  <2> DEFINE r == Alive(subject.incarnation, subject.sequence + 1, Clock(Subject))
  <2>1. /\ subject' = [subject EXCEPT !.sequence = subject.sequence + 1,
                                      !.validUntil = Clock(Subject) + LeaseMs]
        /\ Speaks(Alive(subject.incarnation, subject.sequence + 1,
                        (Clock(Subject) + LeaseMs) - LeaseMs), FALSE)
    BY <1>4 DEF Advertise, NextSequence
  <2>2. (Clock(Subject) + LeaseMs) - LeaseMs = Clock(Subject)
    BY <1>1, Settings
  <2>3. Speaks(r, FALSE)
    BY <2>1, <2>2
  <2>4. /\ subject'.up = subject.up /\ subject'.incarnation = subject.incarnation
        /\ subject'.sequence = subject.sequence + 1
        /\ subject'.validUntil = Clock(Subject) + LeaseMs
    BY <1>1, <2>1 DEF SubjectOK
  <2>5. SubjectOK'
    <3>1. subject.sequence + 1 \in Nat /\ Clock(Subject) + LeaseMs \in Nat
      BY <1>1, Settings DEF SubjectOK
    <3>2. subject' \in [up: BOOLEAN, starts: Nat, incarnation: Nat \ {0}, sequence: Nat,
                        validUntil: Nat]
      BY <1>1, <2>1, <3>1 DEF SubjectOK
    <3> QED
      BY <1>1, <2>4, <3>2, Settings DEF SubjectOK
  <2>6. /\ r \in Genuine /\ r.state = "alive" /\ r.validUntil = Clock(Subject) + LeaseMs
        /\ r.issuedAt = Clock(Subject)
        /\ Version(r) = <<subject.incarnation, subject.sequence + 1>>
    BY <1>1, Settings DEF SubjectOK, Genuine, Records, Alive, Version
  <2>7. Lease' \subseteq {r}
    BY <2>2, <2>4 DEF Lease
  <2>8. subject.validUntil <= subject'.validUntil /\ Clock(Subject) < r.validUntil
        /\ r.validUntil <= subject'.validUntil
    BY <1>1, <2>4, <2>6, Settings DEF SubjectOK
  <2> HIDE DEF r
  <2> QED
    BY <1>2, <2>3, <2>4, <2>5, <2>6, <2>7, <2>8, FreshStep
<1> QED
  BY <1>3, <1>4

LEMMA LeaveStep ==
  ASSUME Inv, setup.kind = "v1", Leave
  PROVE  Inv'
<1> DEFINE r == Left(subject.incarnation, subject.sequence + 1, Clock(Subject))
<1>1. SubjectOK /\ Clock(Subject) \in Nat /\ Clock(Subject)' = Clock(Subject)
  BY Clocks DEF Inv, Versioned, Clock, Leave
<1>2. /\ UNCHANGED <<setup, node, best, now>> /\ Speaks(r, TRUE)
      /\ subject' = [subject EXCEPT !.up = FALSE, !.sequence = subject.sequence + 1]
  BY DEF Leave
<1>3. /\ ~subject'.up /\ subject'.incarnation = subject.incarnation
      /\ subject'.sequence = subject.sequence + 1
      /\ subject'.validUntil = subject.validUntil
  BY <1>1, <1>2 DEF SubjectOK
<1>4. SubjectOK'
  <2>1. subject.sequence + 1 \in Nat
    BY <1>1 DEF SubjectOK
  <2> QED
    BY <1>1, <1>2, <1>3, <2>1 DEF SubjectOK
<1>5. /\ r \in Genuine /\ r.state = "left" /\ r.issuedAt = Clock(Subject)
      /\ Version(r) = <<subject.incarnation, subject.sequence + 1>>
  BY <1>1 DEF SubjectOK, Genuine, Records, Left, Version
<1>6. Lease' \subseteq {r}
  BY <1>3 DEF Lease
<1>7. subject.validUntil <= subject'.validUntil
  BY <1>1, <1>3 DEF SubjectOK
<1> HIDE DEF r
<1> QED
  BY <1>2, <1>3, <1>4, <1>5, <1>6, <1>7, FreshStep

(* Time passes: what was remembered or promised stays so.                    *)
LEMMA TickStep ==
  ASSUME Inv, setup.kind = "v1", Tick
  PROVE  Inv'
<1>1. /\ UNCHANGED <<setup, subject, node, best>> /\ now' = now + 1 /\ net' \subseteq net
      /\ \A m \in net : (m.record # None /\ m.record.state = "alive") =>
                          ~Forgotten(m.record, Clock(m.to) + 1)
  BY DEF Tick
<1>2. \A n \in Peers \cup {Subject} : Clock(n) \in Nat /\ Clock(n)' = Clock(n) + 1
  <2>1. now \in Nat /\ \A n \in Peers \cup {Subject} : setup.ahead[n] \in Nat
    BY BoundAssumption DEF Inv
  <2> QED
    BY <1>1, <2>1 DEF Clock
<1>3. SubjectOK'
  <2>1. Clock(Subject) \in Nat /\ Clock(Subject)' = Clock(Subject) + 1
    BY <1>2
  <2> QED
    BY <1>1, <2>1, Settings DEF Inv, Versioned, SubjectOK
<1>4. Lease' = Lease
  BY <1>1 DEF Lease
<1>5. Written' \subseteq Written
  BY <1>1, <1>4 DEF Written
<1>6. Chronicle(Written') /\ Bounded(Written')
  BY <1>5, SubsetLemma DEF Inv, Versioned
<1>7. Bounded(Written)'
  <2> SUFFICES ASSUME NEW r \in Written' PROVE r.issuedAt <= Clock(Subject)'
    BY <1>1, <1>6 DEF Bounded
  <2>1. r \in Genuine /\ r.issuedAt <= Clock(Subject)
    BY <1>5, <1>6, WrittenLemma DEF Bounded
  <2> QED
    BY <1>2, <2>1, RecordTypes
<1>8. ASSUME NEW m \in net' PROVE MessageOK(m)'
  <2>1. MessageOK(m) /\ m.to \in Peers
    BY <1>1, WrittenLemma DEF MessageOK
  <2>2. m.listed => Clock(m.to) + 1 < m.record.validUntil + TombstoneRetentionMs
    <3> SUFFICES ASSUME m.listed
                 PROVE  Clock(m.to) + 1 < m.record.validUntil + TombstoneRetentionMs
      OBVIOUS
    <3>1. m.record \in Genuine /\ m.record # None /\ m.record.state = "alive"
      BY <2>1, RecordTypes DEF MessageOK
    <3>2. ~(m.record.validUntil + TombstoneRetentionMs <= Clock(m.to) + 1)
      BY <1>1, <3>1 DEF Forgotten
    <3> QED
      BY <1>2, <2>1, <3>1, <3>2, RecordTypes, Settings
  <2>3. Clock(m.to)' = Clock(m.to) + 1
    BY <1>2, <2>1
  <2> QED
    BY <2>1, <2>2, <2>3 DEF MessageOK
<1>9. ASSUME NEW n \in Peers PROVE NodeOK(n)'
  <2>1. /\ Sound(node[n], best[n], Clock(n), Written) /\ ListsLatest(node[n], best[n])
        /\ NoLater(best[n], <<subject.incarnation, subject.sequence>>)
    BY WrittenLemma DEF NodeOK
  <2>2. Remembers(node[n], best[n], Clock(n) + 1, Written')
    <3>1. CASE node[n].record # None /\ Version(node[n].record) = best[n]
      BY <3>1 DEF Remembers
    <3>2. CASE ~(node[n].record # None /\ Version(node[n].record) = best[n])
      <4> SUFFICES ASSUME NEW r \in Written', r.state = "alive", NoLater(Version(r), best[n])
                   PROVE  r.validUntil <= Clock(n) + 1
        BY DEF Remembers
      <4>1. r.validUntil <= Clock(n) /\ r \in Genuine
        BY <1>5, <2>1, <3>2, WrittenLemma DEF Sound, Remembers
      <4> QED
        BY <1>2, <4>1, RecordTypes
    <3> QED
      BY <3>1, <3>2
  <2>3. node[n].record # None => node[n].record \in Written'
    BY <1>1 DEF Written
  <2>4. Sound(node[n], best[n], Clock(n) + 1, Written')
    BY <2>1, <2>2, <2>3 DEF Sound
  <2>5. Sound(node'[n], best'[n], Clock(n)', Written')
    BY <1>1, <1>2, <2>4
  <2>6. Sound(node[n], best[n], Clock(n), Written)'
    BY <2>5 DEF Sound, Remembers
  <2> QED
    BY <1>1, <2>1, <2>6 DEF NodeOK, ListsLatest, NoLater
<1>10. Chronicle(Written)' /\ now' \in Nat
  BY <1>1, <1>6 DEF Chronicle, Inv
<1> QED
  BY <1>1, <1>3, <1>7, <1>8, <1>9, <1>10 DEF Inv, Versioned

LEMMA SetupStays == [Next]_vars => setup' = setup /\ now' \in {now, now + 1}
<1>1. ASSUME NEW force \in BOOLEAN, Advertise(force) PROVE UNCHANGED <<setup, now>>
  BY <1>1 DEF Advertise
<1>2. Leave \/ Crash \/ Restart => UNCHANGED <<setup, now>>
  BY DEF Leave, Crash, Restart
<1>3. ASSUME NEW n \in Peers, Broadcast(n) \/ Read(n) PROVE UNCHANGED <<setup, now>>
  BY <1>3 DEF Broadcast, Read
<1>4. ASSUME NEW m \in net, Receive(m) PROVE UNCHANGED <<setup, now>>
  BY <1>4 DEF Receive
<1>5. ASSUME NEW m \in net, Lose(m) PROVE UNCHANGED <<setup, now>>
  BY <1>5 DEF Lose
<1>6. Tick => setup' = setup /\ now' = now + 1
  BY DEF Tick
<1> QED
  BY <1>1, <1>2, <1>3, <1>4, <1>5, <1>6 DEF Next, vars

LEMMA NextStep == Inv /\ [Next]_vars => Inv'
<1> SUFFICES ASSUME Inv, [Next]_vars PROVE Inv'
  OBVIOUS
<1>1. setup' = setup /\ now' \in {now, now + 1}
  BY SetupStays
<1>2. CASE setup.kind # "v1"
  BY <1>1, <1>2 DEF Inv
<1>3. CASE setup.kind = "v1"
  <2>1. ASSUME NEW force \in BOOLEAN, Advertise(force) PROVE Inv'
    BY <1>3, <2>1, AdvertiseStep
  <2>2. CASE Leave
    BY <1>3, <2>2, LeaveStep
  <2>3. CASE Crash \/ Restart
    BY <1>3, <2>3, CrashStep
  <2>4. ASSUME NEW n \in Peers, Broadcast(n) \/ Read(n) PROVE Inv'
    BY <1>3, <2>4, ReadStep
  <2>5. ASSUME NEW m \in net, Receive(m) PROVE Inv'
    BY <1>3, <2>5, ReceiveStep
  <2>6. ASSUME NEW m \in net, Lose(m) PROVE Inv'
    BY <1>3, <2>6, LoseStep
  <2>7. CASE Tick
    BY <1>3, <2>7, TickStep
  <2>8. CASE UNCHANGED vars
    BY <2>8 DEF vars, Inv, Versioned, NodeOK, Sound, ListsLatest, MessageOK, SubjectOK,
       Chronicle, Bounded, Written, Lease, Clock, Remembers
  <2> QED
    BY <2>1, <2>2, <2>3, <2>4, <2>5, <2>6, <2>7, <2>8 DEF Next
<1> QED
  BY <1>2, <1>3

(* The strengthening that the properties below need.                         *)
THEOREM Invariance == Spec => []Inv
BY InitInv, NextStep, PTL DEF Spec

-----------------------------------------------------------------------------
(* A subject that renews, crashes, restarts and leaves with versioned        *)
(* records is never taken for an equivocator: it never writes one version    *)
(* twice, and a peer never changes what it passes on.                        *)
THEOREM NeverQuarantined == Spec => []NoFalseEquivocation
<1>1. Inv => NoFalseEquivocation
  <2> SUFFICES ASSUME Inv, NEW n \in Peers, node[n].quarantinedAt # None, setup.kind # "legacy"
               PROVE  FALSE
    BY DEF NoFalseEquivocation
  <2>1. setup.kind = "v1"
    BY BoundAssumption DEF Inv
  <2> QED
    BY <2>1, WrittenLemma DEF NodeOK, Sound
<1> QED
  BY <1>1, Invariance, PTL

(* No peer believes a subject with versioned records longer than one lease   *)
(* after the subject wrote it, whoever forwards the record.                  *)
THEOREM LeaseIsKept == Spec => []ForwardingKeepsTheLease
<1>1. Inv => ForwardingKeepsTheLease
  <2> SUFFICES ASSUME Inv, setup.kind = "v1", NEW n \in Peers, node[n].listed
               PROVE  /\ node[n].record.incarnation > 0
                      /\ node[n].record.incarnation = subject.incarnation =>
                           /\ node[n].record.validUntil <= subject.validUntil
                           /\ node[n].record.sequence <= subject.sequence
    BY DEF ForwardingKeepsTheLease
  <2> DEFINE r == node[n].record
  <2>1. r \in Written /\ r \in Genuine /\ r.state = "alive"
    BY WrittenLemma, RecordTypes DEF NodeOK, Sound, ListsLatest
  <2>2. /\ NoLater(Version(r), <<subject.incarnation, subject.sequence>>)
        /\ r.incarnation = subject.incarnation => r.validUntil <= subject.validUntil
    BY <2>1 DEF Inv, Versioned, Bounded
  <2>3. subject.incarnation \in Nat /\ subject.sequence \in Nat
    BY DEF Inv, Versioned, SubjectOK
  <2> HIDE DEF r
  <2>4. r.incarnation = subject.incarnation => r.sequence <= subject.sequence
    BY <2>1, <2>2, <2>3, RecordTypes DEF NoLater
  <2>5. r.incarnation > 0
    BY <2>1, RecordTypes
  <2> QED
    BY <2>2, <2>1, <2>4, <2>5 DEF r
<1> QED
  BY <1>1, Invariance, PTL

(* A subject with versioned records is listed under the newest version that  *)
(* the peer ever accepted: a forgotten record never returns with an older    *)
(* lease.                                                                    *)
THEOREM NothingReturns == Spec => [](setup.kind = "v1" => ListsTheLatest)
<1>1. Inv => (setup.kind = "v1" => ListsTheLatest)
  BY WrittenLemma DEF NodeOK, ListsLatest, ListsTheLatest
<1> QED
  BY <1>1, Invariance, PTL

-----------------------------------------------------------------------------
(* What the application is told                                              *)

Fresh(h, t) == h.record # None /\ h.record.state = "alive" /\ h.record.validUntil > t

(* What could be listed is listed already, so that no later pruning, which   *)
(* may go unannounced (Read), lists it: whatever is listed was announced.    *)
Announced ==
  setup.kind = "v1" =>
    /\ told \in [Peers -> BOOLEAN]
    /\ \A n \in Peers : /\ Fresh(node[n], Clock(n)) => node[n].listed
                        /\ node[n].listed => told[n]

Holding == [record: Genuine \cup {None}, quarantinedAt: {None}, listed: BOOLEAN]

LEMMA RebuiltFresh ==
  ASSUME NEW g, NEW t, Rebuilt(g, t) \in Holding, Fresh(Rebuilt(g, t), t)
  PROVE  Rebuilt(g, t).listed
<1> DEFINE l == /\ g.record # None
                /\ g.record.state = "alive"
                /\ g.record.validUntil > t
                /\ g.quarantinedAt = None
           k == Rebuilt(g, t)
<1>1. k = [g EXCEPT !.listed = l]
  BY DEF Rebuilt
<1>2. k = [x \in DOMAIN g |-> IF x = "listed" THEN l ELSE g[x]]
  BY <1>1
<1>3. DOMAIN g = {"record", "quarantinedAt", "listed"}
  BY <1>2 DEF Holding
<1>4. k.record = g.record /\ k.quarantinedAt = g.quarantinedAt /\ k.listed = l
  BY <1>2, <1>3
<1> QED
  BY <1>4 DEF Fresh, Holding

(* Whatever a peer does to its table, it rebuilds the list last.             *)
LEMMA RebuiltStep ==
  ASSUME Inv', setup' = setup, now' = now, setup.kind = "v1", Announced, Inv,
         NEW n \in Peers, NEW h, node' = [node EXCEPT ![n] = h],
         \E g : h \in {Rebuilt(g, Clock(n)), Pruned(g, Clock(n))},
         \/ told' = [told EXCEPT ![n] = h.listed]
         \/ told' = told /\ (h.listed => node[n].listed)
  PROVE  Announced'
<1>1. node'[n] = h /\ \A k \in Peers \ {n} : node'[k] = node[k]
  BY DEF Inv, Versioned
<1>2. PICK g : h = Rebuilt(g, Clock(n))
  BY DEF Pruned
<1>3. h \in Holding
  BY <1>1 DEF Inv, Versioned, NodeOK, Sound, Holding
<1>4. Fresh(h, Clock(n)) => h.listed
  BY <1>2, <1>3, RebuiltFresh
<1>5. h.listed \in BOOLEAN /\ told' \in [Peers -> BOOLEAN]
  BY <1>3 DEF Announced, Holding
<1>6. h.listed => told'[n]
  BY DEF Announced
<1>7. \A k \in Peers \ {n} : told'[k] = told[k]
  BY DEF Announced
<1>8. \A k \in Peers : Clock(k)' = Clock(k)
  BY DEF Clock
<1>9. ASSUME NEW k \in Peers
      PROVE  /\ Fresh(node'[k], Clock(k)) => node'[k].listed
             /\ node'[k].listed => told'[k]
  <2>1. CASE k = n
    BY <2>1, <1>1, <1>4, <1>6
  <2>2. CASE k # n
    BY <2>2, <1>1, <1>7 DEF Announced
  <2> QED
    BY <2>1, <2>2
<1> QED
  BY <1>5, <1>8, <1>9 DEF Announced, Fresh

LEMMA ReceiveAnnounces ==
  ASSUME Inv, Inv', Announced, setup.kind = "v1", NEW m \in net, Receive(m)
  PROVE  Announced'
<1> DEFINE n == m.to
           t == Clock(n)
           others == Linked(n) \ {m.from}
<1>1. n \in Peers
  BY WrittenLemma DEF MessageOK
<1>2. PICK h1 \in {Merged(m.record, node[n], t)} :
      \E h2 \in {Merged(OwnRetirement(m, h1, t), h1, t)} :
      \E h3 \in {Merged(CompatibilityLease(m, h2, t), h2, t)} :
        LET h4 == Rebuilt(h3, t)
            after == IF others = {} THEN h4 ELSE Pruned(h4, t)
        IN  \/ node' = [node EXCEPT ![n] = after] /\ Emit(n, after.listed)
            \/ node' = [node EXCEPT ![n] = h4] /\ told' = told /\ h4.listed = node[n].listed
  BY DEF Receive
<1>3. PICK h3 :
        LET h4 == Rebuilt(h3, t)
            after == IF others = {} THEN h4 ELSE Pruned(h4, t)
        IN  \/ node' = [node EXCEPT ![n] = after] /\ Emit(n, after.listed)
            \/ node' = [node EXCEPT ![n] = h4] /\ told' = told /\ h4.listed = node[n].listed
  BY <1>2
<1>4. \E h : /\ node' = [node EXCEPT ![n] = h]
             /\ \E g : h \in {Rebuilt(g, t), Pruned(g, t)}
             /\ \/ told' = [told EXCEPT ![n] = h.listed]
                \/ told' = told /\ (h.listed => node[n].listed)
  BY <1>3 DEF Emit
<1>5. UNCHANGED <<setup, now>>
  BY DEF Receive
<1> HIDE DEF n
<1> QED
  BY <1>1, <1>4, <1>5, RebuiltStep DEF n

LEMMA ReadAnnounces ==
  ASSUME Inv, Inv', Announced, setup.kind = "v1", NEW n \in Peers, Broadcast(n) \/ Read(n)
  PROVE  Announced'
<1> DEFINE h == Pruned(node[n], Clock(n))
<1>1. node' = [node EXCEPT ![n] = h] /\ UNCHANGED <<setup, now>>
  BY DEF Broadcast, Read
<1>2. /\ h \in Holding /\ h.record \in {node[n].record, None}
      /\ h.listed => Fresh(h, Clock(n))
  BY WrittenLemma, PrunedLemma, Clocks DEF NodeOK, Sound, Holding, Fresh
<1>3. h.listed => node[n].listed
  BY <1>2 DEF Announced, Fresh
<1>4. told' = [told EXCEPT ![n] = h.listed] \/ told' = told
  BY DEF Broadcast, Read, Emit
<1>5. \E g : h \in {Rebuilt(g, Clock(n)), Pruned(g, Clock(n))}
  OBVIOUS
<1> HIDE DEF h
<1> QED
  BY <1>1, <1>3, <1>4, <1>5, RebuiltStep

LEMMA TickAnnounces ==
  ASSUME Inv, Announced, setup.kind = "v1", Tick
  PROVE  Announced'
<1>1. UNCHANGED <<setup, node, told>>
  BY DEF Tick
<1>2. \A n \in Peers : Clock(n) \in Nat /\ Clock(n)' = Clock(n) + 1
  <2>1. now \in Nat /\ \A n \in Peers : setup.ahead[n] \in Nat
    BY BoundAssumption DEF Inv
  <2> QED
    BY <2>1 DEF Clock, Tick
<1>3. ASSUME NEW n \in Peers, Fresh(node[n], Clock(n) + 1) PROVE Fresh(node[n], Clock(n))
  BY <1>2, <1>3, WrittenLemma, RecordTypes DEF Fresh
<1> QED
  BY <1>1, <1>2, <1>3 DEF Announced, Fresh

LEMMA NextAnnounces == Inv /\ Announced /\ [Next]_vars /\ Inv' => Announced'
<1> SUFFICES ASSUME Inv, Announced, [Next]_vars, Inv' PROVE Announced'
  OBVIOUS
<1>1. ASSUME UNCHANGED <<setup, node, told, now>> PROVE Announced'
  BY <1>1 DEF Announced, Clock, Fresh
<1>2. CASE setup.kind # "v1"
  BY <1>2, SetupStays DEF Announced
<1>3. ASSUME NEW force \in BOOLEAN, Advertise(force) PROVE Announced'
  BY <1>1, <1>3 DEF Advertise
<1>4. CASE Leave \/ Crash \/ Restart
  BY <1>1, <1>4 DEF Leave, Crash, Restart
<1>5. ASSUME NEW m \in net, Lose(m) PROVE Announced'
  BY <1>1, <1>5 DEF Lose
<1>6. CASE UNCHANGED vars
  BY <1>1, <1>6 DEF vars
<1>7. CASE setup.kind = "v1"
  <2>1. ASSUME NEW n \in Peers, Broadcast(n) \/ Read(n) PROVE Announced'
    BY <1>7, <2>1, ReadAnnounces
  <2>2. ASSUME NEW m \in net, Receive(m) PROVE Announced'
    BY <1>7, <2>2, ReceiveAnnounces
  <2>3. CASE Tick
    BY <1>7, <2>3, TickAnnounces
  <2> QED
    BY <1>3, <1>4, <1>5, <1>6, <2>1, <2>2, <2>3 DEF Next
<1> QED
  BY <1>2, <1>7

(* The application is told of every subject with versioned records that a    *)
(* peer lists: nothing that was not announced gets listed by a pruning that  *)
(* tells nobody.                                                             *)
THEOREM ListedIsTold == Spec => []ToldOfTheListed
<1>1. Init => Announced
  BY DEF Init, Announced, Fresh
<1>2. Inv /\ Announced /\ [Next]_vars /\ Inv' => Announced'
  BY NextAnnounces
<1>3. Announced => ToldOfTheListed
  BY DEF Announced, ToldOfTheListed
<1> QED
  BY <1>1, <1>2, <1>3, Invariance, PTL DEF Spec

=============================================================================
