---------------------- MODULE DeliveryReceipts_proofs ----------------------
(***************************************************************************)
(* A receipt never names a peer that the payload has not reached, for any  *)
(* peers, overlays, memberships, fan-outs and repair owners.               *)
(***************************************************************************)
EXTENDS DeliveryReceipts, FiniteSetTheorems, SequenceTheorems,
        WellFoundedInduction, TLAPS

(* The bits that may be set of a broadcast to the peers of a when the        *)
(* payload has reached the peers of h.                                       *)
Truth(a, h) == {Index(a, q) : q \in h \cap a}

(* What may be stored then.                                                  *)
Stored(a, h) ==
  [bits: SUBSET Truth(a, h), ids: {{}, a}, kept: SUBSET Peers,
   timedOut: BOOLEAN, completed: BOOLEAN, tries: [Peers -> Nat]]

TrueState(a, h, s, p) == s # None => s \in Stored(a, h) /\ (s.kept # {} => p \in h)

TruePacket(a, h, m) == m.to \in Peers /\ m.bits \subseteq Truth(a, h)

Overlay ==
  /\ conn \in [Peers -> SUBSET Peers]
  /\ view \in [Peers -> SUBSET Peers]
  /\ \A p \in Peers : p \in view[p]

Inv ==
  /\ Overlay
  /\ st = [p \in Peers |-> st[p]]
  /\ \A p \in Peers : TrueState(audience, held, st[p], p)
  /\ \A m \in net : TruePacket(audience, held, m)
  /\ audience \subseteq Peers
  /\ audience = {} => net = {} /\ held = {} /\ dirty = {} /\ \A p \in Peers : st[p] = None

-----------------------------------------------------------------------------
(* What a handler makes of a state                                           *)

LEMMA TruthGrows ==
  ASSUME NEW a, NEW h, NEW k, h \subseteq k
  PROVE  /\ Truth(a, h) \subseteq Truth(a, k)
         /\ Stored(a, h) \subseteq Stored(a, k)
<1>1. Truth(a, h) \subseteq Truth(a, k)
  BY DEF Truth
<1> QED
  BY <1>1 DEF Stored

LEMMA StoredIsSome ==
  ASSUME NEW a, a \subseteq Peers, NEW h, NEW s \in Stored(a, h)
  PROVE  s # None
<1>1. ASSUME NEW q \in a
      PROVE  Index(a, q) \in Nat
  <2>1. {r \in a : r < q} \subseteq Peers /\ IsFiniteSet(Peers)
    BY Assumption
  <2> QED
    BY <2>1, FS_Subset, FS_CardinalityType DEF Index
<1>2. Truth(a, h) \subseteq Nat
  BY <1>1 DEF Truth
<1> QED
  BY <1>2, Assumption DEF Stored

(* Nothing but true bits is known, in terms of the broadcast's membership.   *)
LEMMA KnownLemma ==
  ASSUME Inv, NEW p \in Peers
  PROVE  /\ Known(p) \in Stored(audience, held)
         /\ Known(p).kept # {} => p \in held
         /\ Ids(p) \in {{}, audience}
<1>1. Blank \in Stored(audience, held) /\ Blank.kept = {}
  BY DEF Blank, Stored
<1>2. Known(p) \in Stored(audience, held) /\ (Known(p).kept # {} => p \in held)
  BY <1>1 DEF Known, Inv, TrueState
<1> QED
  BY <1>2 DEF Ids, Reconstruct, Stored

LEMMA OwnLemma ==
  ASSUME NEW a, NEW h, NEW p \in h, NEW ids \in {{}, a}
  PROVE  Own(ids, p) \subseteq Truth(a, h)
BY DEF Own, Truth

LEMMA WithCopyLemma ==
  ASSUME Inv, NEW p \in Peers, NEW bits, bits \subseteq Truth(audience, held)
  PROVE  WithCopy(p, bits) \in Stored(audience, held \cup {p})
<1> DEFINE h == held \cup {p}
           all == Known(p).bits \cup bits \cup Own(Ids(p), p)
           kept == IF Known(p).kept = {} THEN view[p] ELSE Known(p).kept
<1>1. Known(p) \in Stored(audience, h) /\ Ids(p) \in {{}, audience} /\ view[p] \subseteq Peers
  BY KnownLemma, TruthGrows DEF Inv, Overlay
<1>2. bits \subseteq Truth(audience, h) /\ Own(Ids(p), p) \subseteq Truth(audience, h)
  BY <1>1, OwnLemma, TruthGrows
<1>3. all \in SUBSET Truth(audience, h) /\ kept \in SUBSET Peers
  BY <1>1, <1>2 DEF Stored
<1>4. WithCopy(p, bits) = [Known(p) EXCEPT !.bits = all, !.ids = Ids(p), !.kept = kept]
  BY DEF WithCopy
<1> HIDE DEF h, all, kept
<1>5. WithCopy(p, bits) \in Stored(audience, h)
  BY <1>1, <1>3, <1>4 DEF Stored
<1> QED
  BY <1>5 DEF h

LEMMA WithReceiptLemma ==
  ASSUME Inv, NEW p \in Peers, NEW bits, bits \subseteq Truth(audience, held)
  PROVE  /\ WithReceipt(p, bits) \in Stored(audience, held)
         /\ WithReceipt(p, bits).kept # {} => p \in held
<1> DEFINE all == Known(p).bits \cup bits
<1>1. /\ Known(p) \in Stored(audience, held) /\ Ids(p) \in {{}, audience}
      /\ Known(p).kept # {} => p \in held
  BY KnownLemma
<1>2. all \in SUBSET Truth(audience, held)
  BY <1>1 DEF Stored
<1>3. WithReceipt(p, bits) = [Known(p) EXCEPT !.bits = all, !.ids = Ids(p)]
  BY DEF WithReceipt
<1> HIDE DEF all
<1> QED
  BY <1>1, <1>2, <1>3 DEF Stored

LEMMA AssertedLemma ==
  ASSUME Inv, NEW p \in Peers, st[p] # None
  PROVE  /\ Asserted(p) \in Stored(audience, held)
         /\ Asserted(p).kept # {} => p \in held
<1> DEFINE own == IF st[p].kept = {} THEN {} ELSE Own(Ids(p), p)
<1>1. /\ Known(p) \in Stored(audience, held) /\ Ids(p) \in {{}, audience}
      /\ Known(p).kept # {} => p \in held
  BY KnownLemma
<1>2. own \subseteq Truth(audience, held)
  BY <1>1, OwnLemma DEF Known
<1> HIDE DEF own
<1> QED
  BY <1>1, <1>2 DEF Asserted, Stored, own

LEMMA AnnouncedLemma ==
  ASSUME NEW a, NEW h, NEW p, NEW s \in Stored(a, h)
  PROVE  Announced(p, s) \in Stored(a, h) /\ Announced(p, s).kept = s.kept
<1>1. Announces(p, s) \in BOOLEAN
  BY DEF Announces
<1> QED
  BY <1>1 DEF Announced, Stored

LEMMA TriedLemma ==
  ASSUME NEW a, NEW h, NEW s \in Stored(a, h), NEW due
  PROVE  Tried(s, due) \in Stored(a, h) /\ Tried(s, due).kept = s.kept
<1>1. [t \in Peers |-> IF t \in due THEN s.tries[t] + 1 ELSE s.tries[t]] \in [Peers -> Nat]
  BY DEF Stored
<1> QED
  BY <1>1 DEF Tried, Stored

(* What Stores leaves in the place of p.                                     *)
LEMMA StoresLemma ==
  ASSUME NEW a, NEW h, NEW p, NEW s \in Stored(a, h), NEW due
  PROVE  \A r \in {Tried(Announced(p, s), due), Tried(s, due)} : r \in Stored(a, h) /\ r.kept = s.kept
<1>1. Announced(p, s) \in Stored(a, h) /\ Announced(p, s).kept = s.kept
  BY AnnouncedLemma
<1>2. Tried(Announced(p, s), due) \in Stored(a, h) /\ Tried(Announced(p, s), due).kept = s.kept
  BY <1>1, TriedLemma
<1>3. Tried(s, due) \in Stored(a, h) /\ Tried(s, due).kept = s.kept
  BY TriedLemma
<1> QED
  BY <1>2, <1>3

LEMMA StoredLemma ==
  ASSUME NEW a, NEW h, NEW p, NEW s \in Stored(a, h), NEW due, NEW old, NEW new,
         \/ new = [old EXCEPT ![p] = Tried(Announced(p, s), due)]
         \/ new = [old EXCEPT ![p] = Tried(s, due)]
  PROVE  \E r \in Stored(a, h) : r.kept = s.kept /\ new = [old EXCEPT ![p] = r]
<1>1. CASE new = [old EXCEPT ![p] = Tried(Announced(p, s), due)]
  <2>1. Tried(Announced(p, s), due) \in Stored(a, h)
    BY StoresLemma
  <2> WITNESS Tried(Announced(p, s), due) \in Stored(a, h)
  <2> QED
    BY <1>1, StoresLemma
<1>2. CASE new = [old EXCEPT ![p] = Tried(s, due)]
  <2>1. Tried(s, due) \in Stored(a, h)
    BY StoresLemma
  <2> WITNESS Tried(s, due) \in Stored(a, h)
  <2> QED
    BY <1>2, StoresLemma
<1> QED
  BY <1>1, <1>2

LEMMA PutLemma ==
  ASSUME NEW a, NEW h, NEW packets, \A m \in packets : TruePacket(a, h, m),
         NEW kind, NEW p, NEW T, T \subseteq Peers, NEW bits, bits \subseteq Truth(a, h)
  PROVE  \A m \in Put(packets, kind, p, T, bits) : TruePacket(a, h, m)
BY DEF Put, TruePacket

LEMMA FanOutsLemma ==
  ASSUME Inv, NEW p \in Peers, NEW excluded, NEW T \in FanOuts(p, excluded)
  PROVE  T \subseteq Peers
BY DEF FanOuts, Inv, Overlay

LEMMA DueLemma ==
  ASSUME Inv, NEW p \in Peers, NEW s
  PROVE  Due(p, s) \subseteq Peers
BY DEF Due, Inv, Overlay

LEMMA RepairedLemma ==
  ASSUME NEW a, NEW h, NEW packets, \A m \in packets : TruePacket(a, h, m),
         NEW p, NEW due, due \subseteq Peers, NEW bits, bits \subseteq Truth(a, h)
  PROVE  \A m \in Repaired(packets, p, due, bits) : TruePacket(a, h, m)
<1>1. {t \in due : conn[p] # {} /\ conn[t] # {}} \subseteq Peers
  OBVIOUS
<1> QED
  BY <1>1, PutLemma DEF Repaired

-----------------------------------------------------------------------------
(* Every step keeps the invariant                                            *)

LEMMA InitInv == Init => Inv
<1> SUFFICES ASSUME Init PROVE Inv
  OBVIOUS
<1>1. setup.members \subseteq Peers
  BY Assumption DEF Init
<1> QED
  BY <1>1 DEF Init, Inv, Overlay, TrueState

(* A step that stores r for p, or only handles packets.                      *)
LEMMA StoreStep ==
  ASSUME Inv, NEW p \in Peers, NEW r, TrueState(audience', held', r, p),
         st' = [st EXCEPT ![p] = r],
         audience' \subseteq Peers, audience' # {}, audience = {} \/ audience' = audience,
         held \subseteq held', UNCHANGED <<view, conn>>,
         \A m \in net' : TruePacket(audience', held', m)
  PROVE  Inv'
<1>1. ASSUME NEW q \in Peers
      PROVE  TrueState(audience', held', st'[q], q)
  <2>1. CASE q = p
    BY <2>1 DEF Inv
  <2>2. CASE q # p
    <3>1. st'[q] = st[q]
      BY <2>2 DEF Inv
    <3>2. TrueState(audience, held, st[q], q)
      BY DEF Inv
    <3>3. CASE audience = {}
      BY <3>1, <3>3 DEF Inv, TrueState
    <3>4. CASE audience' = audience
      BY <3>1, <3>2, <3>4, TruthGrows DEF TrueState
    <3> QED
      BY <3>3, <3>4
  <2> QED
    BY <2>1, <2>2
<1>2. st' = [q \in Peers |-> st'[q]]
  BY DEF Inv
<1> QED
  BY <1>1, <1>2 DEF Inv, Overlay

LEMMA BroadcastStep ==
  ASSUME Inv, Broadcast
  PROVE  Inv'
<1> DEFINE own == {Index(view[Sender], Sender)}
           s == [Blank EXCEPT !.bits = own, !.ids = view[Sender], !.kept = view[Sender]]
           due == Due(Sender, s)
           first(T) == Put({}, "copy", Sender, T, s.bits)
<1>1. PICK T \in FanOuts(Sender, {Sender}) : net' = Repaired(first(T), Sender, due, s.bits)
  BY DEF Broadcast
<1>2. /\ audience = {} /\ audience' = view[Sender] /\ held' = {Sender}
      /\ UNCHANGED <<view, conn>> /\ Stores(Sender, s, due)
      /\ Sender \in Peers /\ Sender \in view[Sender] /\ view[Sender] \subseteq Peers
  BY Assumption DEF Broadcast, Inv, Overlay
<1>3. own \subseteq Truth(audience', held')
  BY <1>2 DEF Truth
<1>4. s \in Stored(audience', held') /\ s.bits = own
  BY <1>2, <1>3 DEF Stored, Blank
<1> HIDE DEF own, s
<1>5. T \subseteq Peers /\ due \subseteq Peers
  BY <1>2, FanOutsLemma, DueLemma
<1>6. \A m \in first(T) : TruePacket(audience', held', m)
  BY <1>3, <1>4, <1>5, PutLemma
<1> HIDE DEF first
<1>7. \A m \in net' : TruePacket(audience', held', m)
  BY <1>1, <1>3, <1>4, <1>5, <1>6, RepairedLemma
<1>8. PICK r \in Stored(audience', held') : r.kept = s.kept /\ st' = [st EXCEPT ![Sender] = r]
  <2>1. \/ st' = [st EXCEPT ![Sender] = Tried(Announced(Sender, s), due)]
        \/ st' = [st EXCEPT ![Sender] = Tried(s, due)]
    BY <1>2 DEF Stores
  <2> HIDE DEF due
  <2> QED
    BY <1>4, <2>1, StoredLemma
<1>9. TrueState(audience', held', r, Sender) /\ held = {}
  BY <1>2 DEF TrueState, Inv
<1> QED
  BY <1>2, <1>7, <1>8, <1>9, StoreStep

LEMMA ReceiveCopyStep ==
  ASSUME Inv, NEW m \in net, ReceiveCopy(m)
  PROVE  Inv'
<1> DEFINE p == m.to
           s == WithCopy(p, m.bits)
           fresh == p \notin held
           due == IF fresh THEN Due(p, s) ELSE {}
           rest == net \ {m}
           second(T) == Put(rest, "copy", p, IF fresh THEN T ELSE {}, s.bits)
<1>1. p \in Peers /\ m.bits \subseteq Truth(audience, held) /\ audience # {}
  BY DEF Inv, TruePacket
<1>2. UNCHANGED <<audience, view, conn>> /\ audience' \subseteq Peers
  BY DEF ReceiveCopy, Inv
<1>3. \A n \in rest : TruePacket(audience, held, n)
  BY DEF Inv
<1>4. CASE p \in late
  <2>1. net' = rest /\ UNCHANGED <<st, held>>
    BY <1>4 DEF ReceiveCopy
  <2> HIDE DEF p, s, rest
  <2> QED
    BY <1>1, <1>2, <1>3, <2>1 DEF Inv, Overlay
<1>5. CASE p \notin late
  <2>1. Stores(p, s, due) /\ held' = held \cup {p}
    BY <1>5 DEF ReceiveCopy
  <2>2. PICK via : \E T \in FanOuts(p, {Sender, via}) : net' = Repaired(second(T), p, due, s.bits)
    BY <1>5 DEF ReceiveCopy
  <2> PICK T \in FanOuts(p, {Sender, via}) : net' = Repaired(second(T), p, due, s.bits)
    BY <2>2
  <2>3. s \in Stored(audience', held')
    BY <1>1, <1>2, <2>1, WithCopyLemma
  <2>4. s.bits \subseteq Truth(audience', held')
    BY <2>3 DEF Stored
  <2>5. due \subseteq Peers /\ T \subseteq Peers
    BY <1>1, DueLemma, FanOutsLemma
  <2> HIDE DEF p, s, due, rest
  <2>6. \A n \in rest : TruePacket(audience', held', n)
    BY <1>2, <1>3, <2>1, TruthGrows DEF TruePacket
  <2>7. \A n \in second(T) : TruePacket(audience', held', n)
    BY <2>4, <2>5, <2>6, PutLemma
  <2> HIDE DEF second
  <2>8. \A n \in net' : TruePacket(audience', held', n)
    BY <2>4, <2>5, <2>7, RepairedLemma
  <2>9. PICK r \in Stored(audience', held') : r.kept = s.kept /\ st' = [st EXCEPT ![p] = r]
    <3>1. \/ st' = [st EXCEPT ![p] = Tried(Announced(p, s), due)]
          \/ st' = [st EXCEPT ![p] = Tried(s, due)]
      BY <2>1 DEF Stores
    <3> QED
      BY <2>3, <3>1, StoredLemma
  <2>10. TrueState(audience', held', r, p)
    BY <2>1, <2>9 DEF TrueState
  <2> QED
    BY <1>1, <1>2, <2>1, <2>8, <2>9, <2>10, StoreStep
<1> QED
  BY <1>4, <1>5

LEMMA ReceiveReceiptStep ==
  ASSUME Inv, NEW m \in net, ReceiveReceipt(m)
  PROVE  Inv'
<1> DEFINE p == m.to
           s == WithReceipt(p, m.bits)
<1>1. p \in Peers /\ m.bits \subseteq Truth(audience, held) /\ audience # {}
  BY DEF Inv, TruePacket
<1>2. /\ UNCHANGED <<audience, view, conn, held>> /\ audience' \subseteq Peers
      /\ net' = net \ {m} /\ Stores(p, s, {})
  BY DEF ReceiveReceipt, Inv
<1>3. s \in Stored(audience, held) /\ (s.kept # {} => p \in held)
  BY <1>1, WithReceiptLemma
<1> HIDE DEF p, s
<1>4. PICK r \in Stored(audience', held') : r.kept = s.kept /\ st' = [st EXCEPT ![p] = r]
  <2> DEFINE due == {}
  <2>1. \/ st' = [st EXCEPT ![p] = Tried(Announced(p, s), due)]
        \/ st' = [st EXCEPT ![p] = Tried(s, due)]
    BY <1>2 DEF Stores
  <2> HIDE DEF due
  <2>2. s \in Stored(audience', held')
    BY <1>2, <1>3
  <2> QED
    BY <2>1, <2>2, StoredLemma
<1>5. TrueState(audience', held', r, p) /\ \A n \in net' : TruePacket(audience', held', n)
  BY <1>2, <1>3, <1>4 DEF TrueState, Inv
<1> QED
  BY <1>1, <1>2, <1>4, <1>5, StoreStep

LEMMA MaintainStep ==
  ASSUME Inv, NEW p \in Peers, st[p] # None, NEW due, due \subseteq Peers,
         NEW T, T \subseteq Peers, Maintain(p, due, T)
  PROVE  Inv'
<1> DEFINE s == Asserted(p)
           n == IF Changed(p, s) THEN Announced(p, s) ELSE s
           late1 == n.timedOut \/ TimesOut(p, s)
           r == [Tried(n, due) EXCEPT !.timedOut = @ \/ TimesOut(p, s)]
           targets == IF p \in Dirtied(p, s) THEN T ELSE {}
<1>1. UNCHANGED <<audience, view, conn, held>> /\ audience # {}
  BY DEF Maintain, Inv
<1>2. /\ st' = [st EXCEPT ![p] = r]
      /\ net' = Put(Repaired(net, p, due, s.bits), "receipt", p, targets, s.bits)
  BY DEF Maintain
<1>3. s \in Stored(audience, held) /\ (s.kept # {} => p \in held)
  BY AssertedLemma
<1>4. s.bits \subseteq Truth(audience, held)
  BY <1>3 DEF Stored
<1> HIDE DEF s
<1>5. n \in Stored(audience, held) /\ n.kept = s.kept
  BY <1>3, AnnouncedLemma
<1> HIDE DEF n
<1>6. Tried(n, due) \in Stored(audience, held) /\ Tried(n, due).kept = s.kept
  BY <1>5, TriedLemma
<1>7. TimesOut(p, s) \in BOOLEAN
  BY DEF TimesOut
<1>8. r \in Stored(audience, held) /\ r.kept = s.kept
  BY <1>6, <1>7 DEF Stored
<1> HIDE DEF r
<1>9. \A m \in Repaired(net, p, due, s.bits) : TruePacket(audience, held, m)
  BY <1>4, RepairedLemma DEF Inv
<1>10. \A m \in net' : TruePacket(audience, held, m)
  BY <1>2, <1>4, <1>9, PutLemma
<1>11. TrueState(audience, held, r, p)
  BY <1>3, <1>8 DEF TrueState
<1>12. audience \subseteq Peers
  BY DEF Inv
<1> QED
  BY <1>1, <1>2, <1>10, <1>11, <1>12, StoreStep

LEMMA TimerStep ==
  ASSUME Inv, NEW p \in Peers, Sync(p) \/ Tidy(p)
  PROVE  Inv'
BY MaintainStep, FanOutsLemma, DueLemma DEF Sync, Tidy

LEMMA ForgetStep ==
  ASSUME Inv, NEW p \in Peers, Forget(p)
  PROVE  Inv'
BY DEF Forget, Inv, Overlay, TrueState

(* The environment changes neither what is stored nor what has been heard.   *)
LEMMA QuietStep ==
  ASSUME Inv, Overlay', UNCHANGED <<st, audience, held>>,
         \A m \in net' : TruePacket(audience, held, m),
         audience = {} => net' = {} /\ dirty' = {}
  PROVE  Inv'
BY DEF Inv

LEMMA KnownBits ==
  ASSUME Inv, NEW p \in Peers
  PROVE  Known(p).bits \subseteq Truth(audience, held)
BY KnownLemma DEF Stored

(* Receipts that go to nobody change nothing.                                *)
LEMMA EmptyPut ==
  ASSUME NEW packets, NEW kind, NEW p, NEW bits
  PROVE  Put(packets, kind, p, {}, bits) = packets
BY DEF Put

LEMMA LinkStep ==
  ASSUME Inv, NEW p \in Peers, NEW q \in Peers, Disconnected(p, q) \/ Connected(p, q)
  PROVE  Inv'
<1>1. CASE Disconnected(p, q)
  <2> DEFINE kept == {m \in net : {m.from, m.to} # {p, q}}
             first(T) == Put(kept, "receipt", p, IF p \in dirty THEN T ELSE {}, Known(p).bits)
             second(T, U) == Put(first(T), "receipt", q, IF q \in dirty THEN U ELSE {}, Known(q).bits)
  <2>1. PICK T \in FanOuts(p, {q}), U \in FanOuts(q, {p}) :
          /\ net' = second(T, U)
          /\ dirty' = dirty \ ((IF T = {} THEN {} ELSE {p}) \cup (IF U = {} THEN {} ELSE {q}))
    BY <1>1 DEF Disconnected, Published
  <2>2. UNCHANGED <<st, audience, held>> /\ Overlay'
    BY <1>1 DEF Disconnected, Inv, Overlay
  <2>3. T \subseteq Peers /\ U \subseteq Peers
    BY FanOutsLemma
  <2>4. \A m \in kept : TruePacket(audience, held, m)
    BY DEF Inv
  <2>5. ASSUME audience = {}
        PROVE  net' = {} /\ dirty' = {}
    <3>1. kept = {} /\ dirty = {}
      BY <2>5 DEF Inv
    <3> HIDE DEF kept
    <3> QED
      BY <2>1, <3>1, EmptyPut
  <2> HIDE DEF kept
  <2>6. \A m \in first(T) : TruePacket(audience, held, m)
    BY <2>3, <2>4, KnownBits, PutLemma
  <2> HIDE DEF first
  <2>7. \A m \in second(T, U) : TruePacket(audience, held, m)
    BY <2>3, <2>6, KnownBits, PutLemma
  <2> QED
    BY <2>1, <2>2, <2>5, <2>7, QuietStep
<1>2. CASE Connected(p, q)
  <2> DEFINE first == Put(net, "receipt", p, IF st[p] = None THEN {} ELSE {q}, Known(p).bits)
             second == Put(first, "receipt", q, IF st[q] = None THEN {} ELSE {p}, Known(q).bits)
  <2>1. net' = second /\ dirty' = dirty \ {p, q} /\ UNCHANGED <<st, audience, held>> /\ Overlay'
    BY <1>2 DEF Connected, Inv, Overlay
  <2>2. \A m \in net : TruePacket(audience, held, m)
    BY DEF Inv
  <2>3. ASSUME audience = {}
        PROVE  net' = {} /\ dirty' = {}
    BY <2>1, <2>3, EmptyPut DEF Inv
  <2>4. \A m \in first : TruePacket(audience, held, m)
    BY <2>2, KnownBits, PutLemma
  <2> HIDE DEF first
  <2>5. \A m \in second : TruePacket(audience, held, m)
    BY <2>4, KnownBits, PutLemma
  <2> QED
    BY <2>1, <2>3, <2>5, QuietStep
<1> QED
  BY <1>1, <1>2

LEMMA OtherStep ==
  ASSUME Inv, \/ \E p \in Peers : PassDeadline(p) \/ ChangeView(p)
              \/ \E m \in net : LoseRepair(m)
  PROVE  Inv'
<1>1. Overlay' /\ net' \subseteq net /\ UNCHANGED <<st, audience, held, dirty>>
  BY DEF Inv, Overlay, PassDeadline, ChangeView, LoseRepair
<1> QED
  BY <1>1, QuietStep DEF Inv

THEOREM Invariance == Spec => []Inv
<1>1. Inv /\ [Next]_vars => Inv'
  <2> SUFFICES ASSUME Inv, [Next]_vars PROVE Inv'
    OBVIOUS
  <2>1. CASE Next
    BY <2>1, BroadcastStep, ReceiveCopyStep, ReceiveReceiptStep, TimerStep, ForgetStep, LinkStep,
       OtherStep DEF Next
  <2>2. CASE UNCHANGED vars
    BY <2>2 DEF vars, Inv, Overlay
  <2> QED
    BY <2>1, <2>2
<1> QED
  BY InitInv, <1>1, PTL DEF Spec

(* Wherever a bit is stored, it names a member that the payload has reached. *)
THEOREM ReceiptsAreTrue == Spec => []NoFalseReceipt
<1>1. Inv => NoFalseReceipt
  BY DEF Inv, TrueState, Stored, Truth, NoFalseReceipt
<1> QED
  BY Invariance, <1>1, PTL

-----------------------------------------------------------------------------
(* What the sender's application is told                                     *)

(* The application has been told what the sender's state says.               *)
Report(s) ==
  IF s.completed THEN IF s.timedOut THEN <<"timeout", "complete">> ELSE <<"complete">>
  ELSE IF s.timedOut THEN <<"timeout">> ELSE <<>>

ToldInv ==
  Sender \notin forgot =>
    IF audience = {} THEN told = <<>>
    ELSE st[Sender] # None /\ told = Report(st[Sender]) /\ (st[Sender].completed => Complete(st[Sender]))

(* A handler only adds bits to what is stored.                               *)
Extends(old, s) ==
  /\ old.bits \subseteq s.bits
  /\ old.ids # {} => s.ids = old.ids
  /\ s.completed = old.completed /\ s.timedOut = old.timedOut

LEMMA CompleteGrows ==
  ASSUME NEW old, NEW s, Extends(old, s), Complete(old)
  PROVE  Complete(s)
BY DEF Extends, Complete, Pending, Delivered

LEMMA HandlersExtend ==
  ASSUME Inv, NEW p \in Peers, st[p] # None, NEW bits
  PROVE  /\ Extends(st[p], WithCopy(p, bits))
         /\ Extends(st[p], WithReceipt(p, bits))
         /\ Extends(st[p], Asserted(p))
<1>1. Known(p) = st[p] /\ st[p] \in Stored(audience, held)
  BY DEF Known, Inv, TrueState
<1>2. Ids(p) = IF st[p].ids = {} THEN Reconstruct(view[p]) ELSE st[p].ids
  BY <1>1 DEF Ids
<1> QED
  BY <1>1, <1>2 DEF WithCopy, WithReceipt, Asserted, Extends, Stored

(* How a log of one entry grows.                                             *)
LEMMA TwoEntries ==
  ASSUME NEW x, NEW y
  PROVE  Append(<<y>>, x) = <<y, x>>
<1> DEFINE s == Append(<<y>>, x)
           t == <<y, x>>
<1>1. s \in Seq({x, y}) /\ t \in Seq({x, y})
  OBVIOUS
<1>2. Len(s) = 2 /\ Len(t) = 2 /\ s[1] = y /\ s[2] = x /\ t[1] = y /\ t[2] = x
  OBVIOUS
<1> HIDE DEF s, t
<1>3. \A i \in 1..2 : s[i] = t[i]
  BY <1>2
<1> QED
  BY <1>1, <1>2, <1>3, SeqEqual DEF s, t

(* Completion is announced once, when it is there.                           *)
LEMMA AnnouncedReport ==
  ASSUME NEW a, NEW h, NEW s \in Stored(a, h), s.completed => Complete(s),
         NEW log, log = Report(s)
  PROVE  LET n == Announced(Sender, s)
             new == IF Announces(Sender, s) THEN Append(log, "complete") ELSE log
         IN  new = Report(n) /\ (n.completed => Complete(n)) /\ n.timedOut = s.timedOut
             /\ n \in Stored(a, h) /\ (Complete(n) <=> Complete(s))
<1> DEFINE n == Announced(Sender, s)
           new == IF Announces(Sender, s) THEN Append(log, "complete") ELSE log
<1>1. n \in Stored(a, h)
  BY AnnouncedLemma
<1>2. /\ n.bits = s.bits /\ n.ids = s.ids /\ n.timedOut = s.timedOut
      /\ n.completed <=> (s.completed \/ Announces(Sender, s))
  BY DEF Announced, Stored
<1>3. Complete(n) <=> Complete(s)
  BY <1>2 DEF Complete, Pending, Delivered
<1>4. Announces(Sender, s) <=> Complete(s) /\ ~s.completed
  BY DEF Announces
<1>5. new = Report(n)
  <2>1. CASE Announces(Sender, s)
    <3>1. log = IF s.timedOut THEN <<"timeout">> ELSE <<>>
      BY <2>1, <1>4 DEF Report
    <3>2. new = IF s.timedOut THEN <<"timeout", "complete">> ELSE <<"complete">>
      <4>1. Append(<<"timeout">>, "complete") = <<"timeout", "complete">>
        BY TwoEntries
      <4>2. Append(<<>>, "complete") = <<"complete">>
        OBVIOUS
      <4> QED
        BY <2>1, <3>1, <4>1, <4>2
    <3> QED
      BY <1>2, <2>1, <3>2 DEF Report
  <2>2. CASE ~Announces(Sender, s)
    BY <1>2, <2>2 DEF Report
  <2> QED
    BY <2>1, <2>2
<1> QED
  BY <1>1, <1>2, <1>3, <1>4, <1>5

LEMMA ExtendsReport ==
  ASSUME NEW old, NEW s, Extends(old, s), old.completed => Complete(old)
  PROVE  Report(s) = Report(old) /\ (s.completed => Complete(s))
<1>1. Report(s) = Report(old) /\ (s.completed => old.completed)
  BY DEF Extends, Report
<1> QED
  BY <1>1, CompleteGrows

LEMMA TriedReport ==
  ASSUME NEW a, NEW h, NEW s \in Stored(a, h), NEW due
  PROVE  Report(Tried(s, due)) = Report(s)
         /\ Tried(s, due).completed = s.completed /\ (Complete(Tried(s, due)) <=> Complete(s))
<1>1. /\ Tried(s, due).bits = s.bits /\ Tried(s, due).ids = s.ids
      /\ Tried(s, due).completed = s.completed /\ Tried(s, due).timedOut = s.timedOut
  BY DEF Tried, Stored
<1> QED
  BY <1>1 DEF Report, Complete, Pending, Delivered

(* Another peer's handler.                                                   *)
LEMMA OthersReport ==
  ASSUME Inv, ToldInv, audience # {}, UNCHANGED <<audience, forgot, told>>,
         NEW p \in Peers \ {Sender}, NEW r, st' = [st EXCEPT ![p] = r]
  PROVE  ToldInv'
<1>1. st'[Sender] = st[Sender]
  BY Assumption DEF Inv
<1>2. Report(st[Sender])' = Report(st'[Sender])
  BY DEF Report
<1>3. Complete(st[Sender])' = Complete(st'[Sender])
  BY DEF Complete, Pending, Delivered
<1> QED
  BY <1>1, <1>2, <1>3 DEF ToldInv

(* The sender's own.                                                         *)
LEMMA OwnReport ==
  ASSUME Inv, audience' # {},
         NEW r, st' = [st EXCEPT ![Sender] = r], r # None,
         told' = Report(r), r.completed => Complete(r)
  PROVE  ToldInv'
<1>1. st'[Sender] = r
  BY Assumption DEF Inv
<1> QED
  BY <1>1 DEF ToldInv, Report, Complete, Pending, Delivered

(* A handler that stores s for p.                                            *)
LEMMA ReportStep ==
  ASSUME Inv, ToldInv, audience # {}, UNCHANGED <<audience, forgot>>, NEW p \in Peers,
         NEW a, NEW h, NEW s \in Stored(a, h), NEW due,
         st[p] # None => Extends(st[p], s), Stores(p, s, due), a \subseteq Peers
  PROVE  ToldInv'
<1> DEFINE r == IF Changed(p, s) THEN Tried(Announced(p, s), due) ELSE Tried(s, due)
<1>1. st' = [st EXCEPT ![p] = r]
  BY DEF Stores
<1>2. CASE p # Sender
  <2>1. told' = told
    BY <1>2 DEF Stores, Announces
  <2> HIDE DEF r
  <2> QED
    BY <1>1, <1>2, <2>1, OthersReport
<1>3. CASE p = Sender /\ Sender \in forgot
  BY <1>3 DEF ToldInv
<1>4. CASE p = Sender /\ Sender \notin forgot
  <2>1. st[p] # None /\ told = Report(st[p]) /\ (st[p].completed => Complete(st[p]))
    BY <1>4 DEF ToldInv
  <2>2. told = Report(s) /\ (s.completed => Complete(s))
    BY <2>1, ExtendsReport
  <2>3. CASE Changed(p, s)
    <3> DEFINE n == Announced(Sender, s)
    <3>1. told' = IF Announces(Sender, s) THEN Append(told, "complete") ELSE told
      BY <1>4, <2>3 DEF Stores
    <3>2. told' = Report(n) /\ (n.completed => Complete(n)) /\ n \in Stored(a, h)
      BY <2>2, <3>1, AnnouncedReport
    <3> HIDE DEF n
    <3>3. /\ Tried(n, due) \in Stored(a, h) /\ told' = Report(Tried(n, due))
          /\ Tried(n, due).completed => Complete(Tried(n, due))
      BY <3>2, TriedLemma, TriedReport
    <3>4. st' = [st EXCEPT ![Sender] = Tried(n, due)]
      BY <1>1, <1>4, <2>3 DEF n
    <3> QED
      BY <3>3, <3>4, OwnReport, StoredIsSome
  <2>4. CASE ~Changed(p, s)
    <3>1. told' = told /\ st' = [st EXCEPT ![Sender] = Tried(s, due)]
      BY <1>4, <2>4 DEF Stores
    <3>2. /\ Tried(s, due) \in Stored(a, h) /\ told' = Report(Tried(s, due))
          /\ Tried(s, due).completed => Complete(Tried(s, due))
      BY <2>2, <3>1, TriedLemma, TriedReport
    <3> QED
      BY <3>1, <3>2, OwnReport, StoredIsSome
  <2> QED
    BY <2>3, <2>4
<1> QED
  BY <1>2, <1>3, <1>4

LEMMA MaintainReport ==
  ASSUME Inv, ToldInv, NEW p \in Peers, st[p] # None, NEW due, NEW T, Maintain(p, due, T)
  PROVE  ToldInv'
<1> DEFINE s == Asserted(p)
           n == IF Changed(p, s) THEN Announced(p, s) ELSE s
           out == TimesOut(p, s)
           r == [Tried(n, due) EXCEPT !.timedOut = @ \/ out]
           log == IF Changed(p, s) /\ Announces(p, s) THEN Append(told, "complete") ELSE told
<1>1. UNCHANGED <<audience, forgot>> /\ audience # {} /\ st' = [st EXCEPT ![p] = r]
  BY DEF Maintain, Inv
<1>2. s \in Stored(audience, held) /\ Extends(st[p], s)
  BY AssertedLemma, HandlersExtend
<1>3. CASE Sender \in forgot
  BY <1>1, <1>3 DEF ToldInv
<1>6. ASSUME Sender \notin forgot
      PROVE  told' = IF p = Sender /\ out THEN log \o <<"timeout">> ELSE log
  <2> DEFINE done == IF Changed(p, s) /\ Announces(p, s) THEN <<"complete">> ELSE <<>>
             gone == IF p = Sender /\ out THEN <<"timeout">> ELSE <<>>
             Entry == {"complete", "timeout"}
  <2>1. told \in Seq(Entry)
    <3>1. <<>> \in Seq(Entry) /\ <<"timeout">> \in Seq(Entry) /\ <<"complete">> \in Seq(Entry)
      OBVIOUS
    <3>2. <<"timeout", "complete">> \in Seq(Entry)
      OBVIOUS
    <3> QED
      BY <1>1, <1>6, <3>1, <3>2 DEF ToldInv, Report
  <2>2. told' = told \o done \o gone
    BY DEF Maintain
  <2>3. told \o done = log /\ log \in Seq(Entry)
    <3>1. CASE Changed(p, s) /\ Announces(p, s)
      BY <2>1, <3>1, AppendIsConcat, AppendProperties
    <3>2. CASE ~(Changed(p, s) /\ Announces(p, s))
      BY <2>1, <3>2, ConcatEmptySeq
    <3> QED
      BY <3>1, <3>2
  <2> HIDE DEF done, log
  <2> QED
    BY <2>2, <2>3, ConcatEmptySeq
<1>4. CASE p # Sender /\ Sender \notin forgot
  <2>1. told' = told
    BY <1>4, <1>6 DEF Announces
  <2> HIDE DEF r
  <2> QED
    BY <1>1, <1>4, <2>1, OthersReport
<1>5. CASE p = Sender /\ Sender \notin forgot
  <2>1. st[p] # None /\ told = Report(st[p]) /\ (st[p].completed => Complete(st[p]))
    BY <1>1, <1>5 DEF ToldInv
  <2>2. told = Report(s) /\ (s.completed => Complete(s))
    BY <1>2, <2>1, ExtendsReport
  <2>3. told' = IF out THEN log \o <<"timeout">> ELSE log
    BY <1>5, <1>6
  <2>4. /\ log = Report(n) /\ (n.completed => Complete(n)) /\ n.timedOut = s.timedOut
        /\ n \in Stored(audience, held) /\ (Complete(n) <=> Complete(s))
    <3>1. CASE Changed(p, s)
      BY <1>2, <1>5, <2>2, <3>1, AnnouncedReport
    <3>2. CASE ~Changed(p, s)
      BY <1>2, <2>2, <3>2
    <3> QED
      BY <3>1, <3>2
  <2>5. out => ~Complete(s) /\ ~s.timedOut
    BY DEF TimesOut
  <2> HIDE DEF s, n, out, log
  <2> DEFINE m == Tried(n, due)
  <2>6. m \in Stored(audience, held) /\ Report(m) = Report(n) /\ m.completed = n.completed
        /\ (Complete(m) <=> Complete(n))
    BY <2>4, TriedLemma, TriedReport
  <2>7. m.timedOut = n.timedOut
    BY <2>4 DEF Tried, Stored
  <2> HIDE DEF m
  <2>8. out \in BOOLEAN
    BY DEF out, TimesOut
  <2>9. /\ r \in Stored(audience, held) /\ r.bits = m.bits /\ r.ids = m.ids
        /\ r.completed = m.completed /\ (r.timedOut <=> m.timedOut \/ out)
    BY <2>6, <2>8 DEF Stored, m
  <2> HIDE DEF r
  <2>10. Complete(r) <=> Complete(m)
    BY <2>9 DEF Complete, Pending, Delivered
  <2>11. told' = Report(r)
    <3>1. CASE out
      <4>1. ~n.completed /\ ~n.timedOut
        BY <2>4, <2>5, <3>1
      <4>2. log = <<>>
        BY <2>4, <4>1 DEF Report
      <4>3. <<>> \o <<"timeout">> = <<"timeout">>
        OBVIOUS
      <4>4. ~r.completed /\ r.timedOut
        BY <2>6, <2>9, <3>1, <4>1
      <4> QED
        BY <2>3, <3>1, <4>2, <4>3, <4>4 DEF Report
    <3>2. CASE ~out
      BY <2>3, <2>4, <2>6, <2>7, <2>9, <3>2 DEF Report
    <3> QED
      BY <3>1, <3>2
  <2> QED
    BY <1>1, <1>5, <2>4, <2>6, <2>9, <2>10, <2>11, OwnReport, StoredIsSome DEF Inv
<1> QED
  BY <1>3, <1>4, <1>5

LEMMA BroadcastReport ==
  ASSUME Inv, ToldInv, Broadcast
  PROVE  ToldInv'
<1> DEFINE own == {Index(view[Sender], Sender)}
           s == [Blank EXCEPT !.bits = own, !.ids = view[Sender], !.kept = view[Sender]]
           due == Due(Sender, s)
           n == Announced(Sender, s)
           r == Tried(n, due)
<1>1. /\ audience = {} /\ audience' = view[Sender] /\ st[Sender] = None
      /\ Sender \in Peers /\ Sender \in view[Sender] /\ view[Sender] \subseteq Peers
      /\ forgot' = forgot /\ Stores(Sender, s, due)
  BY Assumption DEF Broadcast, Inv, Overlay
<1>2. own \subseteq Truth(audience', {Sender})
  BY <1>1 DEF Truth
<1>3. s \in Stored(audience', {Sender}) /\ ~s.completed /\ ~s.timedOut
  BY <1>1, <1>2 DEF Stored, Blank
<1> HIDE DEF own, s
<1>4. /\ st' = [st EXCEPT ![Sender] = r]
      /\ told' = IF Announces(Sender, s) THEN Append(told, "complete") ELSE told
  BY <1>1 DEF Stores, Changed
<1> HIDE DEF due
<1>5. CASE Sender \in forgot
  BY <1>1, <1>5 DEF ToldInv
<1>6. CASE Sender \notin forgot
  <2>1. told = Report(s)
    BY <1>1, <1>3, <1>6 DEF ToldInv, Report
  <2>2. told' = Report(n) /\ (n.completed => Complete(n)) /\ n \in Stored(audience', {Sender})
    BY <1>3, <1>4, <2>1, AnnouncedReport
  <2> HIDE DEF n
  <2>3. r \in Stored(audience', {Sender}) /\ told' = Report(r) /\ (r.completed => Complete(r))
    BY <2>2, TriedLemma, TriedReport
  <2>4. r # None /\ audience' # {}
    BY <1>1, <2>3, StoredIsSome
  <2> HIDE DEF r
  <2> QED
    BY <1>1, <1>4, <2>3, <2>4, OwnReport
<1> QED
  BY <1>5, <1>6

LEMMA CopyReport ==
  ASSUME Inv, ToldInv, NEW m \in net, ReceiveCopy(m)
  PROVE  ToldInv'
<1> DEFINE p == m.to
           s == WithCopy(p, m.bits)
           due == IF p \notin held THEN Due(p, s) ELSE {}
<1>1. /\ p \in Peers /\ m.bits \subseteq Truth(audience, held)
      /\ audience # {} /\ audience \subseteq Peers
  BY DEF Inv, TruePacket
<1>2. UNCHANGED <<audience, forgot>>
  BY DEF ReceiveCopy
<1>3. s \in Stored(audience, held \cup {p}) /\ (st[p] # None => Extends(st[p], s))
  BY <1>1, WithCopyLemma, HandlersExtend
<1>4. CASE p \in late
  BY <1>2, <1>4 DEF ReceiveCopy, ToldInv, Report, Complete, Pending, Delivered
<1>5. CASE p \notin late
  <2>1. Stores(p, s, due)
    BY <1>5 DEF ReceiveCopy
  <2> HIDE DEF p, s, due
  <2> QED
    BY <1>1, <1>2, <1>3, <2>1, ReportStep
<1> QED
  BY <1>4, <1>5

LEMMA ReceiptReport ==
  ASSUME Inv, ToldInv, NEW m \in net, ReceiveReceipt(m)
  PROVE  ToldInv'
<1> DEFINE p == m.to
           s == WithReceipt(p, m.bits)
           due == {}
<1>1. /\ p \in Peers /\ m.bits \subseteq Truth(audience, held)
      /\ audience # {} /\ audience \subseteq Peers
  BY DEF Inv, TruePacket
<1>2. UNCHANGED <<audience, forgot>> /\ Stores(p, s, due)
  BY DEF ReceiveReceipt
<1>3. s \in Stored(audience, held) /\ (st[p] # None => Extends(st[p], s))
  BY <1>1, WithReceiptLemma, HandlersExtend
<1> HIDE DEF p, s, due
<1> QED
  BY <1>1, <1>2, <1>3, ReportStep

LEMMA ToldStep ==
  ASSUME Inv, ToldInv, [Next]_vars
  PROVE  ToldInv'
<1>1. CASE Broadcast
  BY <1>1, BroadcastReport
<1>2. CASE \E m \in net : ReceiveCopy(m)
  BY <1>2, CopyReport
<1>3. CASE \E m \in net : ReceiveReceipt(m)
  BY <1>3, ReceiptReport
<1>4. CASE \E p \in Peers : Sync(p) \/ Tidy(p)
  BY <1>4, MaintainReport DEF Sync, Tidy
<1>5. CASE \E p \in Peers : Forget(p)
  <2> PICK p \in Peers : Forget(p)
    BY <1>5
  <2>1. CASE p = Sender
    BY <2>1 DEF Forget, ToldInv
  <2>2. CASE p # Sender
    BY <2>2 DEF Forget, ToldInv, Inv, Report, Complete, Pending, Delivered
  <2> QED
    BY <2>1, <2>2
<1>6. CASE UNCHANGED <<st, audience, told, forgot>>
  BY <1>6 DEF ToldInv, Report, Complete, Pending, Delivered
<1>7. CASE \/ \E m \in net : LoseRepair(m)
           \/ \E p \in Peers : PassDeadline(p) \/ ChangeView(p)
           \/ \E p, q \in Peers : Disconnected(p, q) \/ Connected(p, q)
           \/ UNCHANGED vars
  <2>1. UNCHANGED <<st, audience, told, forgot>>
    BY <1>7 DEF LoseRepair, PassDeadline, ChangeView, Disconnected, Connected, vars
  <2> QED
    BY <1>6, <2>1
<1> QED
  BY <1>1, <1>2, <1>3, <1>4, <1>5, <1>7 DEF Next

(* Completion is announced once, a timeout once and never after completion.  *)
THEOREM ToldOnceOnly == Spec => []ToldOnce
<1>1. Init => ToldInv
  BY DEF Init, ToldInv
<1>2. Inv /\ ToldInv /\ [Next]_vars => ToldInv'
  BY ToldStep
<1>3. Inv /\ ToldInv => ToldOnce
  BY DEF Inv, ToldInv, ToldOnce, Report
<1> QED
  BY Invariance, <1>1, <1>2, <1>3, PTL DEF Spec

-----------------------------------------------------------------------------
(* Who repairs                                                               *)

(* p holds the payload and has said so.                                      *)
Witnesses(a, s, p) == s # None /\ s.ids = a /\ s.kept # {} /\ Index(a, p) \in s.bits

Self == {p \in audience : Witnesses(audience, st[p], p)}

(* Every bit in circulation is that of such a peer: it was set by the peer   *)
(* itself, which has kept the payload and the bit.                           *)
Witnessed ==
  forgot = {} =>
    /\ \A p \in Peers : st[p] # None => st[p].bits \subseteq Truth(audience, Self)
    /\ \A m \in net : TruePacket(audience, Self, m)
    /\ audience # {} => Sender \in Self

(* What the handlers add to old when they store s for p.                     *)
Adds(old, s) ==
  /\ old.bits \subseteq s.bits
  /\ old.ids # {} => s.ids = old.ids
  /\ old.kept # {} => s.kept # {}

SameCore(s, r) == r.bits = s.bits /\ r.ids = s.ids /\ r.kept = s.kept

LEMMA CoreLemma ==
  ASSUME NEW a, NEW h, NEW p, NEW s \in Stored(a, h), NEW due
  PROVE  /\ SameCore(s, Announced(p, s)) /\ SameCore(s, Tried(s, due))
         /\ SameCore(s, Tried(Announced(p, s), due))
<1>1. SameCore(s, Announced(p, s)) /\ Announced(p, s) \in Stored(a, h)
  BY AnnouncedLemma DEF SameCore, Announced, Stored
<1>2. ASSUME NEW n \in Stored(a, h)
      PROVE  SameCore(n, Tried(n, due))
  BY DEF SameCore, Tried, Stored
<1> QED
  BY <1>1, <1>2 DEF SameCore

(* The peers that witness, and their bits, after p has stored r.             *)
LEMMA SelfGrows ==
  ASSUME Inv, Witnessed, forgot = {}, UNCHANGED audience, NEW p \in Peers,
         NEW s, NEW r \in Stored(audience, held'), SameCore(s, r), st' = [st EXCEPT ![p] = r],
         st[p] # None => Adds(st[p], s),
         s.bits \subseteq Truth(audience, Self) \cup (IF s.kept = {} THEN {} ELSE Own(s.ids, p))
  PROVE  /\ Truth(audience, Self) \subseteq Truth(audience, Self')
         /\ s.bits \subseteq Truth(audience, Self')
         /\ Self \subseteq Self'
<1>1. Self' = {q \in audience : Witnesses(audience, st'[q], q)}
  BY DEF Self, Witnesses, Index
<1>2. r # None
  BY StoredIsSome DEF Inv
<1>3. st'[p] = r /\ \A q \in Peers \ {p} : st'[q] = st[q]
  BY DEF Inv
<1>4. Self \subseteq Self'
  <2> SUFFICES ASSUME NEW q \in Self PROVE q \in Self'
    OBVIOUS
  <2>1. q \in audience /\ Witnesses(audience, st[q], q) /\ q \in Peers
    BY DEF Self, Inv
  <2>2. CASE q = p
    BY <1>1, <1>2, <1>3, <2>1, <2>2 DEF Witnesses, Adds, SameCore
  <2>3. CASE q # p
    BY <1>1, <1>3, <2>1, <2>3
  <2> QED
    BY <2>2, <2>3
<1>5. Truth(audience, Self) \subseteq Truth(audience, Self')
  BY <1>4, TruthGrows
<1>6. ASSUME NEW i \in s.bits, s.kept # {}, i \in Own(s.ids, p)
      PROVE  i \in Truth(audience, Self')
  <2>1. p \in s.ids /\ i = Index(s.ids, p)
    BY <1>6 DEF Own
  <2>2. s.ids = audience
    BY <2>1 DEF SameCore, Stored
  <2>3. p \in Self'
    BY <1>1, <1>2, <1>3, <1>6, <2>1, <2>2 DEF Witnesses, SameCore
  <2> QED
    BY <2>1, <2>2, <2>3 DEF Truth
<1> QED
  BY <1>4, <1>5, <1>6

(* The whole step.                                                           *)
LEMMA WitnessStep ==
  ASSUME Inv, Witnessed, forgot = {}, UNCHANGED audience, NEW p \in Peers,
         NEW s, NEW r \in Stored(audience, held'), SameCore(s, r), st' = [st EXCEPT ![p] = r],
         st[p] # None => Adds(st[p], s),
         s.bits \subseteq Truth(audience, Self) \cup (IF s.kept = {} THEN {} ELSE Own(s.ids, p)),
         audience # {},
         \A m \in net' : TruePacket(audience, Self', m)
  PROVE  Witnessed'
<1>1. /\ Truth(audience, Self) \subseteq Truth(audience, Self')
      /\ s.bits \subseteq Truth(audience, Self') /\ Self \subseteq Self'
  BY SelfGrows
<1>2. ASSUME NEW q \in Peers, st'[q] # None
      PROVE  st'[q].bits \subseteq Truth(audience, Self')
  <2>1. CASE q = p
    BY <1>1, <2>1 DEF Inv, SameCore
  <2>2. CASE q # p
    <3>1. st'[q] = st[q]
      BY <2>2 DEF Inv
    <3> QED
      BY <1>1, <1>2, <3>1 DEF Witnessed
  <2> QED
    BY <2>1, <2>2
<1>3. Sender \in Self'
  BY <1>1 DEF Witnessed
<1>4. Truth(audience, Self)' = Truth(audience, Self')
  BY DEF Truth, Index
<1>5. ASSUME NEW m \in net' PROVE TruePacket(audience, Self, m)'
  BY <1>4, <1>5 DEF TruePacket
<1> QED
  BY <1>2, <1>3, <1>4, <1>5 DEF Witnessed

(* What p knew is true of the peers that witness.                            *)
LEMMA KnownWitnessed ==
  ASSUME Inv, Witnessed, forgot = {}, NEW p \in Peers
  PROVE  Known(p).bits \subseteq Truth(audience, Self)
BY DEF Witnessed, Known, Blank

LEMMA HandlersAdd ==
  ASSUME Inv, NEW p \in Peers, NEW bits
  PROVE  /\ st[p] # None => /\ Adds(st[p], WithCopy(p, bits))
                            /\ Adds(st[p], WithReceipt(p, bits))
                            /\ Adds(st[p], Asserted(p))
         /\ WithCopy(p, bits).kept # {}
         /\ WithCopy(p, bits).bits = Known(p).bits \cup bits \cup Own(WithCopy(p, bits).ids, p)
         /\ WithReceipt(p, bits).bits = Known(p).bits \cup bits
<1> DEFINE all == Known(p).bits \cup bits \cup Own(Ids(p), p)
           kept == IF Known(p).kept = {} THEN view[p] ELSE Known(p).kept
           own == IF st[p].kept = {} THEN {} ELSE Own(Ids(p), p)
<1>1. Known(p) \in Stored(audience, held) /\ (st[p] # None => Known(p) = st[p])
  BY KnownLemma DEF Known
<1>2. view[p] # {}
  BY DEF Inv, Overlay
<1>3. Known(p).ids # {} => Ids(p) = Known(p).ids
  BY DEF Ids
<1>4. WithCopy(p, bits) = [Known(p) EXCEPT !.bits = all, !.ids = Ids(p), !.kept = kept]
  BY DEF WithCopy
<1>5. /\ WithCopy(p, bits).bits = all /\ WithCopy(p, bits).ids = Ids(p)
      /\ WithCopy(p, bits).kept = kept
  BY <1>1, <1>4 DEF Stored
<1>6. /\ WithReceipt(p, bits).bits = Known(p).bits \cup bits /\ WithReceipt(p, bits).ids = Ids(p)
      /\ WithReceipt(p, bits).kept = Known(p).kept
  BY <1>1 DEF WithReceipt, Stored
<1>7. /\ Asserted(p).bits = Known(p).bits \cup own /\ Asserted(p).ids = Ids(p)
      /\ Asserted(p).kept = Known(p).kept
  BY <1>1 DEF Asserted, Stored
<1> QED
  BY <1>1, <1>2, <1>3, <1>5, <1>6, <1>7 DEF Adds

LEMMA CopyWitnessed ==
  ASSUME Inv, Witnessed, forgot = {}, NEW m \in net, ReceiveCopy(m)
  PROVE  Witnessed'
<1> DEFINE p == m.to
           s == WithCopy(p, m.bits)
           fresh == p \notin held
           due == IF fresh THEN Due(p, s) ELSE {}
           rest == net \ {m}
           second(T) == Put(rest, "copy", p, IF fresh THEN T ELSE {}, s.bits)
<1>1. p \in Peers /\ m.bits \subseteq Truth(audience, held) /\ audience # {}
  BY DEF Inv, TruePacket
<1>2. UNCHANGED <<audience, forgot>> /\ m.bits \subseteq Truth(audience, Self)
  BY DEF ReceiveCopy, Witnessed, TruePacket
<1>3. \A n \in rest : TruePacket(audience, Self, n)
  BY DEF Witnessed
<1>4. CASE p \in late
  <2>1. net' = rest /\ UNCHANGED <<st, audience>>
    BY <1>4 DEF ReceiveCopy
  <2> HIDE DEF p, s, rest
  <2> QED
    BY <1>2, <1>3, <2>1 DEF Witnessed, Self, Witnesses, Truth, Index, TruePacket
<1>5. CASE p \notin late
  <2>1. Stores(p, s, due) /\ held' = held \cup {p}
    BY <1>5 DEF ReceiveCopy
  <2>2. PICK via : \E T \in FanOuts(p, {Sender, via}) : net' = Repaired(second(T), p, due, s.bits)
    BY <1>5 DEF ReceiveCopy
  <2> PICK T \in FanOuts(p, {Sender, via}) : net' = Repaired(second(T), p, due, s.bits)
    BY <2>2
  <2>3. s \in Stored(audience, held')
    BY <1>1, <2>1, WithCopyLemma
  <2>4. st[p] # None => Adds(st[p], s)
    BY <1>1, HandlersAdd
  <2>5. s.bits \subseteq Truth(audience, Self) \cup (IF s.kept = {} THEN {} ELSE Own(s.ids, p))
    BY <1>1, <1>2, HandlersAdd, KnownWitnessed
  <2>6. due \subseteq Peers /\ T \subseteq Peers
    BY <1>1, DueLemma, FanOutsLemma
  <2> HIDE DEF p, s, due, rest
  <2>7. PICK r \in Stored(audience, held') : SameCore(s, r) /\ st' = [st EXCEPT ![p] = r]
    BY <2>1, <2>3, CoreLemma, StoresLemma DEF Stores
  <2>8. Truth(audience, Self) \subseteq Truth(audience, Self') /\ s.bits \subseteq Truth(audience, Self')
    BY <1>1, <1>2, <2>4, <2>5, <2>7, SelfGrows
  <2>9. \A n \in rest : TruePacket(audience, Self', n)
    BY <1>3, <2>8 DEF TruePacket
  <2>10. \A n \in second(T) : TruePacket(audience, Self', n)
    BY <2>6, <2>8, <2>9, PutLemma
  <2> HIDE DEF second
  <2>11. \A n \in net' : TruePacket(audience, Self', n)
    BY <2>6, <2>8, <2>10, RepairedLemma
  <2> QED
    BY <1>1, <1>2, <2>4, <2>5, <2>7, <2>11, WitnessStep
<1> QED
  BY <1>4, <1>5

LEMMA ReceiptWitnessed ==
  ASSUME Inv, Witnessed, forgot = {}, NEW m \in net, ReceiveReceipt(m)
  PROVE  Witnessed'
<1> DEFINE p == m.to
           s == WithReceipt(p, m.bits)
           due == {}
<1>1. p \in Peers /\ m.bits \subseteq Truth(audience, held) /\ audience # {}
  BY DEF Inv, TruePacket
<1>2. /\ UNCHANGED <<audience, forgot, held>> /\ m.bits \subseteq Truth(audience, Self)
      /\ net' = net \ {m} /\ Stores(p, s, due)
  BY DEF ReceiveReceipt, Witnessed, TruePacket
<1>3. s \in Stored(audience, held') /\ (st[p] # None => Adds(st[p], s))
  BY <1>1, <1>2, WithReceiptLemma, HandlersAdd
<1>4. s.bits \subseteq Truth(audience, Self)
  BY <1>1, <1>2, HandlersAdd, KnownWitnessed
<1> HIDE DEF p, s, due
<1>5. PICK r \in Stored(audience, held') : SameCore(s, r) /\ st' = [st EXCEPT ![p] = r]
  BY <1>2, <1>3, CoreLemma, StoresLemma DEF Stores
<1>6. Truth(audience, Self) \subseteq Truth(audience, Self')
  BY <1>1, <1>2, <1>3, <1>4, <1>5, SelfGrows
<1>7. \A n \in net' : TruePacket(audience, Self', n)
  BY <1>2, <1>6 DEF Witnessed, TruePacket
<1> QED
  BY <1>1, <1>2, <1>3, <1>4, <1>5, <1>7, WitnessStep

LEMMA MaintainWitnessed ==
  ASSUME Inv, Witnessed, forgot = {}, NEW p \in Peers, st[p] # None, NEW due, due \subseteq Peers,
         NEW T, T \subseteq Peers, Maintain(p, due, T)
  PROVE  Witnessed'
<1> DEFINE s == Asserted(p)
           n == IF Changed(p, s) THEN Announced(p, s) ELSE s
           r == [Tried(n, due) EXCEPT !.timedOut = @ \/ TimesOut(p, s)]
           targets == IF p \in Dirtied(p, s) THEN T ELSE {}
<1>1. UNCHANGED <<audience, forgot, held>> /\ audience # {}
  BY DEF Maintain, Inv
<1>2. /\ st' = [st EXCEPT ![p] = r]
      /\ net' = Put(Repaired(net, p, due, s.bits), "receipt", p, targets, s.bits)
  BY DEF Maintain
<1>3. s \in Stored(audience, held) /\ Adds(st[p], s)
  BY AssertedLemma, HandlersAdd
<1>4. s.bits \subseteq Truth(audience, Self) \cup (IF s.kept = {} THEN {} ELSE Own(s.ids, p))
  <2>1. Known(p) = st[p] /\ st[p] \in Stored(audience, held) /\ Known(p).bits \subseteq Truth(audience, Self)
    BY KnownWitnessed DEF Known, Inv, TrueState
  <2> DEFINE own == IF st[p].kept = {} THEN {} ELSE Own(Ids(p), p)
  <2>2. s.bits = Known(p).bits \cup own /\ s.ids = Ids(p) /\ s.kept = st[p].kept
    BY <2>1 DEF Asserted, Stored
  <2> QED
    BY <2>1, <2>2
<1>5. TimesOut(p, s) \in BOOLEAN
  BY DEF TimesOut
<1> HIDE DEF s
<1>6. n \in Stored(audience, held) /\ SameCore(s, n)
  BY <1>3, AnnouncedLemma, CoreLemma DEF SameCore
<1> HIDE DEF n
<1> DEFINE tried == Tried(n, due)
<1>7. tried \in Stored(audience, held) /\ SameCore(s, tried)
  BY <1>6, TriedLemma, CoreLemma DEF SameCore
<1> HIDE DEF tried
<1>8. r = [tried EXCEPT !.timedOut = @ \/ TimesOut(p, s)]
  BY DEF tried
<1>9. r \in Stored(audience, held') /\ SameCore(s, r)
  BY <1>1, <1>5, <1>7, <1>8 DEF Stored, SameCore
<1> HIDE DEF r, targets
<1>10. Truth(audience, Self) \subseteq Truth(audience, Self') /\ s.bits \subseteq Truth(audience, Self')
  BY <1>1, <1>2, <1>3, <1>4, <1>9, SelfGrows
<1>11. \A m \in net : TruePacket(audience, Self', m)
  BY <1>10 DEF Witnessed, TruePacket
<1>12. \A m \in Repaired(net, p, due, s.bits) : TruePacket(audience, Self', m)
  BY <1>10, <1>11, RepairedLemma
<1>13. \A m \in net' : TruePacket(audience, Self', m)
  BY <1>2, <1>10, <1>12, PutLemma DEF targets
<1> QED
  BY <1>1, <1>2, <1>3, <1>4, <1>9, <1>13, WitnessStep

LEMMA BroadcastWitnessed ==
  ASSUME Inv, Witnessed, forgot = {}, Broadcast
  PROVE  Witnessed'
<1> DEFINE own == {Index(view[Sender], Sender)}
           s == [Blank EXCEPT !.bits = own, !.ids = view[Sender], !.kept = view[Sender]]
           due == Due(Sender, s)
           first(T) == Put({}, "copy", Sender, T, s.bits)
<1>1. PICK T \in FanOuts(Sender, {Sender}) : net' = Repaired(first(T), Sender, due, s.bits)
  BY DEF Broadcast
<1>2. /\ audience = {} /\ audience' = view[Sender] /\ held' = {Sender}
      /\ UNCHANGED <<view, conn, forgot>> /\ Stores(Sender, s, due)
      /\ Sender \in Peers /\ Sender \in view[Sender] /\ view[Sender] \subseteq Peers
  BY Assumption DEF Broadcast, Inv, Overlay
<1>3. own \subseteq Truth(audience', {Sender})
  BY <1>2 DEF Truth
<1>4. s \in Stored(audience', {Sender}) /\ s.bits = own /\ s.ids = audience' /\ s.kept = audience'
  BY <1>2, <1>3 DEF Stored, Blank
<1>5. Index(audience', Sender) \in own
  BY <1>2
<1> HIDE DEF own, s
<1>6. T \subseteq Peers /\ due \subseteq Peers
  BY <1>2, FanOutsLemma, DueLemma
<1> HIDE DEF due
<1>7. PICK r \in Stored(audience', {Sender}) : SameCore(s, r) /\ st' = [st EXCEPT ![Sender] = r]
  BY <1>2, <1>4, CoreLemma, StoresLemma DEF Stores
<1>8. st'[Sender] = r /\ r # None /\ \A p \in Peers \ {Sender} : st'[p] = None
  BY <1>2, <1>7, StoredIsSome DEF Inv
<1>9. Self' = {p \in audience' : Witnesses(audience', st'[p], p)}
  BY DEF Self, Witnesses, Index
<1>10. Sender \in Self'
  BY <1>2, <1>4, <1>5, <1>7, <1>8, <1>9 DEF Witnesses, SameCore
<1>11. own \subseteq Truth(audience', Self')
  BY <1>3, <1>10, TruthGrows
<1>12. \A m \in first(T) : TruePacket(audience', Self', m)
  BY <1>4, <1>6, <1>11, PutLemma
<1> HIDE DEF first
<1>13. \A m \in net' : TruePacket(audience', Self', m)
  BY <1>1, <1>4, <1>6, <1>11, <1>12, RepairedLemma
<1>14. \A p \in Peers : st'[p] # None => st'[p].bits \subseteq Truth(audience', Self')
  BY <1>4, <1>7, <1>8, <1>11 DEF SameCore
<1>15. Truth(audience, Self)' = Truth(audience', Self')
  BY DEF Truth, Index
<1>16. ASSUME NEW m \in net' PROVE TruePacket(audience, Self, m)'
  BY <1>13, <1>15, <1>16 DEF TruePacket
<1> QED
  BY <1>10, <1>14, <1>15, <1>16 DEF Witnessed

LEMMA LinkWitnessed ==
  ASSUME Inv, Witnessed, forgot = {}, NEW p \in Peers, NEW q \in Peers, Disconnected(p, q) \/ Connected(p, q)
  PROVE  /\ UNCHANGED <<st, audience, forgot>>
         /\ \A m \in net' : TruePacket(audience, Self, m)
<1>1. CASE Disconnected(p, q)
  <2> DEFINE kept == {m \in net : {m.from, m.to} # {p, q}}
             first(T) == Put(kept, "receipt", p, IF p \in dirty THEN T ELSE {}, Known(p).bits)
             second(T, U) == Put(first(T), "receipt", q, IF q \in dirty THEN U ELSE {}, Known(q).bits)
  <2>1. PICK T \in FanOuts(p, {q}), U \in FanOuts(q, {p}) : net' = second(T, U)
    BY <1>1 DEF Disconnected, Published
  <2>2. UNCHANGED <<st, audience, forgot>>
    BY <1>1 DEF Disconnected
  <2>3. T \subseteq Peers /\ U \subseteq Peers
    BY FanOutsLemma
  <2>4. \A m \in kept : TruePacket(audience, Self, m)
    BY DEF Witnessed
  <2> HIDE DEF kept
  <2>5. \A m \in first(T) : TruePacket(audience, Self, m)
    BY <2>3, <2>4, KnownWitnessed, PutLemma
  <2> HIDE DEF first
  <2>6. \A m \in second(T, U) : TruePacket(audience, Self, m)
    BY <2>3, <2>5, KnownWitnessed, PutLemma
  <2> QED
    BY <2>1, <2>2, <2>6
<1>2. CASE Connected(p, q)
  <2> DEFINE first == Put(net, "receipt", p, IF st[p] = None THEN {} ELSE {q}, Known(p).bits)
             second == Put(first, "receipt", q, IF st[q] = None THEN {} ELSE {p}, Known(q).bits)
  <2>1. net' = second /\ UNCHANGED <<st, audience, forgot>>
    BY <1>2 DEF Connected
  <2>2. \A m \in net : TruePacket(audience, Self, m)
    BY DEF Witnessed
  <2>3. \A m \in first : TruePacket(audience, Self, m)
    BY <2>2, KnownWitnessed, PutLemma
  <2> HIDE DEF first
  <2>4. \A m \in second : TruePacket(audience, Self, m)
    BY <2>3, KnownWitnessed, PutLemma
  <2> QED
    BY <2>1, <2>4
<1> QED
  BY <1>1, <1>2

LEMMA NextWitnessed ==
  ASSUME Inv, Witnessed, [Next]_vars
  PROVE  Witnessed'
<1>1. CASE forgot # {}
  <2>1. forgot \subseteq forgot'
    BY DEF Next, vars, Broadcast, ReceiveCopy, ReceiveReceipt, LoseRepair, Sync, Tidy, Maintain,
           Forget, PassDeadline, ChangeView, Disconnected, Connected
  <2> QED
    BY <1>1, <2>1 DEF Witnessed
<1>2. CASE forgot = {}
  <2>1. CASE Broadcast
    BY <1>2, <2>1, BroadcastWitnessed
  <2>2. CASE \E m \in net : ReceiveCopy(m)
    BY <1>2, <2>2, CopyWitnessed
  <2>3. CASE \E m \in net : ReceiveReceipt(m)
    BY <1>2, <2>3, ReceiptWitnessed
  <2>4. CASE \E p \in Peers : Sync(p) \/ Tidy(p)
    BY <1>2, <2>4, MaintainWitnessed, FanOutsLemma, DueLemma DEF Sync, Tidy
  <2>5. CASE \E p \in Peers : Forget(p)
    BY <2>5 DEF Forget, Witnessed
  <2>6. CASE \/ \E m \in net : LoseRepair(m)
             \/ \E p \in Peers : PassDeadline(p) \/ ChangeView(p)
             \/ \E p, q \in Peers : Disconnected(p, q) \/ Connected(p, q)
             \/ UNCHANGED vars
    <3>1. UNCHANGED <<st, audience, forgot>> /\ \A m \in net' : TruePacket(audience, Self, m)
      <4>1. CASE \E p, q \in Peers : Disconnected(p, q) \/ Connected(p, q)
        BY <1>2, <4>1, LinkWitnessed
      <4>2. CASE ~\E p, q \in Peers : Disconnected(p, q) \/ Connected(p, q)
        <5>1. net' \subseteq net /\ UNCHANGED <<st, audience, forgot>>
          BY <2>6, <4>2 DEF LoseRepair, PassDeadline, ChangeView, vars
        <5> QED
          BY <1>2, <5>1 DEF Witnessed
      <4> QED
        BY <4>1, <4>2
    <3>2. Self' = Self
      BY <3>1 DEF Self, Witnesses, Index
    <3>3. Truth(audience, Self)' = Truth(audience, Self)
      BY <3>1, <3>2 DEF Truth, Index
    <3>4. ASSUME NEW m \in net' PROVE TruePacket(audience, Self, m)'
      BY <3>1, <3>3, <3>4 DEF TruePacket
    <3> QED
      BY <1>2, <3>1, <3>2, <3>3, <3>4 DEF Witnessed
  <2> QED
    BY <2>1, <2>2, <2>3, <2>4, <2>5, <2>6 DEF Next
<1> QED
  BY <1>1, <1>2

(* Positions tell members apart.                                             *)
LEMMA IndexInjective ==
  ASSUME NEW a, a \subseteq Peers, NEW p \in a, NEW q \in a, Index(a, p) = Index(a, q)
  PROVE  p = q
<1> DEFINE Below(r) == {x \in a : x < r}
<1>1. ASSUME NEW x \in a, NEW y \in a, x < y
      PROVE  Index(a, x) # Index(a, y)
  <2> a \subseteq Nat
    BY Assumption
  <2>1. Below(x) \subseteq Below(y) /\ x \in Below(y) /\ x \notin Below(x)
    <3>1. x \in Nat /\ y \in Nat
      OBVIOUS
    <3>2. ASSUME NEW z \in a, z < x PROVE z < y
      <4>1. z \in Nat
        OBVIOUS
      <4> QED
        BY <1>1, <3>1, <3>2, <4>1
    <3>3. Below(x) \subseteq Below(y)
      BY <3>2
    <3>4. x \in Below(y)
      BY <1>1
    <3>5. x \notin Below(x)
      BY <3>1
    <3> QED
      BY <3>3, <3>4, <3>5
  <2>2. IsFiniteSet(Below(y))
    <3>1. Below(y) \subseteq Peers /\ IsFiniteSet(Peers)
      BY Assumption
    <3> QED
      BY <3>1, FS_Subset
  <2>3. Cardinality(Below(x)) # Cardinality(Below(y))
    BY <2>1, <2>2, FS_Subset
  <2> QED
    BY <2>3 DEF Index
<1>2. p \in Nat /\ q \in Nat
  BY Assumption
<1> QED
  BY <1>1, <1>2

LEMMA LeastNumber ==
  ASSUME NEW T, T \subseteq Nat, T # {}
  PROVE  \E x \in T : \A y \in T : x <= y
<1> DEFINE R == {ss \in Nat \X Nat : ss[1] < ss[2]}
<1>1. IsWellFoundedOn(R, Nat)
  <2>1. R = OpToRel(<, Nat)
    BY DEF OpToRel
  <2> QED
    BY <2>1, NatLessThanWellFounded
<1>2. PICK x \in T : \A y \in T : ~(<<y, x>> \in R)
  <2> HIDE DEF R
  <2> QED
    BY <1>1, WFMin
<1>3. ASSUME NEW y \in T
      PROVE  x <= y
  <2>1. x \in Nat /\ y \in Nat
    OBVIOUS
  <2>2. y < x => <<y, x>> \in R
    BY <2>1
  <2> QED
    BY <1>2, <2>1, <2>2
<1> QED
  BY <1>3

(* There is a best candidate.                                                *)
LEMMA BestCandidate ==
  ASSUME NEW C, C \subseteq Peers, C # {}, NEW t \in Peers
  PROVE  \E c \in C : \A d \in C \ {c} : Before(t, c, d)
<1> DEFINE scores == {Score(t, c) : c \in C}
<1>1. scores \subseteq Nat /\ scores # {}
  BY ScoreAssumption
<1>2. PICK x \in scores : \A y \in scores : x <= y
  <2> HIDE DEF scores
  <2> QED
    BY <1>1, LeastNumber
<1> DEFINE ties == {c \in C : Score(t, c) = x}
<1>3. ties \subseteq Nat /\ ties # {}
  BY Assumption
<1>4. PICK c \in ties : \A d \in ties : c <= d
  <2> HIDE DEF ties
  <2> QED
    BY <1>3, LeastNumber
<1>5. ASSUME NEW d \in C \ {c}
      PROVE  Before(t, c, d)
  <2>1. Score(t, c) = x /\ x <= Score(t, d) /\ Score(t, d) \in Nat /\ x \in Nat
    BY <1>1, <1>2, ScoreAssumption
  <2>2. CASE Score(t, d) = x
    BY <1>3, <1>4, <2>1, <2>2 DEF Before
  <2>3. CASE Score(t, d) # x
    BY <2>1, <2>3 DEF Before
  <2> QED
    BY <2>2, <2>3
<1> QED
  BY <1>5

(* The best of a peer's candidates is the one that the peer finds.           *)
LEMMA OwnerLemma ==
  ASSUME NEW s, Delivered(s) \subseteq Peers, NEW t \in Peers, NEW c \in Delivered(s),
         \A d \in Delivered(s) \ {c} : Before(t, c, d)
  PROVE  Owner(s, t) = c
<1>1. ASSUME NEW e \in Delivered(s), \A d \in Delivered(s) \ {e} : Before(t, e, d)
      PROVE  e = c
  <2> SUFFICES ASSUME e # c PROVE FALSE
    OBVIOUS
  <2>1. Before(t, e, c) /\ Before(t, c, e)
    BY <1>1
  <2>2. Score(t, c) \in Nat /\ Score(t, e) \in Nat /\ c \in Nat /\ e \in Nat
    BY ScoreAssumption, Assumption
  <2> QED
    BY <2>1, <2>2 DEF Before
<1> QED
  BY <1>1 DEF Owner

(* As long as nothing has been forgotten there is a holder that regards      *)
(* itself as the one to repair a member that has not got the payload: of the *)
(* peers that witness, the best one knows none but such peers, and itself.   *)
THEOREM SomeoneRepairs == Spec => []RepairerExists
<1>1. Init => Witnessed
  BY DEF Init, Witnessed
<1>2. ASSUME Inv, Witnessed
      PROVE  RepairerExists
  <2> SUFFICES ASSUME forgot = {}, NEW t \in audience \ held
               PROVE  \E p \in held : st[p].kept # {} /\ p \in Delivered(st[p]) /\ Owner(st[p], t) = p
    BY DEF RepairerExists
  <2>1. Self \subseteq Peers /\ Self # {} /\ t \in Peers /\ Self \subseteq audience
    BY <1>2 DEF Witnessed, Self, Inv
  <2>2. PICK c \in Self : \A d \in Self \ {c} : Before(t, c, d)
    BY <2>1, BestCandidate
  <2>3. c \in Peers /\ c \in audience /\ Witnesses(audience, st[c], c)
    BY <2>1 DEF Self
  <2>4. c \in held /\ st[c].kept # {} /\ c \in Delivered(st[c])
    BY <1>2, <2>3 DEF Witnesses, Inv, TrueState, Delivered
  <2>5. Delivered(st[c]) \subseteq Self
    <3> SUFFICES ASSUME NEW q \in Delivered(st[c]) PROVE q \in Self
      OBVIOUS
    <3>1. q \in audience /\ Index(audience, q) \in st[c].bits
      BY <2>3 DEF Delivered, Witnesses
    <3>2. PICK p \in Self : Index(audience, p) = Index(audience, q)
      BY <1>2, <2>3, <3>1 DEF Witnessed, Truth, Witnesses
    <3>3. audience \subseteq Peers
      BY <1>2 DEF Inv
    <3> QED
      BY <2>1, <3>1, <3>2, <3>3, IndexInjective
  <2>6. Owner(st[c], t) = c
    BY <2>1, <2>2, <2>4, <2>5, OwnerLemma
  <2> QED
    BY <2>4, <2>6
<1>3. Inv /\ Witnessed /\ [Next]_vars => Witnessed'
  BY NextWitnessed
<1> QED
  BY Invariance, <1>1, <1>2, <1>3, PTL DEF Spec

=============================================================================
