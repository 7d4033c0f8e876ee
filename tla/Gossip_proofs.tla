---------------------------- MODULE Gossip_proofs ----------------------------
(***************************************************************************)
(* Gossip is type correct, keeps payloads only under logged ids and, when  *)
(* the log outlasts the spread, delivers every broadcast at most once and  *)
(* implements ReliableBroadcast: for all peers, messages, clocks, views    *)
(* and channels.                                                           *)
(*                                                                         *)
(* Neighbours that are in consensus by Consensus see one membership, if    *)
(* the fan-out leaves none of them out for too long: for all peers, views, *)
(* overlays, ages and clocks.                                              *)
(***************************************************************************)
EXTENDS Gossip, Consensus, FiniteSetTheorems, FunctionTheorems,
        WellFoundedInduction, TLAPS

-----------------------------------------------------------------------------
(* What the neighbour selection of FanOut returns, for any neighbourhood.    *)

\* The logarithm of a natural number is one.
LEMMA CeilLog2Type ==
    ASSUME NEW n \in Nat
    PROVE  CeilLog2(n) \in Nat
<1>1. IsFiniteSet(0..n)
  BY FS_Interval
<1>2. {k \in 0..n : 2^k < n} \subseteq 0..n
  OBVIOUS
<1> QED
  BY <1>1, <1>2, FS_Subset, FS_CardinalityType DEF CeilLog2

\* A non-negative remainder.
LEMMA RemainderType ==
    ASSUME NEW a \in Nat, NEW n \in Nat, n > 0
    PROVE  a % n \in Nat /\ a % n < n
  BY Z3

\* A round selects connected peers that are not excluded, and leaves a cursor
\* from which the next one can start.
LEMMA SelectFanoutPeersType ==
    \A connected, excluded, at, liveN :
        IsFiniteSet(connected) /\ at \in Nat /\ liveN \in Nat =>
            /\ SelectFanoutPeers(connected, excluded, at, liveN).peers
                  \subseteq connected \ excluded
            /\ SelectFanoutPeers(connected, excluded, at, liveN).cursor \in Nat
<1> SUFFICES
        ASSUME NEW connected, IsFiniteSet(connected), NEW excluded,
               NEW at \in Nat, NEW liveN \in Nat
        PROVE  /\ SelectFanoutPeers(connected, excluded, at, liveN).peers
                     \subseteq connected \ excluded
               /\ SelectFanoutPeers(connected, excluded, at, liveN).cursor \in Nat
  OBVIOUS
<1> DEFINE eligible == connected \ excluded
           n == Cardinality(eligible)
           degree == Cardinality(connected)
           budget == CecrFanout(degree, liveN)
           count == IF budget < n THEN budget ELSE n
           start == at % n
<1>1. n \in Nat /\ degree \in Nat
  BY FS_Difference, FS_CardinalityType
<1>2. count \in Nat /\ count <= n
  BY <1>1, CeilLog2Type DEF CecrFanout
<1>3. CASE count = 0
  BY <1>3 DEF SelectFanoutPeers
<1>4. CASE count # 0
  <2>1. n > 0
    BY <1>1, <1>2, <1>4
  <2>2. start \in Nat
    BY <1>1, <2>1, RemainderType
  <2>3. start + count \in Nat
    BY <1>2, <2>2
  <2>4. (start + count) % n \in Nat
    BY <1>1, <2>1, <2>3, RemainderType
  <2> QED
    BY <1>4, <2>4 DEF SelectFanoutPeers
<1> QED
  BY <1>3, <1>4

-----------------------------------------------------------------------------
(* The state of Gossip.                                                      *)

Queues(S) == [Peer -> [Peer -> Seq(S)]]
Log == [Msg -> Nat \cup {None}]
Store == [Msg -> Retention \cup {None}]

\* Packets whose payload has been broadcast.
Known == {pkt \in Packet : pkt.type = "gossip" => info[pkt.id] # None}

\* An id is logged after the broadcast of its message, on every clock.
LogFollowsBroadcast ==
    \A p \in Peer, m \in Msg : seenAt[p][m] # None =>
        /\ info[m] # None
        /\ info[m].sentAt + Skew[p] <= seenAt[p][m] + Skew[info[m].sender]

\* A broadcast lies in the past of its sender.
BroadcastBefore ==
    \A m \in Msg : info[m] # None => info[m].sentAt <= Clock(info[m].sender)

IInv ==
    /\ TypeOK
    /\ chan \in Queues(Known)
    /\ LogFollowsBroadcast
    /\ BroadcastBefore
    /\ RetainedAreLogged

\* What has been delivered is still in the log, or past its deadline.
Remembered ==
    \A p \in Peer, m \in Msg : delivered[p][m] > 0 =>
        info[m] # None /\ (seenAt[p][m] # None \/ Expired(p, info[m]))

DInv == AtMostOnce /\ Remembered

-----------------------------------------------------------------------------
(* Queues *)

LEMMA SeqMonotone ==
    ASSUME NEW S, NEW T, S \subseteq T
    PROVE  Seq(S) \subseteq Seq(T)
OBVIOUS

LEMMA QueuesMonotone ==
    ASSUME NEW S, NEW T, S \subseteq T
    PROVE  Queues(S) \subseteq Queues(T)
BY SeqMonotone DEF Queues

LEMMA TransmitQueues ==
    ASSUME NEW S, NEW p \in Peer, NEW queues \in Queues(S),
           NEW out \in [Peer -> Seq(S)]
    PROVE  Transmit(p, queues, out) \in Queues(S)
<1>1. \A q \in Peer : queues[p][q] \in Seq(S) /\ out[q] \in Seq(S)
  BY DEF Queues
<1>2. \A q \in Peer : queues[p][q] \o out[q] \in Seq(S)
  BY <1>1
<1>3. [q \in Peer |-> IF p \in conn[q] THEN queues[p][q] \o out[q]
                      ELSE queues[p][q]] \in [Peer -> Seq(S)]
  BY <1>1, <1>2
<1> QED
  BY <1>3 DEF Transmit, Queues

LEMMA TakenQueues ==
    ASSUME NEW S, chan \in Queues(S), NEW p \in Peer, NEW q \in Peer,
           chan[q][p] # <<>>
    PROVE  Taken(p, q) \in Queues(S) /\ Head(chan[q][p]) \in S
<1>1. chan[q] \in [Peer -> Seq(S)] /\ chan[q][p] \in Seq(S)
  BY DEF Queues
<1>2. Tail(chan[q][p]) \in Seq(S) /\ Head(chan[q][p]) \in S
  BY <1>1
<1>3. [chan[q] EXCEPT ![p] = Tail(@)] \in [Peer -> Seq(S)]
  BY <1>1, <1>2
<1> QED
  BY <1>2, <1>3 DEF Taken, Queues

\* A queue of at most one packet.
LEMMA OnePacket ==
    ASSUME NEW S, NEW pkt \in S
    PROVE  <<pkt>> \in Seq(S) /\ <<>> \in Seq(S)
OBVIOUS

-----------------------------------------------------------------------------
(* Tables *)

LEMMA WithoutType ==
    ASSUME NEW S, NEW f \in [Msg -> S \cup {None}], NEW ids
    PROVE  /\ Without(f, ids) \in [Msg -> S \cup {None}]
           /\ \A m \in Msg : Without(f, ids)[m] = IF m \in ids THEN None ELSE f[m]
BY DEF Without

LEMMA ClockType ==
    ASSUME TypeOK
    PROVE  /\ now \in Nat /\ \A p \in Peer : Skew[p] \in Nat /\ Clock(p) \in Nat
           /\ None \notin Nat /\ None \notin Envelope /\ None \notin Retention
BY GossipAssumption DEF TypeOK, Clock, Envelope, Retention

LEMMA RetainType ==
    ASSUME TypeOK, NEW p \in Peer, NEW m \in Msg, NEW hops \in Nat,
           NEW ret \in Retain(p, m, hops)
    PROVE  ret \in Store /\ Present(ret) \subseteq Present(retained[p]) \cup {m}
<1>1. retained[p] \in Store /\ Clock(p) \in Nat /\ view[p] \in SUBSET Peer
  BY GossipAssumption DEF TypeOK, Clock, Store
<1>2. CASE retained[p][m] # None
  BY <1>1, <1>2 DEF Retain
<1>3. CASE retained[p][m] = None
  <2> DEFINE entry == [hops |-> hops, at |-> Clock(p), view |-> view[p]]
             kept == [retained[p] EXCEPT ![m] = entry]
  <2>1. entry \in Retention
    BY <1>1 DEF Retention
  <2>2. kept \in Store /\ Present(kept) \subseteq Present(retained[p]) \cup {m}
    BY <1>1, <2>1 DEF Store, Present
  <2>3. ret = kept \/ \E x : ret = Without(kept, {x})
    BY <1>3 DEF Retain
  <2> HIDE DEF kept
  <2>4. CASE ret = kept
    BY <2>2, <2>4
  <2>5. ASSUME NEW x, ret = Without(kept, {x})
        PROVE  ret \in Store /\ Present(ret) \subseteq Present(kept)
    <3>1. /\ Without(kept, {x}) \in Store
          /\ \A y \in Msg : Without(kept, {x})[y] = IF y \in {x} THEN None
                                                     ELSE kept[y]
      BY <2>2, WithoutType DEF Store
    <3> QED
      BY <2>5, <3>1 DEF Present
  <2> QED
    BY <2>2, <2>3, <2>4, <2>5
<1> QED
  BY <1>2, <1>3

\* Pruning only drops entries, drops payloads with their log entries, and
\* spares the new id m.
LEMMA PruneType ==
    ASSUME TypeOK, NEW p \in Peer, NEW log \in Log, NEW ret \in Store, NEW env,
           NEW m, m \in Msg => log[m] = None \/ log[m] = Clock(p),
           NEW t \in Prune(p, log, ret, env, m)
    PROVE  /\ t.log \in Log /\ t.ret \in Store
           /\ \A x \in Msg : t.log[x] = None \/ t.log[x] = log[x]
           /\ \A x \in Msg : t.ret[x] = None \/ t.ret[x] = ret[x]
           /\ \A x \in Msg : t.log[x] = None => log[x] = None \/ t.ret[x] = None
           /\ m \in Msg => t.log[m] = log[m]
<1> DEFINE old == {x \in Present(log) : log[x] < Clock(p) - TrackingRetention}
           log1 == Without(log, old)
           stale == {x \in Present(ret) :
                        \/ ret[x].at < Clock(p) - TrackingRetention
                        \/ Expired(p, env[x])}
<1>1. PICK v : /\ t = [log |-> Without(log1, v),
                      ret |-> Without(ret, old \cup v \cup stale)]
              /\ m \notin v
  BY DEF Prune, OldestPresent
<1>2. m \in Msg => m \notin old
  <2>1. Clock(p) \in Nat /\ TrackingRetention \in Nat
    BY GossipAssumption DEF TypeOK, Clock
  <2> QED
    BY <2>1 DEF Present
<1> HIDE DEF old, stale
<1>3. /\ log1 \in Log
      /\ \A x \in Msg : log1[x] = IF x \in old THEN None ELSE log[x]
  BY WithoutType DEF Log
<1> HIDE DEF log1
<1>4. /\ t.log \in Log
      /\ \A x \in Msg : t.log[x] = IF x \in v THEN None ELSE log1[x]
  <2>1. t.log = Without(log1, v)
    BY <1>1
  <2> QED
    BY <1>3, <2>1, WithoutType DEF Log
<1>5. /\ t.ret \in Store
      /\ \A x \in Msg : t.ret[x] = IF x \in old \cup v \cup stale THEN None
                                   ELSE ret[x]
  BY <1>1, WithoutType DEF Store
<1> QED
  BY <1>1, <1>2, <1>3, <1>4, <1>5

\* Logging m adds m; payloads stay under logged ids.
LEMMA LogMessageType ==
    ASSUME TypeOK, NEW p \in Peer, NEW ret \in Store, NEW env, NEW m \in Msg,
           NEW t \in LogMessage(p, ret, env, m)
    PROVE  /\ t.log \in Log /\ t.ret \in Store
           /\ \A x \in Msg \ {m} : t.log[x] = None \/ t.log[x] = seenAt[p][x]
           /\ t.log[m] = Clock(p)
           /\ \A x \in Msg : t.ret[x] = None \/ t.ret[x] = ret[x]
           /\ \A x \in Msg \ {m} :
                 t.log[x] = None => seenAt[p][x] = None \/ t.ret[x] = None
<1> DEFINE log == [seenAt[p] EXCEPT ![m] = Clock(p)]
<1>1. /\ seenAt[p] \in Log /\ Clock(p) \in Nat /\ log \in Log
      /\ log[m] = Clock(p) /\ \A x \in Msg \ {m} : log[x] = seenAt[p][x]
  BY GossipAssumption DEF TypeOK, Clock, Log
<1>2. t = [log |-> log, ret |-> ret] \/ t \in Prune(p, log, ret, env, m)
  BY DEF LogMessage
<1> HIDE DEF log
<1>3. CASE t = [log |-> log, ret |-> ret]
  BY <1>1, <1>3
<1>4. CASE t \in Prune(p, log, ret, env, m)
  <2>1. /\ t.log \in Log /\ t.ret \in Store
        /\ \A x \in Msg : t.log[x] = None \/ t.log[x] = log[x]
        /\ \A x \in Msg : t.ret[x] = None \/ t.ret[x] = ret[x]
        /\ \A x \in Msg : t.log[x] = None => log[x] = None \/ t.ret[x] = None
        /\ t.log[m] = log[m]
    BY <1>1, <1>4, PruneType
  <2> QED
    BY <1>1, <2>1
<1> QED
  BY <1>2, <1>3, <1>4

-----------------------------------------------------------------------------
(* Packets sent *)

LEMMA PropagateType ==
    ASSUME TypeOK, NEW p \in Peer, NEW m \in Msg, NEW hops, NEW excluded, NEW S,
           [type |-> "gossip", id |-> m, hops |-> hops + 1, repair |-> FALSE] \in S
    PROVE  /\ Propagate(p, m, hops, excluded).out \in [Peer -> Seq(S)]
           /\ Propagate(p, m, hops, excluded).cursor
                 \in [gossip : Nat, antiEntropy : Nat]
<1> DEFINE sel == SelectFanoutPeers(conn[p], excluded, cursor[p].gossip,
                                    Cardinality(view[p]))
           pkt == [type |-> "gossip", id |-> m, hops |-> hops + 1,
                   repair |-> FALSE]
           out == [q \in Peer |-> IF q \in sel.peers THEN <<pkt>> ELSE <<>>]
<1>1. /\ IsFiniteSet(conn[p]) /\ Cardinality(view[p]) \in Nat
      /\ cursor[p].gossip \in Nat /\ cursor[p].antiEntropy \in Nat
  BY GossipAssumption, FS_Subset, FS_CardinalityType DEF TypeOK
<1>2. sel.cursor \in Nat
  BY <1>1, SelectFanoutPeersType
<1>3. out \in [Peer -> Seq(S)]
  BY OnePacket
<1> HIDE DEF sel
<1>4. Propagate(p, m, hops, excluded) =
         [out |-> out, cursor |-> [gossip |-> sel.cursor,
                                   antiEntropy |-> cursor[p].antiEntropy]]
  BY DEF Propagate, sel
<1> QED
  BY <1>1, <1>2, <1>3, <1>4

LEMMA SummariesType ==
    ASSUME TypeOK, NEW p \in Peer, NEW targets, NEW out \in Summaries(p, targets)
    PROVE  out \in [Peer -> Seq(Known)]
<1>1. PICK ids \in RecentRetained(p, p) :
         out = [q \in Peer |-> IF q \in targets /\ q \in view[p] /\ ids # {}
                               THEN <<[type |-> "summary", ids |-> ids]>>
                               ELSE <<>>]
  BY DEF Summaries
<1>2. ids \subseteq Msg
  BY DEF RecentRetained, Present
<1>3. [type |-> "summary", ids |-> ids] \in Known
  BY <1>2 DEF Known, Packet, AntiEntropyPacket
<1> QED
  BY <1>1, <1>3, OnePacket

\* A summary round leaves the queues and the cursors well formed.
LEMMA PublishToFanOutType ==
    ASSUME TypeOK, chan \in Queues(Known), NEW p \in Peer, PublishToFanOut(p)
    PROVE  /\ chan' \in Queues(Known)
           /\ cursor' \in [Peer -> [gossip : Nat, antiEntropy : Nat]]
<1> DEFINE sel == SelectFanoutPeers(conn[p], {}, cursor[p].antiEntropy,
                                    Cardinality(view[p]))
<1>1. /\ IsFiniteSet(conn[p]) /\ Cardinality(view[p]) \in Nat
      /\ cursor[p].gossip \in Nat /\ cursor[p].antiEntropy \in Nat
      /\ cursor \in [Peer -> [gossip : Nat, antiEntropy : Nat]]
  BY GossipAssumption, FS_Subset, FS_CardinalityType DEF TypeOK
<1>2. sel.cursor \in Nat
  BY <1>1, SelectFanoutPeersType
<1>3. PICK out \in Summaries(p, sel.peers) : chan' = Transmit(p, chan, out)
  BY DEF PublishToFanOut
<1>4. cursor' = [cursor EXCEPT ![p] = [gossip |-> cursor[p].gossip,
                                       antiEntropy |-> sel.cursor]]
  BY DEF PublishToFanOut
<1> HIDE DEF sel
<1>5. chan' \in Queues(Known)
  BY <1>3, SummariesType, TransmitQueues
<1>6. cursor' \in [Peer -> [gossip : Nat, antiEntropy : Nat]]
  BY <1>1, <1>2, <1>4
<1> QED
  BY <1>5, <1>6

-----------------------------------------------------------------------------
(* IInv is inductive *)

LEMMA InitIInv == Init => IInv
<1> SUFFICES ASSUME Init PROVE IInv
  OBVIOUS
<1>1. chan \in Queues(Known)
  BY DEF Init, Queues
<1>2. TypeOK
  <2>1. <<>> \in Seq(Packet)
    OBVIOUS
  <2> QED
    BY <2>1, GossipAssumption DEF Init, TypeOK
<1>3. LogFollowsBroadcast /\ BroadcastBefore /\ RetainedAreLogged
  BY DEF Init, LogFollowsBroadcast, BroadcastBefore, RetainedAreLogged, Present
<1> QED
  BY <1>1, <1>2, <1>3 DEF IInv

\* Steps that touch neither envelopes nor tables nor deliveries.
LEMMA QuietStep ==
    ASSUME IInv, UNCHANGED <<info, seenAt, retained, delivered>>,
           now' \in Nat, now <= now', chan' \in Queues(Known),
           conn' \in [Peer -> SUBSET Peer], view' \in [Peer -> SUBSET Peer],
           queued' \in [Peer -> BOOLEAN], faults' \in Nat,
           cursor' \in [Peer -> [gossip : Nat, antiEntropy : Nat]]
    PROVE  IInv'
<1>1. Known' = Known
  BY DEF Known
<1>2. Queues(Known') = Queues(Known) /\ chan' \in Queues(Known')
  BY <1>1
<1>3. chan' \in [Peer -> [Peer -> Seq(Packet)]]
  <2>1. Known \subseteq Packet
    BY DEF Known
  <2> QED
    BY <2>1, QueuesMonotone DEF Queues
<1>4. TypeOK'
  BY <1>3 DEF IInv, TypeOK
<1>5. LogFollowsBroadcast' /\ RetainedAreLogged'
  BY DEF IInv, LogFollowsBroadcast, RetainedAreLogged, Present
<1>6. BroadcastBefore'
  <2> SUFFICES ASSUME NEW m \in Msg, info[m] # None
               PROVE  info[m].sentAt <= now' + Skew[info[m].sender]
    BY DEF BroadcastBefore, Clock
  <2>1. info[m] \in Envelope /\ info[m].sentAt <= now + Skew[info[m].sender]
    BY DEF IInv, TypeOK, BroadcastBefore, Clock
  <2>2. info[m].sender \in Peer /\ info[m].sentAt \in Nat
    BY <2>1 DEF Envelope
  <2>3. Skew[info[m].sender] \in Nat /\ now \in Nat
    BY <2>2, ClockType DEF IInv
  <2> QED
    BY <2>1, <2>2, <2>3
<1> QED
  BY <1>2, <1>4, <1>5, <1>6 DEF IInv, Queues

\* What IInv says about the head of a queue.
LEMMA ArrivedPacket ==
    ASSUME IInv, NEW p \in Peer, NEW q \in Peer, chan[q][p] # <<>>
    PROVE  /\ Taken(p, q) \in Queues(Known)
           /\ Head(chan[q][p]) \in Known
           /\ Head(chan[q][p]).type = "gossip" =>
                 /\ Head(chan[q][p]).id \in Msg /\ Head(chan[q][p]).hops \in Nat
                 /\ info[Head(chan[q][p]).id] # None
                 /\ info[Head(chan[q][p]).id] \in Envelope
           /\ Head(chan[q][p]).type # "gossip" => Head(chan[q][p]).ids \subseteq Msg
<1>1. Taken(p, q) \in Queues(Known) /\ Head(chan[q][p]) \in Known
  BY TakenQueues DEF IInv
<1>2. ASSUME NEW pkt \in Known
      PROVE  /\ pkt.type = "gossip" => /\ pkt.id \in Msg /\ pkt.hops \in Nat
                                       /\ info[pkt.id] # None
                                       /\ info[pkt.id] \in Envelope
             /\ pkt.type # "gossip" => pkt.ids \subseteq Msg
  BY DEF Known, Packet, GossipPacket, AntiEntropyPacket, IInv, TypeOK
<1> QED
  BY <1>1, <1>2

LEMMA AntiEntropyStep ==
    ASSUME IInv, NEW p \in Peer, NEW q \in Peer,
           ReceiveSummary(p, q) \/ ReceiveRequest(p, q)
    PROVE  IInv'
<1>1. /\ UNCHANGED <<now, conn, view, info, seenAt, retained, queued, cursor,
                     delivered, faults>>
      /\ chan[q][p] # <<>> /\ Head(chan[q][p]).type # "gossip"
  BY DEF ReceiveSummary, ReceiveRequest, Arrived
<1>2. Taken(p, q) \in Queues(Known) /\ Head(chan[q][p]).ids \subseteq Msg
  BY <1>1, ArrivedPacket
<1>3. chan' \in Queues(Known)
  <2>1. CASE ReceiveSummary(p, q)
    <3>1. PICK ids :
             /\ ids \subseteq Head(chan[q][p]).ids
             /\ chan' = Transmit(p, Taken(p, q),
                          [Silence EXCEPT ![q] =
                             IF ids = {} THEN <<>>
                             ELSE <<[type |-> "request", ids |-> ids]>>])
      BY <2>1 DEF ReceiveSummary
    <3>2. [type |-> "request", ids |-> ids] \in Known
      BY <1>2, <3>1 DEF Known, Packet, AntiEntropyPacket
    <3>3. [Silence EXCEPT ![q] =
             IF ids = {} THEN <<>> ELSE <<[type |-> "request", ids |-> ids]>>]
             \in [Peer -> Seq(Known)]
      BY <3>2, OnePacket DEF Silence
    <3> QED
      BY <1>2, <3>1, <3>3, TransmitQueues
  <2>2. CASE ReceiveRequest(p, q)
    <3> DEFINE ids == {m \in Head(chan[q][p]).ids :
                          retained[p][m] # None /\ CanRepair(p, m, q)}
               served(order) ==
                  [i \in 1..Cardinality(ids) |->
                     [type |-> "gossip", id |-> order[i],
                      hops |-> retained[p][order[i]].hops + 1,
                      repair |-> TRUE]]
    <3>1. PICK order \in [1..Cardinality(ids) -> ids] :
             chan' = Transmit(p, Taken(p, q),
                              [Silence EXCEPT ![q] = served(order)])
      BY <2>2 DEF ReceiveRequest
    <3>2. ids \subseteq Msg /\ Cardinality(ids) \in Nat
      <4>1. ids \subseteq Msg
        BY <1>2
      <4> QED
        BY <4>1, GossipAssumption, FS_Subset, FS_CardinalityType
    <3>3. ASSUME NEW m \in ids
          PROVE  [type |-> "gossip", id |-> m, hops |-> retained[p][m].hops + 1,
                  repair |-> TRUE] \in Known
      <4>1. m \in Msg /\ retained[p][m] # None
        BY <3>2
      <4>2. retained[p][m] \in Retention /\ info[m] # None
        BY <4>1 DEF IInv, TypeOK, RetainedAreLogged, Present, LogFollowsBroadcast
      <4> QED
        BY <4>1, <4>2 DEF Known, Packet, GossipPacket, Retention
    <3> HIDE DEF ids
    <3>4. served(order) \in Seq(Known)
      <4>1. \A i \in 1..Cardinality(ids) : order[i] \in ids
        OBVIOUS
      <4>2. served(order) \in [1..Cardinality(ids) -> Known]
        BY <3>3, <4>1
      <4> QED
        BY <3>2, <4>2
    <3> HIDE DEF served
    <3>5. [Silence EXCEPT ![q] = served(order)] \in [Peer -> Seq(Known)]
      <4>1. Silence \in [Peer -> Seq(Known)]
        BY DEF Silence
      <4> QED
        BY <3>4, <4>1
    <3> QED
      BY <1>2, <3>1, <3>5, TransmitQueues
  <2> QED
    BY <2>1, <2>2
<1>4. /\ now' \in Nat /\ now <= now' /\ faults' \in Nat
      /\ conn' \in [Peer -> SUBSET Peer] /\ view' \in [Peer -> SUBSET Peer]
      /\ cursor' \in [Peer -> [gossip : Nat, antiEntropy : Nat]]
  BY <1>1 DEF IInv, TypeOK
<1>5. queued' \in [Peer -> BOOLEAN]
  BY <1>1 DEF IInv, TypeOK
<1> QED
  BY <1>1, <1>3, <1>4, <1>5, QuietStep

LEMMA DropLateStep ==
    ASSUME IInv, NEW p \in Peer, NEW q \in Peer, DropLate(p, q)
    PROVE  IInv'
<1>1. chan' \in Queues(Known)
  BY ArrivedPacket DEF DropLate, Arrived
<1> QED
  BY <1>1, QuietStep DEF DropLate, IInv, TypeOK

LEMMA PublishStep ==
    ASSUME IInv, NEW p \in Peer, RepairMicrotask(p) \/ SyncTimer(p)
    PROVE  IInv'
<1>1. /\ PublishToFanOut(p)
      /\ UNCHANGED <<now, conn, view, info, seenAt, retained, delivered, faults>>
      /\ queued' = queued \/ queued' = [queued EXCEPT ![p] = FALSE]
  BY DEF RepairMicrotask, SyncTimer
<1>2. /\ chan' \in Queues(Known)
      /\ cursor' \in [Peer -> [gossip : Nat, antiEntropy : Nat]]
  BY <1>1, PublishToFanOutType DEF IInv
<1>3. /\ now' \in Nat /\ now <= now' /\ faults' \in Nat
      /\ conn' \in [Peer -> SUBSET Peer] /\ view' \in [Peer -> SUBSET Peer]
  BY <1>1 DEF IInv, TypeOK
<1>4. queued' \in [Peer -> BOOLEAN]
  <2>1. queued \in [Peer -> BOOLEAN]
    BY DEF IInv, TypeOK
  <2> QED
    BY <1>1, <2>1, Zenon
<1> QED
  BY <1>1, <1>2, <1>3, <1>4, QuietStep

LEMMA MeshStep ==
    ASSUME IInv, NEW p \in Peer, NEW q \in Peer,
           PeerConnected(p, q) \/ PeerDisconnected(p, q)
    PROVE  IInv'
<1>1. /\ UNCHANGED <<now, view, info, seenAt, retained, queued, cursor, delivered>>
      /\ conn' \in [Peer -> SUBSET Peer] /\ faults' \in Nat
  <2>1. faults \in Nat /\ conn \in [Peer -> SUBSET Peer]
    BY DEF IInv, TypeOK
  <2>2. CASE PeerConnected(p, q)
    BY <2>1, <2>2 DEF PeerConnected
  <2>3. CASE PeerDisconnected(p, q)
    BY <2>1, <2>3 DEF PeerDisconnected
  <2> QED
    BY <2>2, <2>3
<1>2. chan' \in Queues(Known)
  <2>1. CASE PeerConnected(p, q)
    BY <2>1, SummariesType, TransmitQueues DEF PeerConnected, IInv
  <2>2. CASE PeerDisconnected(p, q)
    <3>1. chan[q] \in [Peer -> Seq(Known)] /\ <<>> \in Seq(Known)
      BY DEF IInv, Queues
    <3>2. [chan[q] EXCEPT ![p] = <<>>] \in [Peer -> Seq(Known)]
      BY <3>1
    <3> QED
      BY <2>2, <3>2 DEF PeerDisconnected, IInv, Queues
  <2> QED
    BY <2>1, <2>2
<1> QED
  BY <1>1, <1>2, QuietStep DEF IInv, TypeOK

LEMMA ViewStep ==
    ASSUME IInv, NEW p \in Peer, NEW v \in Views, ViewChanged(p, v)
    PROVE  IInv'
<1>1. view' \in [Peer -> SUBSET Peer] /\ faults' \in Nat
  BY GossipAssumption DEF ViewChanged, IInv, TypeOK
<1> QED
  BY <1>1, QuietStep DEF ViewChanged, IInv, TypeOK

LEMMA TickStep ==
    ASSUME IInv, Tick
    PROVE  IInv'
BY QuietStep DEF Tick, IInv, TypeOK

\* The tables of p become log and ret: entries go, or are stamped with the
\* peer's clock, and no payload stays without its log entry.
TablesBecome(p, log, ret) ==
    /\ seenAt' = [seenAt EXCEPT ![p] = log]
    /\ retained' = [retained EXCEPT ![p] = ret]
    /\ \A m \in Msg : \/ log[m] = None \/ log[m] = seenAt[p][m]
                      \/ log[m] = Clock(p) /\ info'[m] # None
    /\ \A m \in Msg : log[m] = None => ret[m] = None

LEMMA TablesStep ==
    ASSUME IInv, UNCHANGED <<now, conn, view, faults>>,
           info' \in [Msg -> Envelope \cup {None}], BroadcastBefore',
           \A m \in Msg : info[m] # None => info'[m] = info[m],
           chan' \in Queues(Known'), queued' \in [Peer -> BOOLEAN],
           cursor' \in [Peer -> [gossip : Nat, antiEntropy : Nat]],
           delivered' \in [Peer -> [Msg -> Nat]],
           NEW p \in Peer,
           \E log \in Log, ret \in Store : TablesBecome(p, log, ret)
    PROVE  IInv'
<1> PICK log \in Log, ret \in Store : TablesBecome(p, log, ret)
  OBVIOUS
<1> USE DEF TablesBecome
<1>1. chan' \in [Peer -> [Peer -> Seq(Packet)]]
  <2>1. Known' \subseteq Packet
    BY DEF Known
  <2> QED
    BY <2>1, QueuesMonotone DEF Queues
<1>2. seenAt \in [Peer -> Log] /\ retained \in [Peer -> Store]
  BY DEF IInv, TypeOK, Log, Store
<1>3. seenAt' \in [Peer -> Log] /\ retained' \in [Peer -> Store]
  BY <1>2
<1>4. TypeOK'
  BY <1>1, <1>3 DEF IInv, TypeOK, Log, Store
<1>5. RetainedAreLogged'
  BY <1>2 DEF IInv, RetainedAreLogged, Present
<1>6. LogFollowsBroadcast'
  <2> SUFFICES ASSUME NEW q \in Peer, NEW m \in Msg, seenAt'[q][m] # None
               PROVE  /\ info'[m] # None
                      /\ info'[m].sentAt + Skew[q]
                            <= seenAt'[q][m] + Skew[info'[m].sender]
    BY DEF LogFollowsBroadcast
  <2>1. CASE seenAt'[q][m] = seenAt[q][m]
    BY <2>1 DEF IInv, LogFollowsBroadcast
  <2>2. CASE seenAt'[q][m] # seenAt[q][m]
    <3>1. q = p /\ seenAt'[q][m] = Clock(p) /\ info'[m] # None
      BY <1>2, <2>2
    <3>2. info'[m] \in Envelope /\ info'[m].sentAt <= now + Skew[info'[m].sender]
      BY <3>1 DEF BroadcastBefore, Clock
    <3>3. info'[m].sender \in Peer /\ info'[m].sentAt \in Nat
      BY <3>2 DEF Envelope
    <3>4. now \in Nat /\ Skew[q] \in Nat /\ Skew[info'[m].sender] \in Nat
      BY <3>3, ClockType DEF IInv
    <3>5. seenAt'[q][m] = now + Skew[q]
      BY <3>1 DEF Clock
    <3> QED
      BY <3>1, <3>2, <3>3, <3>4, <3>5
  <2> QED
    BY <2>1, <2>2
<1> QED
  BY <1>4, <1>5, <1>6 DEF IInv, Queues

LEMMA CleanupStep ==
    ASSUME IInv, NEW p \in Peer, NEW age, Cleanup(p, age)
    PROVE  IInv'
<1> DEFINE old == {m \in Present(seenAt[p]) : Clock(p) - seenAt[p][m] > age}
           log == Without(seenAt[p], old)
           ret == Without(retained[p], old)
<1>1. /\ UNCHANGED <<now, conn, view, chan, info, queued, cursor, delivered,
                     faults>>
      /\ seenAt' = [seenAt EXCEPT ![p] = log]
      /\ retained' = [retained EXCEPT ![p] = ret]
  BY DEF Cleanup
<1>2. /\ seenAt[p] \in Log /\ retained[p] \in Store
      /\ \A m \in Msg : seenAt[p][m] = None => retained[p][m] = None
  BY DEF IInv, TypeOK, Log, Store, RetainedAreLogged, Present
<1> HIDE DEF old
<1>3. /\ log \in Log
      /\ \A m \in Msg : log[m] = IF m \in old THEN None ELSE seenAt[p][m]
  BY <1>2, WithoutType DEF Log
<1>4. /\ ret \in Store
      /\ \A m \in Msg : ret[m] = IF m \in old THEN None ELSE retained[p][m]
  BY <1>2, WithoutType DEF Store
<1>5. Known' = Known /\ BroadcastBefore'
  BY <1>1 DEF Known, IInv, BroadcastBefore, Clock
<1>6. /\ chan' \in Queues(Known') /\ info' \in [Msg -> Envelope \cup {None}]
      /\ queued' \in [Peer -> BOOLEAN] /\ delivered' \in [Peer -> [Msg -> Nat]]
      /\ cursor' \in [Peer -> [gossip : Nat, antiEntropy : Nat]]
  BY <1>1, <1>5 DEF IInv, TypeOK, Queues
<1> HIDE DEF log, ret
<1>7. TablesBecome(p, log, ret)
  BY <1>1, <1>2, <1>3, <1>4 DEF TablesBecome
<1>8. \A m \in Msg : info[m] # None => info'[m] = info[m]
  BY <1>1
<1> QED
  BY <1>1, <1>3, <1>4, <1>5, <1>6, <1>7, <1>8, TablesStep

LEMMA PruneTimerStep ==
    ASSUME IInv, NEW p \in Peer, PruneTimer(p)
    PROVE  IInv'
<1>1. PICK t \in Prune(p, seenAt[p], retained[p], info, None) :
         /\ seenAt' = [seenAt EXCEPT ![p] = t.log]
         /\ retained' = [retained EXCEPT ![p] = t.ret]
  BY DEF PruneTimer
<1>2. UNCHANGED <<now, conn, view, chan, info, queued, cursor, delivered, faults>>
  BY DEF PruneTimer
<1>3. /\ TypeOK /\ seenAt[p] \in Log /\ retained[p] \in Store
      /\ \A m \in Msg : seenAt[p][m] = None => retained[p][m] = None
  BY DEF IInv, TypeOK, Log, Store, RetainedAreLogged, Present
<1>4. None \in Msg => seenAt[p][None] = None \/ seenAt[p][None] = Clock(p)
  BY GossipAssumption
<1>5. /\ t.log \in Log /\ t.ret \in Store
      /\ \A m \in Msg : t.log[m] = None \/ t.log[m] = seenAt[p][m]
      /\ \A m \in Msg : t.ret[m] = None \/ t.ret[m] = retained[p][m]
      /\ \A m \in Msg : t.log[m] = None => seenAt[p][m] = None \/ t.ret[m] = None
  BY <1>1, <1>3, <1>4, PruneType
<1>6. \A m \in Msg : t.log[m] = None => t.ret[m] = None
  BY <1>3, <1>5
<1>7. Known' = Known /\ BroadcastBefore'
  BY <1>2 DEF Known, IInv, BroadcastBefore, Clock
<1>8. /\ chan' \in Queues(Known') /\ info' \in [Msg -> Envelope \cup {None}]
      /\ queued' \in [Peer -> BOOLEAN] /\ delivered' \in [Peer -> [Msg -> Nat]]
      /\ cursor' \in [Peer -> [gossip : Nat, antiEntropy : Nat]]
  BY <1>2, <1>7 DEF IInv, TypeOK, Queues
<1>9. TablesBecome(p, t.log, t.ret)
  BY <1>1, <1>5, <1>6 DEF TablesBecome
<1>10. \A m \in Msg : info[m] # None => info'[m] = info[m]
  BY <1>2
<1> QED
  BY <1>2, <1>5, <1>7, <1>8, <1>9, <1>10, TablesStep

LEMMA ReceiveDuplicateStep ==
    ASSUME IInv, NEW p \in Peer, NEW q \in Peer, ReceiveDuplicate(p, q)
    PROVE  IInv'
<1> DEFINE pkt == Head(chan[q][p])
<1>1. /\ chan[q][p] # <<>> /\ pkt.type = "gossip"
      /\ seenAt[p][pkt.id] # None
      /\ chan' = Taken(p, q)
      /\ UNCHANGED <<now, conn, view, info, seenAt, cursor, delivered, faults>>
  BY DEF ReceiveDuplicate, Arrived
<1>2. PICK ret \in Retain(p, pkt.id, pkt.hops) :
         retained' = [retained EXCEPT ![p] = ret]
  BY DEF ReceiveDuplicate
<1>3. Taken(p, q) \in Queues(Known) /\ pkt.id \in Msg /\ pkt.hops \in Nat
  BY <1>1, ArrivedPacket
<1>4. /\ TypeOK /\ seenAt[p] \in Log /\ seenAt' = [seenAt EXCEPT ![p] = seenAt[p]]
      /\ Present(retained[p]) \subseteq Present(seenAt[p])
  BY <1>1 DEF IInv, TypeOK, Log, RetainedAreLogged
<1> HIDE DEF pkt
<1>5. ret \in Store /\ Present(ret) \subseteq Present(retained[p]) \cup {pkt.id}
  BY <1>2, <1>3, <1>4, RetainType
<1>6. \A m \in Msg : seenAt[p][m] = None => ret[m] = None
  BY <1>1, <1>4, <1>5 DEF Present
<1>7. Known' = Known /\ BroadcastBefore'
  BY <1>1 DEF Known, IInv, BroadcastBefore, Clock
<1>8. /\ chan' \in Queues(Known') /\ info' \in [Msg -> Envelope \cup {None}]
      /\ delivered' \in [Peer -> [Msg -> Nat]]
      /\ cursor' \in [Peer -> [gossip : Nat, antiEntropy : Nat]]
  BY <1>1, <1>3, <1>7 DEF IInv, TypeOK
<1>9. queued' \in [Peer -> BOOLEAN]
  <2>1. queued' = [queued EXCEPT ![p] = (retained[p][Head(chan[q][p]).id] = None)]
    BY DEF ReceiveDuplicate
  <2>2. queued \in [Peer -> BOOLEAN]
    BY DEF IInv, TypeOK
  <2>3. (retained[p][Head(chan[q][p]).id] = None) \in BOOLEAN
    OBVIOUS
  <2> QED
    BY <2>1, <2>2, <2>3, Zenon
<1>10. TablesBecome(p, seenAt[p], ret)
  BY <1>2, <1>4, <1>6 DEF TablesBecome
<1>11. \A m \in Msg : info[m] # None => info'[m] = info[m]
  BY <1>1
<1> QED
  BY <1>1, <1>4, <1>5, <1>7, <1>8, <1>9, <1>10, <1>11, TablesStep

\* Retaining and logging m, as broadcast and a first receipt do.
LEMMA LogAndRetain ==
    ASSUME IInv, NEW p \in Peer, NEW m \in Msg, NEW hops \in Nat,
           info'[m] # None,
           NEW ret \in Retain(p, m, hops), NEW env,
           NEW t \in LogMessage(p, ret, env, m),
           seenAt' = [seenAt EXCEPT ![p] = t.log],
           retained' = [retained EXCEPT ![p] = t.ret]
    PROVE  t.log \in Log /\ t.ret \in Store /\ TablesBecome(p, t.log, t.ret)
<1>1. /\ TypeOK
      /\ \A x \in Msg : seenAt[p][x] = None => retained[p][x] = None
  BY DEF IInv, RetainedAreLogged, Present
<1>2. ret \in Store /\ Present(ret) \subseteq Present(retained[p]) \cup {m}
  BY <1>1, RetainType
<1>3. /\ t.log \in Log /\ t.ret \in Store
      /\ \A x \in Msg \ {m} : t.log[x] = None \/ t.log[x] = seenAt[p][x]
      /\ t.log[m] = Clock(p)
      /\ \A x \in Msg : t.ret[x] = None \/ t.ret[x] = ret[x]
      /\ \A x \in Msg \ {m} :
            t.log[x] = None => seenAt[p][x] = None \/ t.ret[x] = None
  BY <1>1, <1>2, LogMessageType
<1>4. \A x \in Msg : t.log[x] = None => t.ret[x] = None
  <2> SUFFICES ASSUME NEW x \in Msg, t.log[x] = None
               PROVE  t.ret[x] = None
    OBVIOUS
  <2>1. x # m
    BY <1>1, <1>3, ClockType
  <2>2. seenAt[p][x] = None => ret[x] = None
    BY <1>1, <1>2, <2>1 DEF Present
  <2> QED
    BY <1>3, <2>1, <2>2
<1> QED
  BY <1>3, <1>4 DEF TablesBecome

LEMMA HopBudgetType ==
    ASSUME TypeOK, NEW p \in Peer
    PROVE  HopBudget(p) \in Nat
<1>1. Cardinality(conn[p]) \in Nat /\ Cardinality(view[p]) \in Nat
  BY GossipAssumption, FS_Subset, FS_CardinalityType DEF TypeOK
<1>2. MaxHops \in Nat
  BY GossipAssumption
<1> DEFINE size == MaxOf(Cardinality(conn[p]), MaxOf(Cardinality(view[p]) - 1, 1))
<1>3. size \in Int /\ size >= Cardinality(conn[p])
  BY <1>1 DEF MaxOf
<1> HIDE DEF size
<1>4. MaxOf(MaxHops, size * 2) \in Nat
  BY <1>1, <1>2, <1>3 DEF MaxOf
<1> QED
  BY <1>4 DEF HopBudget, size

LEMMA BroadcastStep ==
    ASSUME IInv, NEW p \in Peer, NEW m \in Msg, Broadcast(p, m)
    PROVE  IInv'
<1> DEFINE entry == [sender |-> p, sentAt |-> Clock(p), view |-> view[p],
                     maxHops |-> HopBudget(p)]
           pkt == [type |-> "gossip", id |-> m, hops |-> 0 + 1, repair |-> FALSE]
           spread == Propagate(p, m, 0, {p})
<1>1. /\ info[m] = None /\ info' = [info EXCEPT ![m] = entry]
      /\ chan' = Transmit(p, chan, spread.out)
      /\ cursor' = [cursor EXCEPT ![p] = spread.cursor]
      /\ queued' = [queued EXCEPT ![p] = TRUE]
      /\ delivered' = [delivered EXCEPT ![p] = [delivered[p] EXCEPT ![m] = @ + 1]]
      /\ UNCHANGED <<now, conn, view, faults>>
  BY DEF Broadcast
<1>2. TypeOK /\ view[p] \in SUBSET Peer
  BY DEF IInv, TypeOK
<1>3. entry \in Envelope
  BY <1>2, ClockType, HopBudgetType DEF Envelope
<1>4. /\ info \in [Msg -> Envelope \cup {None}] /\ entry # None
      /\ entry.sender = p /\ entry.sentAt = Clock(p)
  BY <1>2, <1>3, ClockType DEF TypeOK
<1> HIDE DEF entry
<1>5. /\ info' \in [Msg -> Envelope \cup {None}] /\ info'[m] = entry
      /\ \A x \in Msg \ {m} : info'[x] = info[x]
  BY <1>1, <1>3, <1>4
<1>6. /\ \A x \in Msg : info[x] # None => info'[x] = info[x]
      /\ info'[m] # None
  BY <1>1, <1>4, <1>5
<1>7. BroadcastBefore'
  <2> SUFFICES ASSUME NEW x \in Msg, info'[x] # None
               PROVE  info'[x].sentAt <= now' + Skew[info'[x].sender]
    BY DEF BroadcastBefore, Clock
  <2>1. now' = now
    BY <1>1
  <2>2. CASE x = m
    BY <1>2, <1>4, <1>5, <2>1, <2>2, ClockType DEF Clock
  <2>3. CASE x # m
    BY <1>5, <2>1, <2>3 DEF IInv, BroadcastBefore, Clock
  <2> QED
    BY <2>2, <2>3
<1>8. Known \subseteq Known' /\ pkt \in Known'
  <2>1. \A x \in GossipPacket : x.id \in Msg
    BY DEF GossipPacket
  <2>2. Known \subseteq Known'
    BY <1>6, <2>1 DEF Known, Packet, AntiEntropyPacket
  <2>3. pkt \in Known'
    BY <1>6 DEF Known, Packet, GossipPacket
  <2> QED
    BY <2>2, <2>3
<1>9. /\ spread.out \in [Peer -> Seq(Known')]
      /\ spread.cursor \in [gossip : Nat, antiEntropy : Nat]
  BY <1>2, <1>8, PropagateType
<1>10. chan \in Queues(Known')
  BY <1>8, QueuesMonotone DEF IInv
<1> HIDE DEF spread, pkt
<1>11. chan' \in Queues(Known')
  BY <1>1, <1>9, <1>10, TransmitQueues
<1>12. /\ cursor' \in [Peer -> [gossip : Nat, antiEntropy : Nat]]
       /\ delivered' \in [Peer -> [Msg -> Nat]]
  <2>1. /\ cursor \in [Peer -> [gossip : Nat, antiEntropy : Nat]]
        /\ delivered \in [Peer -> [Msg -> Nat]]
    BY <1>2 DEF TypeOK
  <2>2. [delivered[p] EXCEPT ![m] = @ + 1] \in [Msg -> Nat]
    BY <2>1
  <2> QED
    BY <1>1, <1>9, <2>1, <2>2
<1>13. queued' \in [Peer -> BOOLEAN]
  <2>1. queued \in [Peer -> BOOLEAN]
    BY <1>2 DEF TypeOK
  <2> QED
    BY <1>1, <2>1, Zenon
<1>14. \E log \in Log, ret \in Store : TablesBecome(p, log, ret)
  <2>1. PICK ret \in Retain(p, m, 0) : \E t \in LogMessage(p, ret, info', m) :
           /\ seenAt' = [seenAt EXCEPT ![p] = t.log]
           /\ retained' = [retained EXCEPT ![p] = t.ret]
    BY DEF Broadcast
  <2>2. PICK t \in LogMessage(p, ret, info', m) :
           /\ seenAt' = [seenAt EXCEPT ![p] = t.log]
           /\ retained' = [retained EXCEPT ![p] = t.ret]
    BY <2>1
  <2> QED
    BY <1>6, <2>2, LogAndRetain
<1> QED
  BY <1>1, <1>5, <1>6, <1>7, <1>11, <1>12, <1>13, <1>14, TablesStep

LEMMA ReceiveNewStep ==
    ASSUME IInv, NEW p \in Peer, NEW q \in Peer, ReceiveNew(p, q)
    PROVE  IInv'
<1> DEFINE pkt == Head(chan[q][p])
           m == pkt.id
           hop == [type |-> "gossip", id |-> m, hops |-> pkt.hops + 1,
                   repair |-> FALSE]
           spread == IF pkt.hops < info[m].maxHops
                     THEN Propagate(p, m, pkt.hops, {info[m].sender, q})
                     ELSE [out |-> Silence, cursor |-> cursor[p]]
<1>1. /\ chan[q][p] # <<>> /\ pkt.type = "gossip"
      /\ chan' = Transmit(p, Taken(p, q), spread.out)
      /\ cursor' = [cursor EXCEPT ![p] = spread.cursor]
      /\ queued' = [queued EXCEPT ![p] = (retained[p][m] = None)]
      /\ delivered' = [delivered EXCEPT ![p] = [delivered[p] EXCEPT ![m] = @ + 1]]
      /\ UNCHANGED <<now, conn, view, info, faults>>
  BY DEF ReceiveNew, Arrived
<1>2. /\ Taken(p, q) \in Queues(Known)
      /\ m \in Msg /\ pkt.hops \in Nat /\ info[m] # None
  BY <1>1, ArrivedPacket
<1>3. /\ TypeOK /\ cursor \in [Peer -> [gossip : Nat, antiEntropy : Nat]]
      /\ delivered \in [Peer -> [Msg -> Nat]] /\ queued \in [Peer -> BOOLEAN]
      /\ info \in [Msg -> Envelope \cup {None}]
  BY DEF IInv, TypeOK
<1>4. PICK ret \in Retain(p, m, pkt.hops) : \E t \in LogMessage(p, ret, info, m) :
         /\ seenAt' = [seenAt EXCEPT ![p] = t.log]
         /\ retained' = [retained EXCEPT ![p] = t.ret]
  BY DEF ReceiveNew
<1>5. PICK t \in LogMessage(p, ret, info, m) :
         /\ seenAt' = [seenAt EXCEPT ![p] = t.log]
         /\ retained' = [retained EXCEPT ![p] = t.ret]
  BY <1>4
<1>6. /\ spread.out \in [Peer -> Seq(Known)]
      /\ spread.cursor \in [gossip : Nat, antiEntropy : Nat]
  <2>1. hop \in Known
    BY <1>2 DEF Known, Packet, GossipPacket
  <2>2. /\ Propagate(p, m, pkt.hops, {info[m].sender, q}).out
              \in [Peer -> Seq(Known)]
        /\ Propagate(p, m, pkt.hops, {info[m].sender, q}).cursor
              \in [gossip : Nat, antiEntropy : Nat]
    BY <1>2, <1>3, <2>1, PropagateType
  <2>3. Silence \in [Peer -> Seq(Known)]
    BY DEF Silence
  <2> QED
    BY <1>3, <2>2, <2>3
<1>7. Known' = Known /\ BroadcastBefore'
  BY <1>1 DEF Known, IInv, BroadcastBefore, Clock
<1>8. queued' \in [Peer -> BOOLEAN]
  <2>1. (retained[p][m] = None) \in BOOLEAN
    OBVIOUS
  <2> QED
    BY <1>1, <1>3, <2>1, Zenon
<1> HIDE DEF spread, pkt, hop
<1>9. chan' \in Queues(Known')
  BY <1>1, <1>2, <1>6, <1>7, TransmitQueues
<1>10. /\ cursor' \in [Peer -> [gossip : Nat, antiEntropy : Nat]]
       /\ delivered' \in [Peer -> [Msg -> Nat]]
  <2>1. [delivered[p] EXCEPT ![m] = @ + 1] \in [Msg -> Nat]
    BY <1>2, <1>3
  <2> QED
    BY <1>1, <1>3, <1>6, <2>1
<1>11. t.log \in Log /\ t.ret \in Store /\ TablesBecome(p, t.log, t.ret)
  BY <1>1, <1>2, <1>5, LogAndRetain
<1>12. /\ \A x \in Msg : info[x] # None => info'[x] = info[x]
       /\ info' \in [Msg -> Envelope \cup {None}]
  BY <1>1, <1>3
<1> QED
  BY <1>1, <1>7, <1>8, <1>9, <1>10, <1>11, <1>12, TablesStep

LEMMA NextIInv == IInv /\ [Next]_vars => IInv'
<1> SUFFICES ASSUME IInv, [Next]_vars
             PROVE  IInv'
  OBVIOUS
<1>1. CASE UNCHANGED vars
  <2>1. Known' = Known
    BY <1>1 DEF vars, Known
  <2> QED
    BY <1>1, <2>1 DEF vars, IInv, TypeOK, Queues, LogFollowsBroadcast,
                      BroadcastBefore, RetainedAreLogged, Present, Clock
<1>2. CASE Tick
  BY <1>2, TickStep
<1>3. ASSUME NEW p \in Peer, NEW m \in Msg, Broadcast(p, m)
      PROVE  IInv'
  BY <1>3, BroadcastStep
<1>4. ASSUME NEW p \in Peer, NEW age \in CleanupAges, Cleanup(p, age)
      PROVE  IInv'
  BY <1>4, CleanupStep
<1>5. ASSUME NEW p \in Peer, RepairMicrotask(p) \/ SyncTimer(p)
      PROVE  IInv'
  BY <1>5, PublishStep
<1>6. ASSUME NEW p \in Peer, PruneTimer(p)
      PROVE  IInv'
  BY <1>6, PruneTimerStep
<1>7. ASSUME NEW p \in Peer, NEW v \in Views, ViewChanged(p, v)
      PROVE  IInv'
  BY <1>7, ViewStep
<1>8. ASSUME NEW p \in Peer, NEW q \in Peer,
             PeerConnected(p, q) \/ PeerDisconnected(p, q)
      PROVE  IInv'
  BY <1>8, MeshStep
<1>9. ASSUME NEW p \in Peer, NEW q \in Peer, Receive(p, q)
      PROVE  IInv'
  BY <1>9, DropLateStep, ReceiveDuplicateStep, ReceiveNewStep, AntiEntropyStep
     DEF Receive
<1> QED
  BY <1>1, <1>2, <1>3, <1>4, <1>5, <1>6, <1>7, <1>8, <1>9 DEF Next

LEMMA Invariance == Spec => []IInv
  BY InitIInv, NextIInv, PTL DEF Spec

\* TypeOK: every variable keeps its shape, whatever the constants.
THEOREM TypeCorrect == Spec => []TypeOK
  BY Invariance, PTL DEF IInv

\* RetainedAreLogged: retainGossipMessage, cleanup and pruneTracking never
\* leave a payload behind whose id the log has dropped, overflow included.
THEOREM PayloadsStayLogged == Spec => []RetainedAreLogged
  BY Invariance, PTL DEF IInv

-----------------------------------------------------------------------------
(* DInv is inductive when the log outlasts the spread *)

LEMMA NoOverflow ==
    ASSUME DedupOutlastsSpread
    PROVE  \A f : Cardinality(Present(f)) <= MaxTracked
<1> SUFFICES ASSUME NEW f PROVE Cardinality(Present(f)) <= MaxTracked
  OBVIOUS
<1>1. /\ Cardinality(Present(f)) \in Nat /\ Cardinality(Msg) \in Nat
      /\ Cardinality(Present(f)) <= Cardinality(Msg)
  <2>1. Present(f) \subseteq Msg /\ IsFiniteSet(Msg)
    BY GossipAssumption DEF Present
  <2> QED
    BY <2>1, FS_Subset, FS_CardinalityType
<1>2. MaxTracked \in Nat
  BY GossipAssumption
<1> QED
  BY <1>1, <1>2 DEF DedupOutlastsSpread

\* An id leaves the log only after the deadline of its message.
LEMMA Outlived ==
    ASSUME DedupOutlastsSpread, IInv, NEW p \in Peer, NEW m \in Msg,
           seenAt[p][m] # None,
           NEW age \in CleanupAges \cup {TrackingRetention},
           Clock(p) > seenAt[p][m] + age
    PROVE  Expired(p, info[m])
<1>1. /\ info[m] \in Envelope /\ seenAt[p][m] \in Nat
      /\ info[m].sentAt + Skew[p] <= seenAt[p][m] + Skew[info[m].sender]
  BY DEF IInv, TypeOK, LogFollowsBroadcast
<1>2. info[m].sender \in Peer /\ info[m].sentAt \in Nat
  BY <1>1 DEF Envelope
<1>3. age \in Nat /\ SpreadTimeout \in Nat
  BY GossipAssumption
<1>4. SpreadTimeout + Skew[info[m].sender] <= age + Skew[p]
  BY <1>2 DEF DedupOutlastsSpread
<1>5. Skew[p] \in Nat /\ Skew[info[m].sender] \in Nat /\ Clock(p) \in Nat
  BY <1>2, ClockType DEF IInv
<1>6. Clock(p) > info[m].sentAt + SpreadTimeout
  BY <1>1, <1>2, <1>3, <1>4, <1>5
<1> QED
  BY <1>6 DEF Expired, DeadlineAt

LEMMA LogMessageKeeps ==
    ASSUME DedupOutlastsSpread, NEW p \in Peer
    PROVE  \A m, ret, env : \A t \in LogMessage(p, ret, env, m) :
              t.log = [seenAt[p] EXCEPT ![m] = Clock(p)]
BY NoOverflow DEF LogMessage

\* Without an overflow the prune timer drops nothing but old entries.
LEMMA PruneTimerKeeps ==
    ASSUME DedupOutlastsSpread, IInv, NEW p \in Peer, NEW m \in Msg,
           PruneTimer(p), seenAt[p][m] # None,
           ~(Clock(p) > seenAt[p][m] + TrackingRetention)
    PROVE  seenAt'[p][m] # None
<1> DEFINE old == {x \in Present(seenAt[p]) :
                      seenAt[p][x] < Clock(p) - TrackingRetention}
           log1 == Without(seenAt[p], old)
           stale == {x \in Present(retained[p]) :
                        \/ retained[p][x].at < Clock(p) - TrackingRetention
                        \/ Expired(p, info[x])}
<1>1. PICK t \in Prune(p, seenAt[p], retained[p], info, None) :
         seenAt' = [seenAt EXCEPT ![p] = t.log]
  BY DEF PruneTimer
<1>2. t.log = Without(log1, {})
  <2>1. Cardinality(Present(log1)) <= MaxTracked
    BY NoOverflow
  <2>2. PICK v \in {{}} : t = [log |-> Without(log1, v),
                              ret |-> Without(retained[p], old \cup v \cup stale)]
    BY <2>1 DEF Prune
  <2> QED
    BY <2>2
<1>3. /\ TypeOK /\ seenAt \in [Peer -> Log] /\ seenAt[p] \in Log
      /\ seenAt[p][m] \in Nat /\ TrackingRetention \in Nat /\ Clock(p) \in Nat
  <2>1. TypeOK /\ seenAt \in [Peer -> Log]
    BY DEF IInv, TypeOK, Log
  <2>2. TrackingRetention \in Nat /\ Clock(p) \in Nat
    BY <2>1, ClockType, GossipAssumption
  <2> QED
    BY <2>1, <2>2 DEF Log
<1>4. m \notin old
  BY <1>3
<1> HIDE DEF old
<1>5. log1[m] = seenAt[p][m]
  BY <1>3, <1>4 DEF Without
<1> HIDE DEF log1
<1>6. Without(log1, {})[m] = log1[m]
  BY DEF Without
<1> QED
  BY <1>1, <1>2, <1>3, <1>5, <1>6

\* Steps that raise nothing and forget nothing before its deadline.
LEMMA SilentStep ==
    ASSUME IInv, DInv, UNCHANGED <<info, delivered>>, now <= now', now' \in Nat,
           \A p \in Peer, m \in Msg :
              seenAt[p][m] # None =>
                 seenAt'[p][m] # None \/ Expired(p, info[m])
    PROVE  DInv'
<1>1. AtMostOnce'
  BY DEF DInv, AtMostOnce
<1>2. Remembered'
  <2> SUFFICES ASSUME NEW p \in Peer, NEW m \in Msg, delivered[p][m] > 0
               PROVE  /\ info[m] # None
                      /\ seenAt'[p][m] # None \/ Expired(p, info[m])'
    BY DEF Remembered
  <2>1. info[m] # None /\ (seenAt'[p][m] # None \/ Expired(p, info[m]))
    BY DEF DInv, Remembered
  <2>2. info[m] \in Envelope
    BY <2>1 DEF IInv, TypeOK
  <2>3. /\ info[m].sentAt \in Nat /\ SpreadTimeout \in Nat
        /\ now \in Nat /\ Skew[p] \in Nat
    BY <2>2, ClockType, GossipAssumption DEF Envelope, IInv
  <2>4. Expired(p, info[m]) => Expired(p, info[m])'
    BY <2>3 DEF Expired, Clock, DeadlineAt
  <2> QED
    BY <2>1, <2>4
<1> QED
  BY <1>1, <1>2 DEF DInv

\* A first delivery of m at p.
LEMMA DeliveryStep ==
    ASSUME IInv, DInv, NEW p \in Peer, NEW m \in Msg,
           delivered[p][m] = 0, info'[m] # None,
           \A x \in Msg : info[x] # None => info'[x] = info[x],
           now' = now, seenAt' = [seenAt EXCEPT ![p] =
                                    [seenAt[p] EXCEPT ![m] = Clock(p)]],
           delivered' = [delivered EXCEPT ![p] = [delivered[p] EXCEPT ![m] = @ + 1]]
    PROVE  DInv'
<1>1. /\ delivered \in [Peer -> [Msg -> Nat]]
      /\ seenAt \in [Peer -> Log] /\ \A q \in Peer : seenAt[q] \in Log
  BY DEF IInv, TypeOK, Log
<1>2. \A q \in Peer, x \in Msg :
         delivered'[q][x] = IF q = p /\ x = m THEN 1 ELSE delivered[q][x]
  BY <1>1
<1>3. \A q \in Peer, x \in Msg :
         seenAt'[q][x] = IF q = p /\ x = m THEN Clock(p) ELSE seenAt[q][x]
  BY <1>1 DEF Log
<1>4. AtMostOnce'
  BY <1>2 DEF DInv, AtMostOnce
<1>5. Clock(p) # None
  BY ClockType DEF IInv
<1>6. Remembered'
  <2> SUFFICES ASSUME NEW q \in Peer, NEW x \in Msg, delivered'[q][x] > 0
               PROVE  /\ info'[x] # None
                      /\ seenAt'[q][x] # None \/ Expired(q, info[x])'
    BY DEF Remembered
  <2>1. CASE q = p /\ x = m
    BY <1>3, <1>5, <2>1
  <2>2. CASE ~(q = p /\ x = m)
    <3>1. /\ info[x] # None /\ info'[x] = info[x]
          /\ seenAt[q][x] # None \/ Expired(q, info[x])
      BY <1>2, <2>2 DEF DInv, Remembered
    <3> QED
      BY <1>3, <2>2, <3>1 DEF Expired, Clock, DeadlineAt
  <2> QED
    BY <2>1, <2>2
<1> QED
  BY <1>4, <1>6 DEF DInv

\* What a first receipt and a broadcast do, in the terms of DeliveryStep.
LEMMA BroadcastDelivers ==
    ASSUME DedupOutlastsSpread, IInv, DInv, NEW p \in Peer, NEW m \in Msg,
           Broadcast(p, m)
    PROVE  DInv' /\ delivered[p][m] = 0
<1>1. /\ info[m] = None /\ now' = now
      /\ delivered' = [delivered EXCEPT ![p] = [delivered[p] EXCEPT ![m] = @ + 1]]
  BY DEF Broadcast
<1>2. delivered[p][m] = 0
  BY <1>1 DEF IInv, TypeOK, DInv, Remembered
<1>3. PICK ret, t : /\ t \in LogMessage(p, ret, info', m)
                    /\ seenAt' = [seenAt EXCEPT ![p] = t.log]
  BY DEF Broadcast
<1>4. seenAt' = [seenAt EXCEPT ![p] = [seenAt[p] EXCEPT ![m] = Clock(p)]]
  BY <1>3, LogMessageKeeps
<1>5. info' = [info EXCEPT ![m] = [sender |-> p, sentAt |-> Clock(p),
                                   view |-> view[p], maxHops |-> HopBudget(p)]]
  BY DEF Broadcast
<1>6. /\ info'[m] # None
      /\ \A x \in Msg : info[x] # None => info'[x] = info[x]
  <2>1. [sender |-> p, sentAt |-> Clock(p), view |-> view[p],
         maxHops |-> HopBudget(p)] \in Envelope
    BY ClockType, HopBudgetType DEF Envelope, IInv, TypeOK
  <2>2. info \in [Msg -> Envelope \cup {None}] /\ None \notin Envelope
    BY ClockType DEF IInv, TypeOK
  <2> QED
    BY <1>1, <1>5, <2>1, <2>2
<1> QED
  BY <1>1, <1>2, <1>4, <1>6, DeliveryStep

LEMMA ReceiveNewDelivers ==
    ASSUME DedupOutlastsSpread, IInv, DInv, NEW p \in Peer, NEW q \in Peer,
           ReceiveNew(p, q)
    PROVE  LET m == Head(chan[q][p]).id
           IN  /\ DInv'
               /\ m \in Msg /\ info[m] # None /\ ~Expired(p, info[m])
               /\ delivered[p][m] = 0
<1> DEFINE pkt == Head(chan[q][p])
           m == pkt.id
<1>1. /\ chan[q][p] # <<>> /\ pkt.type = "gossip"
      /\ ~Expired(p, info[m]) /\ seenAt[p][m] = None
      /\ now' = now /\ info' = info
      /\ delivered' = [delivered EXCEPT ![p] = [delivered[p] EXCEPT ![m] = @ + 1]]
  BY DEF ReceiveNew, Arrived
<1>2. m \in Msg /\ info[m] # None
  BY <1>1, ArrivedPacket
<1>3. PICK ret, t : /\ t \in LogMessage(p, ret, info, m)
                    /\ seenAt' = [seenAt EXCEPT ![p] = t.log]
  BY DEF ReceiveNew
<1> HIDE DEF pkt
<1>4. delivered[p][m] = 0
  BY <1>1, <1>2 DEF IInv, TypeOK, DInv, Remembered
<1>5. seenAt' = [seenAt EXCEPT ![p] = [seenAt[p] EXCEPT ![m] = Clock(p)]]
  BY <1>3, LogMessageKeeps
<1>6. DInv'
  BY <1>1, <1>2, <1>4, <1>5, DeliveryStep
<1> QED
  BY <1>1, <1>2, <1>4, <1>6 DEF pkt

LEMMA CleanupForgetsLate ==
    ASSUME DedupOutlastsSpread, IInv, NEW p \in Peer, NEW age \in CleanupAges,
           Cleanup(p, age), NEW q \in Peer, NEW m \in Msg, seenAt[q][m] # None
    PROVE  seenAt'[q][m] # None \/ Expired(q, info[m])
<1> DEFINE old == {x \in Present(seenAt[p]) : Clock(p) - seenAt[p][x] > age}
<1>1. seenAt' = [seenAt EXCEPT ![p] = Without(seenAt[p], old)]
  BY DEF Cleanup
<1>2. seenAt \in [Peer -> Log] /\ seenAt[q][m] \in Nat
  BY DEF IInv, TypeOK, Log
<1>3. CASE q = p /\ m \in old
  <2>1. Clock(p) \in Nat /\ age \in Nat
    BY GossipAssumption, ClockType DEF IInv
  <2>2. Clock(p) > seenAt[p][m] + age
    BY <1>2, <1>3, <2>1
  <2> QED
    BY <1>3, <2>2, Outlived
<1>4. CASE ~(q = p /\ m \in old)
  <2> HIDE DEF old
  <2>1. seenAt'[q][m] = seenAt[q][m]
    BY <1>1, <1>2, <1>4 DEF Without
  <2> QED
    BY <2>1
<1> QED
  BY <1>3, <1>4

LEMMA PruneTimerForgetsLate ==
    ASSUME DedupOutlastsSpread, IInv, NEW p \in Peer, PruneTimer(p),
           NEW q \in Peer, NEW m \in Msg, seenAt[q][m] # None
    PROVE  seenAt'[q][m] # None \/ Expired(q, info[m])
<1>1. CASE q = p /\ Clock(p) > seenAt[p][m] + TrackingRetention
  BY <1>1, Outlived
<1>2. CASE q = p /\ ~(Clock(p) > seenAt[p][m] + TrackingRetention)
  BY <1>2, PruneTimerKeeps
<1>3. CASE q # p
  <2>1. PICK log : seenAt' = [seenAt EXCEPT ![p] = log]
    BY DEF PruneTimer
  <2>2. seenAt \in [Peer -> Log]
    BY DEF IInv, TypeOK, Log
  <2> QED
    BY <1>3, <2>1, <2>2
<1> QED
  BY <1>1, <1>2, <1>3

\* Every step but a broadcast and a first receipt is silent.
LEMMA SilentSteps ==
    ASSUME DedupOutlastsSpread, IInv, DInv, [Next]_vars,
           \A p \in Peer, m \in Msg : ~Broadcast(p, m),
           \A p, q \in Peer : ~ReceiveNew(p, q)
    PROVE  DInv' /\ UNCHANGED <<info, delivered>> /\ (now' = now \/ Tick)
<1> DEFINE Still == UNCHANGED <<info, delivered, now, seenAt>>
           Silent == /\ UNCHANGED <<info, delivered>> /\ now' \in Nat
                     /\ now <= now' /\ (now' = now \/ Tick)
                     /\ \A p \in Peer, m \in Msg : seenAt[p][m] # None =>
                           seenAt'[p][m] # None \/ Expired(p, info[m])
<1>1. now \in Nat
  BY ClockType DEF IInv
<1>2. ASSUME Still PROVE Silent
  BY <1>1, <1>2
<1>3. ASSUME Tick PROVE Silent
  BY <1>1, <1>3 DEF Tick
<1>4. ASSUME NEW p \in Peer, NEW age \in CleanupAges, Cleanup(p, age)
      PROVE  Silent
  <2>1. UNCHANGED <<info, delivered, now>>
    BY <1>4 DEF Cleanup
  <2> QED
    BY <1>1, <1>4, <2>1, CleanupForgetsLate
<1>5. ASSUME NEW p \in Peer, PruneTimer(p)
      PROVE  Silent
  <2>1. UNCHANGED <<info, delivered, now>>
    BY <1>5 DEF PruneTimer
  <2> QED
    BY <1>1, <1>5, <2>1, PruneTimerForgetsLate
<1>6. ASSUME NEW p \in Peer, RepairMicrotask(p) \/ SyncTimer(p)
      PROVE  Still
  BY <1>6 DEF RepairMicrotask, SyncTimer
<1>7. ASSUME NEW p \in Peer, NEW v \in Views, ViewChanged(p, v)
      PROVE  Still
  BY <1>7 DEF ViewChanged
<1>8. ASSUME NEW p \in Peer, NEW q \in Peer,
             PeerConnected(p, q) \/ PeerDisconnected(p, q)
      PROVE  Still
  BY <1>8 DEF PeerConnected, PeerDisconnected
<1>9. ASSUME NEW p \in Peer, NEW q \in Peer, Receive(p, q)
      PROVE  Still
  <2>1. CASE DropLate(p, q) \/ ReceiveDuplicate(p, q)
    BY <2>1 DEF DropLate, ReceiveDuplicate
  <2>2. CASE ReceiveSummary(p, q) \/ ReceiveRequest(p, q)
    BY <2>2 DEF ReceiveSummary, ReceiveRequest
  <2> QED
    BY <1>9, <2>1, <2>2 DEF Receive
<1>10. ASSUME UNCHANGED vars PROVE Still
  BY <1>10 DEF vars
<1> HIDE DEF Still, Silent
<1>11. Silent
  BY <1>2, <1>3, <1>4, <1>5, <1>6, <1>7, <1>8, <1>9, <1>10 DEF Next
<1> QED
  BY <1>11, SilentStep DEF Silent

LEMMA InitDInv == Init => DInv
  BY DEF Init, DInv, AtMostOnce, Remembered

LEMMA NextDInv ==
    ASSUME DedupOutlastsSpread
    PROVE  IInv /\ DInv /\ [Next]_vars => DInv'
  BY BroadcastDelivers, ReceiveNewDelivers, SilentSteps

\* AtMostOnce: no interleaving of fan-out, repair, pruning and cleanup makes a
\* peer raise a broadcast twice, if the log outlasts the spread.
THEOREM DeliveredAtMostOnce ==
    ASSUME DedupOutlastsSpread
    PROVE  Spec => []AtMostOnce
<1>1. DInv => AtMostOnce
  BY DEF DInv
<1> QED
  BY <1>1, Invariance, InitDInv, NextDInv, PTL DEF Spec

-----------------------------------------------------------------------------
(* Refinement *)

Deadline == [m \in Msg |-> IF info[m] = None THEN None ELSE DeadlineAt(info[m])]

LEMMA DeadlineOf ==
    ASSUME IInv
    PROVE  /\ Deadline \in [Msg -> Nat \cup {None}]
           /\ \A m \in Msg : /\ (Deadline[m] = None) <=> (info[m] = None)
                             /\ info[m] # None => Deadline[m] = DeadlineAt(info[m])
<1>1. \A m \in Msg : info[m] # None => DeadlineAt(info[m]) \in Nat
  BY GossipAssumption DEF IInv, TypeOK, Envelope, DeadlineAt
<1> QED
  BY <1>1, ClockType DEF Deadline, IInv

LEMMA InitRefines == Init => Promise!Init
  BY DEF Init, Promise!Init

LEMMA BroadcastRefines ==
    ASSUME DedupOutlastsSpread, IInv, DInv, NEW p \in Peer, NEW m \in Msg,
           Broadcast(p, m)
    PROVE  Promise!Submit(p, m)
<1> DEFINE entry == [sender |-> p, sentAt |-> Clock(p), view |-> view[p],
                     maxHops |-> HopBudget(p)]
<1>1. /\ info[m] = None /\ info' = [info EXCEPT ![m] = entry] /\ now' = now
      /\ delivered' = [delivered EXCEPT ![p] = [delivered[p] EXCEPT ![m] = @ + 1]]
  BY DEF Broadcast
<1>2. delivered[p][m] = 0
  BY BroadcastDelivers
<1>3. entry # None /\ DeadlineAt(entry) = now + Skew[p] + SpreadTimeout
  <2>1. entry \in Envelope
    BY ClockType, HopBudgetType DEF Envelope, IInv, TypeOK
  <2> QED
    BY <2>1, ClockType DEF IInv, DeadlineAt, Clock
<1> HIDE DEF entry
<1>4. info \in [Msg -> Envelope \cup {None}]
      /\ delivered \in [Peer -> [Msg -> Nat]]
  BY DEF IInv, TypeOK
<1>5. Deadline[m] = None
  BY <1>1 DEF Deadline
<1>6. Deadline' = [Deadline EXCEPT ![m] = now + Skew[p] + SpreadTimeout]
  BY <1>1, <1>3, <1>4 DEF Deadline
<1>7. delivered' = [delivered EXCEPT ![p] = [delivered[p] EXCEPT ![m] = 1]]
  BY <1>1, <1>2, <1>4
<1> QED
  BY <1>1, <1>5, <1>6, <1>7 DEF Promise!Submit, Deadline

LEMMA ReceiveNewRefines ==
    ASSUME DedupOutlastsSpread, IInv, DInv, NEW p \in Peer, NEW q \in Peer,
           ReceiveNew(p, q)
    PROVE  \E m \in Msg : Promise!Deliver(p, m)
<1>1. PICK m \in Msg : /\ m = Head(chan[q][p]).id /\ info[m] # None
                       /\ ~Expired(p, info[m]) /\ delivered[p][m] = 0
  BY ReceiveNewDelivers
<1>2. /\ UNCHANGED <<now, info>>
      /\ delivered' = [delivered EXCEPT ![p] = [delivered[p] EXCEPT ![m] = @ + 1]]
  BY <1>1 DEF ReceiveNew
<1>3. delivered' = [delivered EXCEPT ![p] = [delivered[p] EXCEPT ![m] = 1]]
  BY <1>1, <1>2 DEF IInv, TypeOK
<1>4. /\ Deadline[m] # None /\ Deadline[m] = DeadlineAt(info[m])
      /\ Deadline[m] \in Nat /\ Deadline' = Deadline
  <2>1. Deadline' = Deadline
    BY <1>2 DEF Deadline
  <2> QED
    BY <1>1, <2>1, DeadlineOf
<1>5. now + Skew[p] <= Deadline[m]
  BY <1>1, <1>4, ClockType DEF Expired, Clock, IInv
<1> QED
  BY <1>1, <1>2, <1>3, <1>4, <1>5 DEF Promise!Deliver, Deadline

LEMMA NextRefines ==
    ASSUME DedupOutlastsSpread
    PROVE  IInv /\ DInv /\ [Next]_vars => [Promise!Next]_Promise!vars
<1> SUFFICES ASSUME IInv, DInv, [Next]_vars
             PROVE  Promise!Next \/ UNCHANGED Promise!vars
  OBVIOUS
<1>1. ASSUME NEW p \in Peer, NEW m \in Msg, Broadcast(p, m)
      PROVE  Promise!Next
  BY <1>1, BroadcastRefines DEF Promise!Next
<1>2. ASSUME NEW p \in Peer, NEW q \in Peer, ReceiveNew(p, q)
      PROVE  Promise!Next
  BY <1>2, ReceiveNewRefines DEF Promise!Next
<1>3. ASSUME \A p \in Peer, m \in Msg : ~Broadcast(p, m),
             \A p, q \in Peer : ~ReceiveNew(p, q)
      PROVE  Promise!Next \/ UNCHANGED Promise!vars
  <2>1. UNCHANGED <<info, delivered>> /\ (now' = now \/ Tick)
    BY <1>3, SilentSteps
  <2>2. CASE now' = now
    BY <2>1, <2>2 DEF Promise!vars
  <2>3. CASE Tick
    BY <2>1, <2>3 DEF Tick, Promise!Next, Promise!Tick
  <2> QED
    BY <2>1, <2>2, <2>3
<1> QED
  BY <1>1, <1>2, <1>3

\* PromiseKept: the dissemination implements ReliableBroadcast.
THEOREM KeepsThePromise ==
    ASSUME DedupOutlastsSpread
    PROVE  Spec => PromiseKept
  BY Invariance, InitDInv, NextDInv, InitRefines, NextRefines, PTL
     DEF Spec, PromiseKept, Promise!Spec

-----------------------------------------------------------------------------
(* The types of Consensus.                                                   *)

\* The image of a finite set is finite.
LEMMA ImageIsFinite ==
    ASSUME NEW S, IsFiniteSet(S), NEW f
    PROVE  IsFiniteSet({f[x] : x \in S})
<1> DEFINE T == {f[x] : x \in S}
           g == [x \in S |-> f[x]]
<1>1. g \in Surjection(S, T)
  BY DEF Surjection
<1> HIDE DEF g, T
<1>2. IsFiniteSet(T)
  BY <1>1, FS_Surjection
<1> QED
  BY <1>2 DEF T

\* What the assumptions say of the constants.
LEMMA CecrConstants ==
    /\ Peers \subseteq Nat /\ IsFiniteSet(Peers)
    /\ Rounds \in Nat \ {0} /\ MaxAge \in Nat \ {0} /\ EchoSize \in Nat
    /\ ClockSkew \in Nat /\ Fastest \in Nat
    /\ \A s \in Scenarios : ScenarioOK(s)
    /\ Null \notin Observation /\ Null \notin Remote
  BY CecrAssumption, NullAssumption

\* A membership, its size and its extrema.
LEMMA MembershipType ==
    ASSUME CecrTypeOK, NEW p \in Peers
    PROVE  /\ canonical[p] \cup {p} \subseteq Peers
           /\ Cardinality(canonical[p] \cup {p}) \in Nat
           /\ Extrema(p) \subseteq Peers
           /\ Extrema(p) # {} => Extrema(p) = canonical[p] \cup {p}
<1>1. canonical[p] \cup {p} \subseteq Peers
  BY DEF CecrTypeOK
<1>2. IsFiniteSet(canonical[p] \cup {p})
  BY <1>1, CecrConstants, FS_Subset
<1>3. Cardinality(canonical[p] \cup {p}) \in Nat
  BY <1>2, FS_CardinalityType
<1> QED
  BY <1>1, <1>3 DEF Extrema

\* A clock shows a stamp.
LEMMA NowType ==
    ASSUME CecrTypeOK, NEW p \in Peers
    PROVE  Now(p) \in Stamp
<1>1. setup.ahead \in [Peers -> 0..Fastest]
  BY CecrConstants DEF CecrTypeOK, ScenarioOK
<1>2. setup.ahead[p] \in 0..Fastest
  BY <1>1
<1> QED
  BY <1>2, CecrConstants DEF Now, Stamp, Oldest

\* Of finitely many observations one is the best.
LEMMA BestExists ==
    ASSUME NEW S, IsFiniteSet(S), S \subseteq Observation, S # {}
    PROVE  \E b \in S : \A o \in S : ~Better(o, b)
<1> DEFINE Above(b) == {o \in S : Better(o, b)}
           R == StrictSubsetOrdering(S)
           T == {Above(b) : b \in S}
<1>1. IsWellFoundedOn(R, SUBSET S)
  BY FS_StrictSubsetOrderingWellFounded, FS_FiniteSubsetsOfFinite
<1>2. T \subseteq SUBSET S /\ T # {}
  OBVIOUS
<1>3. PICK X \in T : \A Y \in T : ~(<<Y, X>> \in R)
  <2> HIDE DEF R, T
  <2> QED
    BY <1>1, <1>2, WFMin
<1>4. PICK b \in S : X = Above(b)
  OBVIOUS
<1>5. ASSUME NEW o \in S, Better(o, b)
      PROVE  FALSE
  <2>1. \A s \in S : s.size \in Nat /\ s.seen \in Int
    BY CecrConstants DEF Observation, Stamp, Oldest
  <2>2. Above(o) \subseteq Above(b)
    BY <1>5, <2>1 DEF Better
  <2>3. o \in Above(b) /\ o \notin Above(o)
    BY <1>5, <2>1 DEF Better
  <2>4. Above(o) \subseteq S /\ Above(b) \subseteq S /\ Above(o) \in T
    OBVIOUS
  <2>5. Above(o) # Above(b)
    BY <2>3
  <2> HIDE DEF Above
  <2>6. <<Above(o), Above(b)>> \in R
    BY <2>2, <2>4, <2>5 DEF StrictSubsetOrdering
  <2> QED
    BY <1>3, <1>4, <2>4, <2>6
<1> QED
  BY <1>5

\* cecrNetworkSizeEstimate returns an observation.
LEMMA EstimateType ==
    ASSUME CecrTypeOK, NEW p \in Peers
    PROVE  Estimate(p) \in Observation
<1> DEFINE own == [size |-> Cardinality(canonical[p] \cup {p}), seen |-> Now(p)]
           heard == {node[p].remote[q] : q \in Peers} \ {Null}
           seen == {[size |-> r.size, seen |-> r.seen] : r \in heard}
           told == {node[p].aggregate} \ {Null}
           others == {o \in seen \cup told : Fresh(p, o)}
<1>1. own \in Observation
  BY MembershipType, NowType DEF Observation
<1>2. node[p] \in Node
  BY DEF CecrTypeOK
<1>3. heard \subseteq Remote /\ told \subseteq Observation
  BY <1>2 DEF Node
<1>4. IsFiniteSet(heard)
  <2>1. IsFiniteSet({node[p].remote[q] : q \in Peers})
    BY CecrConstants, ImageIsFinite
  <2> QED
    BY <2>1, FS_Subset
<1>5. IsFiniteSet(seen) /\ seen \subseteq Observation
  <2> HIDE DEF heard
  <2> DEFINE f == [r \in heard |-> [size |-> r.size, seen |-> r.seen]]
  <2>1. seen = {f[r] : r \in heard}
    OBVIOUS
  <2>2. seen \subseteq Observation
    BY <1>3 DEF Remote, Observation
  <2> HIDE DEF f, seen
  <2> QED
    BY <1>4, <2>1, <2>2, ImageIsFinite
<1>6. IsFiniteSet(told)
  <2>1. IsFiniteSet({node[p].aggregate})
    BY FS_Singleton
  <2> QED
    BY <2>1, FS_Subset
<1> HIDE DEF own, heard, seen, told
<1>7. IsFiniteSet(others \cup {own}) /\ others \cup {own} \subseteq Observation
  <2>1. IsFiniteSet(seen \cup told)
    BY <1>5, <1>6, FS_Union
  <2>2. IsFiniteSet(others)
    BY <2>1, FS_Subset
  <2> QED
    BY <1>1, <1>3, <1>5, <2>2, FS_AddElement
<1>8. Estimate(p) = CHOOSE b \in others \cup {own} : \A o \in others \cup {own} : ~Better(o, b)
  BY DEF Estimate, own, heard, seen, told
<1> HIDE DEF others
<1>9. \E b \in others \cup {own} : \A o \in others \cup {own} : ~Better(o, b)
  BY <1>7, BestExists
<1> QED
  BY <1>7, <1>8, <1>9

\* handleIncomingCecrState stores the membership of the sender.
LEMMA HeardType ==
    ASSUME CecrTypeOK, NEW p \in Peers, NEW q \in Peers
    PROVE  /\ Heard(q, p) \in Remote
           /\ Heard(q, p).view = canonical[p] \cup {p}
           /\ Heard(q, p) # Null
<1> DEFINE old == node[q].remote[p]
           rounds == IF old # Null /\ old.view = canonical[p] \cup {p}
                     THEN Least(old.rounds + 1, Rounds) ELSE 1
<1>1. Estimate(p).size \in Nat /\ Estimate(p).seen \in Stamp
  BY EstimateType DEF Observation
<1>2. Observed(q, Estimate(p).seen) \in Stamp
  BY <1>1, NowType DEF Observed
<1>3. rounds \in 1..Rounds
  <2>1. node[q] \in Node
    BY DEF CecrTypeOK
  <2>2. old \in Remote \cup {Null}
    BY <2>1 DEF Node
  <2>3. CASE old # Null
    <3>1. old.rounds \in 1..Rounds
      BY <2>2, <2>3 DEF Remote
    <3> QED
      BY <3>1, CecrConstants DEF Least
  <2>4. CASE old = Null
    BY <2>4, CecrConstants
  <2> QED
    BY <2>3, <2>4
<1>4. canonical[p] \cup {p} \subseteq Peers
  BY MembershipType
<1>5. 0 \in 0..Oldest
  BY CecrConstants DEF Oldest
<1> HIDE DEF rounds
<1>6. Heard(q, p) = [view |-> canonical[p] \cup {p}, rounds |-> rounds, age |-> 0,
                     size |-> Estimate(p).size, seen |-> Observed(q, Estimate(p).seen)]
  BY DEF Heard, rounds
<1>7. Heard(q, p) \in Remote
  BY <1>1, <1>2, <1>3, <1>4, <1>5, <1>6 DEF Remote
<1> QED
  BY <1>6, <1>7, CecrConstants

\* A window lies among the neighbours and leaves a cursor for the next round.
LEMMA WindowType ==
    ASSUME CecrTypeOK, NEW p \in Peers, NEW among, among \subseteq Peers
    PROVE  Window(p, among).peers \subseteq among /\ Window(p, among).cursor \in Nat
<1>1. IsFiniteSet(among)
  BY CecrConstants, FS_Subset
<1>2. node[p].cursor \in Nat
  BY DEF CecrTypeOK, Node
<1> QED
  BY <1>1, <1>2, MembershipType, SelectFanoutPeersType DEF Window

\* updateCecrExtremaSnapshot
LEMMA SnapshotType ==
    ASSUME CecrTypeOK, NEW p \in Peers
    PROVE  /\ Snapshot(p) \in Node
           /\ Snapshot(p).extrema = Extrema(p)
           /\ Snapshot(p).remote = node[p].remote
           /\ \/ Snapshot(p).stable = 0
              \/ node[p].extrema = Extrema(p) /\ Snapshot(p).stable = node[p].stable
<1>1. node[p] \in Node
  BY DEF CecrTypeOK
<1>2. 0 \in 0..Rounds
  BY CecrConstants
<1> QED
  BY <1>1, <1>2, MembershipType DEF Snapshot, Node

\* publishCecrState changes what its peers know of the sender.
LEMMA PublishedFacts ==
    ASSUME CecrTypeOK, NEW p \in Peers, NEW n \in Node, NEW T
    PROVE  /\ Published(p, n, T) \in [Peers -> Node]
           /\ Published(p, n, T)[p] = n
           /\ \A q \in Peers \ {p} :
                 /\ Published(p, n, T)[q].extrema = node[q].extrema
                 /\ Published(p, n, T)[q].stable = node[q].stable
                 /\ \A x \in Peers \ {p} : Published(p, n, T)[q].remote[x] = node[q].remote[x]
                 /\ Published(p, n, T)[q].remote[p] =
                      IF q \in T /\ p \in neighbours[q] THEN Heard(q, p) ELSE node[q].remote[p]
<1>1. \A q \in Peers : node[q] \in Node /\ Heard(q, p) \in Remote
  BY HeardType DEF CecrTypeOK
<1>2. \A q \in Peers : [node[q] EXCEPT !.remote[p] = Heard(q, p)] \in Node
  BY <1>1 DEF Node
<1>3. Published(p, n, T) \in [Peers -> Node]
  BY <1>1, <1>2 DEF Published
<1>4. Published(p, n, T)[p] = n
  BY DEF Published
<1>5. ASSUME NEW q \in Peers \ {p}
      PROVE  /\ Published(p, n, T)[q].extrema = node[q].extrema
             /\ Published(p, n, T)[q].stable = node[q].stable
             /\ \A x \in Peers \ {p} : Published(p, n, T)[q].remote[x] = node[q].remote[x]
             /\ Published(p, n, T)[q].remote[p] =
                  IF q \in T /\ p \in neighbours[q] THEN Heard(q, p) ELSE node[q].remote[p]
  <2>1. Published(p, n, T)[q] = IF q \in T /\ p \in neighbours[q]
                                THEN [node[q] EXCEPT !.remote[p] = Heard(q, p)] ELSE node[q]
    BY DEF Published
  <2>2. node[q] \in Node
    BY <1>1
  <2> QED
    BY <2>1, <2>2 DEF Node
<1> QED
  BY <1>3, <1>4, <1>5

\* The state a peer has after its timer has fired.
Timed(p) ==
    [Snapshot(p) EXCEPT !.cursor = Window(p, neighbours[p]).cursor,
                        !.stable = IF node[p].extrema = Extrema(p)
                                   THEN Least(node[p].stable + 1, Rounds) ELSE 0]

\* The timer changes the peer's own state and tells the window.
LEMMA SyncFacts ==
    ASSUME CecrTypeOK, NEW p \in Peers, Sync(p)
    PROVE  /\ node' = Published(p, Timed(p), Window(p, neighbours[p]).peers)
           /\ Timed(p) \in Node
           /\ Timed(p).extrema = Extrema(p)
           /\ Timed(p).remote = node[p].remote
           /\ \/ Timed(p).stable = 0
              \/ node[p].extrema = Extrema(p) /\ Timed(p).stable <= node[p].stable + 1
<1>1. Snapshot(p) \in Node /\ node[p] \in Node
  BY SnapshotType DEF CecrTypeOK
<1>2. node[p].stable \in 0..Rounds
  BY <1>1 DEF Node
<1>3. Least(node[p].stable + 1, Rounds) \in 0..Rounds
  BY <1>2, CecrConstants DEF Least
<1>4. Least(node[p].stable + 1, Rounds) <= node[p].stable + 1
  BY <1>2, CecrConstants DEF Least
<1>5. Window(p, neighbours[p]).cursor \in Nat
  BY WindowType DEF CecrTypeOK
<1>6. node' = Published(p, Timed(p), Window(p, neighbours[p]).peers)
  <2>1. [node[p] EXCEPT !.stable = Least(node[p].stable + 1, Rounds)].stable
          = Least(node[p].stable + 1, Rounds)
    BY <1>1 DEF Node
  <2> QED
    BY <2>1 DEF Sync, Timed
<1>7. 0 \in 0..Rounds
  BY CecrConstants
<1> DEFINE k == IF node[p].extrema = Extrema(p) THEN Least(node[p].stable + 1, Rounds) ELSE 0
<1>8. k \in 0..Rounds
  BY <1>3, <1>7
<1>9. Timed(p) \in Node /\ Timed(p).extrema = Extrema(p) /\ Timed(p).remote = node[p].remote
      /\ Timed(p).stable = k
  <2> HIDE DEF k
  <2>1. Timed(p) = [Snapshot(p) EXCEPT !.cursor = Window(p, neighbours[p]).cursor, !.stable = k]
    BY DEF Timed, k
  <2> QED
    BY <1>1, <1>5, <1>8, <2>1, SnapshotType DEF Node
<1> QED
  BY <1>4, <1>6, <1>9

\* The state a peer has after it has lost a neighbour.
Parted(p, q) ==
    [Snapshot(p) EXCEPT !.cursor = Window(p, neighbours[p] \ {q}).cursor, !.remote[q] = Null]

\* A loss is followed by a publication to the window of the others.
LEMMA DisconnectedFacts ==
    ASSUME CecrTypeOK, NEW p \in Peers, NEW q \in Peers, Disconnected(p, q)
    PROVE  /\ node' = Published(p, Parted(p, q), Window(p, neighbours[p] \ {q}).peers)
           /\ Parted(p, q) \in Node
           /\ Parted(p, q).extrema = Extrema(p)
           /\ Parted(p, q).stable = Snapshot(p).stable
           /\ \A x \in Peers \ {q} : Parted(p, q).remote[x] = node[p].remote[x]
<1>1. Snapshot(p) \in Node /\ Snapshot(p).remote = node[p].remote
  BY SnapshotType
<1>2. Window(p, neighbours[p] \ {q}).cursor \in Nat
  BY WindowType DEF CecrTypeOK
<1> QED
  BY <1>1, <1>2, SnapshotType DEF Disconnected, Parted, Node

\* A new connection: both ends take a snapshot and hear each other.
LEMMA ConnectedFacts ==
    ASSUME CecrTypeOK, NEW p \in Peers, NEW q \in Peers, Connected(p, q)
    PROVE  /\ p # q
           /\ node' \in [Peers -> Node]
           /\ \A x \in {p, q} :
                 /\ node'[x].extrema = Extrema(x)
                 /\ node'[x].stable = Snapshot(x).stable
           /\ node'[p].remote = [node[p].remote EXCEPT ![q] = Heard(p, q)]
           /\ node'[q].remote = [node[q].remote EXCEPT ![p] = Heard(q, p)]
           /\ \A x \in Peers \ {p, q} : node'[x] = node[x]
<1> DEFINE np == [Snapshot(p) EXCEPT !.remote[q] = Heard(p, q)]
           nq == [Snapshot(q) EXCEPT !.remote[p] = Heard(q, p)]
<1>1. p # q
  BY CecrConstants DEF Connected
<1>2. /\ Snapshot(p) \in Node /\ Snapshot(p).remote = node[p].remote
      /\ Snapshot(q) \in Node /\ Snapshot(q).remote = node[q].remote
      /\ Snapshot(p).extrema = Extrema(p) /\ Snapshot(q).extrema = Extrema(q)
  BY SnapshotType
<1>3. Heard(p, q) \in Remote /\ Heard(q, p) \in Remote
  BY HeardType
<1>4. /\ np \in Node /\ np.extrema = Extrema(p) /\ np.stable = Snapshot(p).stable
      /\ np.remote = [node[p].remote EXCEPT ![q] = Heard(p, q)]
  BY <1>2, <1>3 DEF Node
<1>5. /\ nq \in Node /\ nq.extrema = Extrema(q) /\ nq.stable = Snapshot(q).stable
      /\ nq.remote = [node[q].remote EXCEPT ![p] = Heard(q, p)]
  BY <1>2, <1>3 DEF Node
<1>6. node' = [node EXCEPT ![p] = np, ![q] = nq]
  BY DEF Connected
<1>7. node \in [Peers -> Node]
  BY DEF CecrTypeOK
<1> HIDE DEF np, nq
<1>8. node'[p] = np /\ node'[q] = nq /\ node' \in [Peers -> Node]
      /\ \A x \in Peers \ {p, q} : node'[x] = node[x]
  BY <1>1, <1>4, <1>5, <1>6, <1>7
<1> QED
  BY <1>1, <1>4, <1>5, <1>8

\* A period ends: everything that was heard is a period older.
LEMMA PeriodFacts ==
    ASSUME CecrTypeOK, PeriodEnds
    PROVE  /\ node' \in [Peers -> Node]
           /\ \A p \in Peers :
                 /\ node'[p].extrema = node[p].extrema
                 /\ node'[p].stable = node[p].stable
                 /\ \A q \in Peers : node[p].remote[q] # Null =>
                       /\ node'[p].remote[q] # Null
                       /\ node'[p].remote[q].view = node[p].remote[q].view
<1>1. \A i \in Stamp : Grown(i) \in Stamp
  BY CecrConstants DEF Stamp, Grown, Least, Oldest
<1>2. \A i \in 0..Oldest : Grown(i) \in 0..Oldest
  BY CecrConstants DEF Grown, Least, Oldest
<1>3. \A a \in Observation \cup {Null} : Older(a) \in Observation \cup {Null}
  BY <1>1 DEF Observation, Older
<1>4. ASSUME NEW r \in Remote \cup {Null}
      PROVE  /\ Aged(r) \in Remote \cup {Null}
             /\ r # Null => Aged(r) # Null /\ Aged(r).view = r.view
  <2>1. CASE r = Null
    BY <2>1 DEF Aged
  <2>2. CASE r # Null
    <3>1. Aged(r) \in Remote /\ Aged(r).view = r.view
      BY <1>1, <1>2, <2>2 DEF Remote, Aged, Older
    <3>2. Aged(r) # Null
      BY <3>1, CecrConstants
    <3> QED
      BY <3>1, <3>2
  <2> QED
    BY <2>1, <2>2
<1> DEFINE grown(p) == [node[p] EXCEPT !.aggregate = Older(@),
                                       !.remote = [q \in Peers |-> Aged(node[p].remote[q])]]
<1>5. node' = [p \in Peers |-> grown(p)]
  BY DEF PeriodEnds
<1>6. ASSUME NEW p \in Peers
      PROVE  /\ grown(p) \in Node
             /\ grown(p).extrema = node[p].extrema /\ grown(p).stable = node[p].stable
             /\ \A q \in Peers : grown(p).remote[q] = Aged(node[p].remote[q])
  <2>1. node[p] \in Node
    BY DEF CecrTypeOK
  <2>2. \A q \in Peers : node[p].remote[q] \in Remote \cup {Null}
    BY <2>1 DEF Node
  <2>3. [q \in Peers |-> Aged(node[p].remote[q])] \in [Peers -> Remote \cup {Null}]
    BY <1>4, <2>2
  <2>4. Older(node[p].aggregate) \in Observation \cup {Null}
    BY <1>3, <2>1 DEF Node
  <2> QED
    BY <2>1, <2>3, <2>4 DEF Node
<1> HIDE DEF grown
<1>7. \A p \in Peers : \A q \in Peers : node[p].remote[q] \in Remote \cup {Null}
  BY DEF CecrTypeOK, Node
<1> QED
  BY <1>4, <1>5, <1>6, <1>7

-----------------------------------------------------------------------------
LEMMA CecrInitType == CecrInit => CecrTypeOK
<1> SUFFICES ASSUME CecrInit
             PROVE  CecrTypeOK
  OBVIOUS
<1>1. ScenarioOK(setup) /\ 0 \in 0..Rounds
  BY CecrConstants DEF CecrInit
<1>2. \A p \in Peers : [extrema |-> {}, stable |-> 0, cursor |-> 0, aggregate |-> Null,
                        remote |-> [q \in Peers |-> Null]] \in Node
  BY <1>1 DEF Node
<1> QED
  BY <1>1, <1>2 DEF CecrInit, CecrTypeOK, ScenarioOK

LEMMA CecrNextType == CecrTypeOK /\ [CecrNext]_cecrVars => CecrTypeOK'
<1> SUFFICES ASSUME CecrTypeOK, [CecrNext]_cecrVars
             PROVE  CecrTypeOK'
  OBVIOUS
<1>1. CASE PeriodEnds
  BY <1>1, PeriodFacts DEF PeriodEnds, CecrTypeOK
<1>2. ASSUME NEW p \in Peers, Sync(p)
      PROVE  CecrTypeOK'
  <2>1. node' \in [Peers -> Node]
    BY <1>2, SyncFacts, PublishedFacts
  <2> QED
    BY <1>2, <2>1 DEF Sync, CecrTypeOK
<1>3. ASSUME NEW p \in Peers, Route(p)
      PROVE  CecrTypeOK'
  BY <1>3, SnapshotType DEF Route, CecrTypeOK
<1>4. ASSUME NEW p \in Peers, ChangeView(p)
      PROVE  CecrTypeOK'
  <2>1. setup.views \subseteq SUBSET Peers
    BY CecrConstants DEF ScenarioOK, CecrTypeOK
  <2> QED
    BY <1>4, <2>1 DEF ChangeView, CecrTypeOK
<1>5. ASSUME NEW p \in Peers, Echo(p)
      PROVE  CecrTypeOK'
  <2>1. [size |-> EchoSize, seen |-> Now(p)] \in Observation
    BY NowType, CecrConstants DEF Observation
  <2> DEFINE n == [node[p] EXCEPT !.aggregate = [size |-> EchoSize, seen |-> Now(p)]]
  <2>2. n \in Node
    <3>1. node[p] \in Node
      BY DEF CecrTypeOK
    <3> QED
      BY <2>1, <3>1 DEF Node
  <2>3. node' = [node EXCEPT ![p] = n]
    BY <1>5 DEF Echo
  <2> HIDE DEF n
  <2> QED
    BY <1>5, <2>2, <2>3 DEF Echo, CecrTypeOK
<1>6. ASSUME NEW p \in Peers, NEW q \in Peers, Disconnected(p, q)
      PROVE  CecrTypeOK'
  <2>1. node' = Published(p, Parted(p, q), Window(p, neighbours[p] \ {q}).peers)
        /\ Parted(p, q) \in Node
    BY <1>6, DisconnectedFacts
  <2>2. node' \in [Peers -> Node]
    BY <2>1, PublishedFacts
  <2> QED
    BY <1>6, <2>2 DEF Disconnected, CecrTypeOK
<1>7. ASSUME NEW p \in Peers, NEW q \in Peers, Connected(p, q)
      PROVE  CecrTypeOK'
  <2>1. node' \in [Peers -> Node]
    BY <1>7, ConnectedFacts
  <2> QED
    BY <1>7, <2>1 DEF Connected, CecrTypeOK
<1>8. CASE UNCHANGED cecrVars
  BY <1>8 DEF cecrVars, CecrTypeOK
<1> QED
  BY <1>1, <1>2, <1>3, <1>4, <1>5, <1>6, <1>7, <1>8 DEF CecrNext

\* CecrTypeOK: Consensus keeps its types.
THEOREM ConsensusTypeCorrect == CecrSpec => []CecrTypeOK
  BY CecrInitType, CecrNextType, PTL DEF CecrSpec

-----------------------------------------------------------------------------
(* What neighbours know of each other.                                       *)

\* p has heard of the membership which q has had for more than m periods.
Informed(p, q, m) ==
    node[q].extrema # {} /\ node[q].stable > m =>
        /\ node[p].remote[q] # Null
        /\ node[p].remote[q].view = node[q].extrema

\* A message informs.
LEMMA HearingInforms ==
    ASSUME CecrTypeOK, NEW p \in Peers, NEW q \in Peers, NEW n \in Nat,
           node'[p].remote[q] = Heard(p, q), node'[q].extrema = Extrema(q)
    PROVE  Informed(p, q, n)'
  BY HeardType, MembershipType DEF Informed

\* What p has heard lasts while q has the same membership.
LEMMA InformedStays ==
    ASSUME CecrTypeOK, CecrTypeOK', NEW p \in Peers, NEW q \in Peers,
           NEW m \in Nat, NEW n \in Nat, Informed(p, q, m),
           node[p].remote[q] # Null => /\ node'[p].remote[q] # Null
                                       /\ node'[p].remote[q].view = node[p].remote[q].view,
           \/ node'[q].stable = 0
           \/ /\ node'[q].extrema = node[q].extrema
              /\ \/ n >= m /\ node'[q].stable <= node[q].stable
                 \/ n > m /\ node'[q].stable <= node[q].stable + 1
    PROVE  Informed(p, q, n)'
<1>1. node[q].stable \in Nat /\ node'[q].stable \in Nat
  <2>1. node[q] \in Node /\ node'[q] \in Node
    BY DEF CecrTypeOK
  <2> QED
    BY <2>1, CecrConstants DEF Node
<1>2. CASE node'[q].stable = 0
  BY <1>2 DEF Informed
<1>3. CASE node'[q].stable # 0
  <2> SUFFICES ASSUME node'[q].extrema # {}, node'[q].stable > n
               PROVE  /\ node'[p].remote[q] # Null
                      /\ node'[p].remote[q].view = node'[q].extrema
    BY DEF Informed
  <2>1. node'[q].extrema = node[q].extrema /\ node[q].stable > m
    BY <1>1, <1>3
  <2> QED
    BY <2>1 DEF Informed
<1> QED
  BY <1>2, <1>3

\* When the timer of q fires, its window is informed; the others know what
\* they knew, about a membership that is one period older.
LEMMA SyncInforms ==
    ASSUME CecrTypeOK, CecrTypeOK', NEW p \in Peers, NEW q \in Peers, p # q,
           q \in neighbours[p], NEW m \in Nat, NEW n \in Nat, Informed(p, q, m),
           NEW x \in Peers, Sync(x),
           IF x = q THEN p \in Window(q, neighbours[q]).peers \/ n > m ELSE n >= m
    PROVE  Informed(p, q, n)'
<1> DEFINE T == Window(x, neighbours[x]).peers
<1>1. node' = Published(x, Timed(x), T) /\ Timed(x) \in Node
  BY SyncFacts
<1>2. /\ node'[x] = Timed(x)
      /\ \A y \in Peers \ {x} :
            /\ node'[y].extrema = node[y].extrema
            /\ node'[y].stable = node[y].stable
            /\ \A z \in Peers \ {x} : node'[y].remote[z] = node[y].remote[z]
            /\ node'[y].remote[x] =
                 IF y \in T /\ x \in neighbours[y] THEN Heard(y, x) ELSE node[y].remote[x]
  <2> HIDE DEF T
  <2> QED
    BY <1>1, PublishedFacts
<1>3. CASE x = q /\ p \in T
  BY <1>2, <1>3, HearingInforms, SyncFacts
<1>4. CASE x = q /\ p \notin T
  <2>1. node'[p].remote[q] = node[p].remote[q] /\ n > m
    BY <1>2, <1>4
  <2>2. \/ node'[q].stable = 0
        \/ node'[q].extrema = node[q].extrema /\ node'[q].stable <= node[q].stable + 1
    BY <1>2, <1>4, SyncFacts
  <2> QED
    BY <2>1, <2>2, InformedStays
<1>5. CASE x # q
  <2>1. node'[p].remote[q] = node[p].remote[q]
    BY <1>2, <1>5, SyncFacts
  <2>2. node'[q].extrema = node[q].extrema /\ node'[q].stable = node[q].stable /\ n >= m
    BY <1>2, <1>5
  <2>3. node'[q].stable \in Nat
    <3>1. node'[q] \in Node
      BY DEF CecrTypeOK
    <3> QED
      BY <3>1, CecrConstants DEF Node
  <2> QED
    BY <2>1, <2>2, <2>3, InformedStays
<1> QED
  BY <1>3, <1>4, <1>5

\* A snapshot keeps a membership or begins a new one.
LEMMA SnapshotStays ==
    ASSUME CecrTypeOK, CecrTypeOK', NEW p \in Peers, NEW q \in Peers, NEW m \in Nat,
           NEW n \in Nat, n >= m, Informed(p, q, m),
           node'[p].remote[q] = node[p].remote[q],
           \/ node'[q].extrema = node[q].extrema /\ node'[q].stable = node[q].stable
           \/ node'[q].extrema = Extrema(q) /\ node'[q].stable = Snapshot(q).stable
    PROVE  Informed(p, q, n)'
<1>1. node'[q].stable \in Nat
  <2>1. node'[q] \in Node
    BY DEF CecrTypeOK
  <2> QED
    BY <2>1, CecrConstants DEF Node
<1>2. \/ node'[q].stable = 0
      \/ node'[q].extrema = node[q].extrema /\ node'[q].stable <= node[q].stable
  BY <1>1, SnapshotType
<1> QED
  BY <1>2, InformedStays

\* A lost neighbour is forgotten; the others may hear, or know what they knew.
LEMMA DisconnectedInforms ==
    ASSUME CecrTypeOK, CecrTypeOK', NEW p \in Peers, NEW q \in Peers, p # q,
           q \in neighbours'[p], NEW m \in Nat, NEW n \in Nat, n >= m,
           q \in neighbours[p] => Informed(p, q, m),
           NEW x \in Peers, NEW y \in Peers, Disconnected(x, y)
    PROVE  Informed(p, q, n)'
<1> DEFINE T == Window(x, neighbours[x] \ {y}).peers
<1>1. node' = Published(x, Parted(x, y), T) /\ Parted(x, y) \in Node
  BY DisconnectedFacts
<1>2. /\ node'[x] = Parted(x, y)
      /\ \A u \in Peers \ {x} :
            /\ node'[u].extrema = node[u].extrema
            /\ node'[u].stable = node[u].stable
            /\ \A z \in Peers \ {x} : node'[u].remote[z] = node[u].remote[z]
            /\ node'[u].remote[x] =
                 IF u \in T /\ x \in neighbours[u] THEN Heard(u, x) ELSE node[u].remote[x]
  <2> HIDE DEF T
  <2> QED
    BY <1>1, PublishedFacts
<1>3. q \in neighbours[p] /\ ~(p = x /\ q = y)
  BY DEF Disconnected, CecrTypeOK
<1>4. Informed(p, q, m)
  BY <1>3
<1>5. CASE x = q /\ p \in T
  BY <1>2, <1>3, <1>5, HearingInforms, DisconnectedFacts
<1>6. CASE x # q \/ p \notin T
  <2>1. node'[p].remote[q] = node[p].remote[q]
    BY <1>2, <1>3, <1>6, DisconnectedFacts
  <2>2. \/ node'[q].extrema = node[q].extrema /\ node'[q].stable = node[q].stable
        \/ node'[q].extrema = Extrema(q) /\ node'[q].stable = Snapshot(q).stable
    BY <1>2, DisconnectedFacts
  <2> QED
    BY <1>4, <2>1, <2>2, SnapshotStays
<1> QED
  BY <1>5, <1>6

\* The ends of a new connection are informed of each other.
LEMMA ConnectedInforms ==
    ASSUME CecrTypeOK, CecrTypeOK', NEW p \in Peers, NEW q \in Peers, p # q,
           q \in neighbours'[p], NEW m \in Nat, NEW n \in Nat,
           q \in neighbours[p] => n >= m,
           q \in neighbours[p] => Informed(p, q, m),
           NEW x \in Peers, NEW y \in Peers, Connected(x, y)
    PROVE  Informed(p, q, n)'
<1>1. /\ x # y
      /\ \A z \in {x, y} : node'[z].extrema = Extrema(z) /\ node'[z].stable = Snapshot(z).stable
      /\ node'[x].remote = [node[x].remote EXCEPT ![y] = Heard(x, y)]
      /\ node'[y].remote = [node[y].remote EXCEPT ![x] = Heard(y, x)]
      /\ \A z \in Peers \ {x, y} : node'[z] = node[z]
  BY ConnectedFacts
<1>2. \A z \in Peers : node[z].remote \in [Peers -> Remote \cup {Null}]
  BY DEF CecrTypeOK, Node
<1>3. CASE {p, q} = {x, y}
  <2>1. CASE p = x /\ q = y
    <3>1. node'[p].remote[q] = Heard(p, q) /\ node'[q].extrema = Extrema(q)
      BY <1>1, <1>2, <2>1
    <3> QED
      BY <3>1, HearingInforms
  <2>2. CASE p = y /\ q = x
    <3>1. node'[p].remote[q] = Heard(p, q) /\ node'[q].extrema = Extrema(q)
      BY <1>1, <1>2, <2>2
    <3> QED
      BY <3>1, HearingInforms
  <2> QED
    BY <1>3, <2>1, <2>2
<1>4. CASE {p, q} # {x, y}
  <2>1. q \in neighbours[p]
    BY <1>4 DEF Connected, CecrTypeOK
  <2>2. node'[p].remote[q] = node[p].remote[q]
    BY <1>1, <1>2, <1>4
  <2>3. \/ node'[q].extrema = node[q].extrema /\ node'[q].stable = node[q].stable
        \/ node'[q].extrema = Extrema(q) /\ node'[q].stable = Snapshot(q).stable
    BY <1>1
  <2> QED
    BY <2>1, <2>2, <2>3, SnapshotStays
<1> QED
  BY <1>3, <1>4

\* Whatever happens, a neighbour stays informed up to a number of periods that
\* grows when it is left out of a round.
LEMMA StepInforms ==
    ASSUME CecrTypeOK, CecrTypeOK', [CecrNext]_cecrVars,
           NEW p \in Peers, NEW q \in Peers, p # q, q \in neighbours'[p],
           NEW m \in Nat, NEW n \in Nat,
           q \in neighbours[p] =>
              /\ Informed(p, q, m)
              /\ IF q \in synced' \ synced THEN p \in Window(q, neighbours[q]).peers \/ n > m
                                           ELSE n >= m
    PROVE  Informed(p, q, n)'
<1>1. CASE PeriodEnds
  <2>1. q \in neighbours[p] /\ n >= m
    BY <1>1 DEF PeriodEnds
  <2>2. node'[q].stable \in Nat
    BY CecrConstants DEF CecrTypeOK, Node
  <2> QED
    BY <1>1, <2>1, <2>2, PeriodFacts, InformedStays
<1>2. ASSUME NEW x \in Peers, Sync(x)
      PROVE  Informed(p, q, n)'
  <2>1. q \in neighbours[p] /\ (q \in synced' \ synced <=> x = q)
    BY <1>2 DEF Sync
  <2> QED
    BY <1>2, <2>1, SyncInforms
<1>3. ASSUME NEW x \in Peers, Route(x)
      PROVE  Informed(p, q, n)'
  <2>1. q \in neighbours[p] /\ n >= m
    BY <1>3 DEF Route
  <2>2. /\ node'[p].remote[q] = node[p].remote[q]
        /\ \/ node'[q].extrema = node[q].extrema /\ node'[q].stable = node[q].stable
           \/ node'[q].extrema = Extrema(q) /\ node'[q].stable = Snapshot(q).stable
    BY <1>3, SnapshotType DEF Route, CecrTypeOK
  <2> QED
    BY <2>1, <2>2, SnapshotStays
<1>4. ASSUME NEW x \in Peers, ChangeView(x)
      PROVE  Informed(p, q, n)'
  <2>1. q \in neighbours[p] /\ n >= m /\ node' = node
    BY <1>4 DEF ChangeView
  <2> QED
    BY <2>1, SnapshotStays
<1>5. ASSUME NEW x \in Peers, Echo(x)
      PROVE  Informed(p, q, n)'
  <2>1. q \in neighbours[p] /\ n >= m
    BY <1>5 DEF Echo
  <2>2. /\ node'[p].remote[q] = node[p].remote[q]
        /\ node'[q].extrema = node[q].extrema /\ node'[q].stable = node[q].stable
    BY <1>5 DEF Echo, CecrTypeOK, Node
  <2> QED
    BY <2>1, <2>2, SnapshotStays
<1>6. ASSUME NEW x \in Peers, NEW y \in Peers, Disconnected(x, y)
      PROVE  Informed(p, q, n)'
  <2>1. q \in neighbours[p] /\ n >= m
    BY <1>6 DEF Disconnected, CecrTypeOK
  <2> QED
    BY <1>6, <2>1, DisconnectedInforms
<1>7. ASSUME NEW x \in Peers, NEW y \in Peers, Connected(x, y)
      PROVE  Informed(p, q, n)'
  <2>1. q \in neighbours[p] => n >= m
    BY <1>7 DEF Connected
  <2> QED
    BY <1>7, <2>1, ConnectedInforms
<1>8. CASE UNCHANGED cecrVars
  <2>1. q \in neighbours[p] /\ n >= m /\ node' = node
    BY <1>8 DEF cecrVars
  <2> QED
    BY <2>1, SnapshotStays
<1> QED
  BY <1>1, <1>2, <1>3, <1>4, <1>5, <1>6, <1>7, <1>8 DEF CecrNext

\* Two neighbours in consensus, one of them informed of the other, agree.
LEMMA ConsensusIsShared ==
    ASSUME CecrTypeOK, NEW p \in Peers, NEW q \in neighbours[p],
           NEW m \in Nat, m < Rounds, p # q => Informed(p, q, m),
           InConsensus(p), InConsensus(q)
    PROVE  canonical[p] \cup {p} = canonical[q] \cup {q}
<1>1. q \in Peers
  BY DEF CecrTypeOK
<1>2. CASE p = q
  BY <1>2
<1>3. CASE p # q
  <2>1. /\ Extrema(p) = canonical[p] \cup {p} /\ Extrema(q) = canonical[q] \cup {q}
        /\ Extrema(q) # {}
    BY <1>1, MembershipType, SnapshotType DEF InConsensus
  <2>2. node[p].remote[q].view = Extrema(p)
    BY SnapshotType DEF InConsensus
  <2>3. Snapshot(q).stable >= Rounds
    BY DEF InConsensus
  <2>4. node[q].extrema = Extrema(q) /\ node[q].stable > m
    <3>1. Snapshot(q).stable # 0
      BY <2>3, CecrConstants
    <3>2. node[q].stable \in Nat
      BY <1>1, CecrConstants DEF CecrTypeOK, Node
    <3> QED
      BY <1>1, <2>3, <3>1, <3>2, CecrConstants, SnapshotType
  <2> QED
    BY <1>3, <2>1, <2>2, <2>4 DEF Informed
<1> QED
  BY <1>2, <1>3

-----------------------------------------------------------------------------
(* Agreement, for any fan-out.                                               *)

\* missed[q][p] is history: how often in a row the timer of q has left out p,
\* which has q as a neighbour.
VARIABLE missed

NoneMissed == missed = [q \in Peers |-> [p \in Peers |-> 0]]

Counts ==
    missed' = [q \in Peers |-> [p \in Peers |->
        IF q \notin neighbours[p] \cap neighbours'[p] THEN 0
        ELSE IF q \notin synced' \ synced THEN missed[q][p]
        ELSE IF p \in Window(q, neighbours[q]).peers THEN 0
        ELSE missed[q][p] + 1]]

Counted == NoneMissed /\ [][Counts]_<<cecrVars, missed>>

\* No timer leaves out a neighbour for cecrConvergenceRounds rounds.
Attentive == \A p \in Peers : \A q \in neighbours[p] : missed[q][p] < Rounds

\* The inductive invariant: who has not heard of a membership was left out for
\* as long as it lasts.
MissedInv ==
    /\ CecrTypeOK
    /\ missed \in [Peers -> [Peers -> Nat]]
    /\ \A p, q \in Peers : p # q /\ q \in neighbours[p] => Informed(p, q, missed[q][p])

LEMMA InitMissedInv == CecrInit /\ NoneMissed => MissedInv
<1> SUFFICES ASSUME CecrInit, NoneMissed
             PROVE  MissedInv
  OBVIOUS
<1>1. CecrTypeOK
  BY CecrInitType
<1>2. missed \in [Peers -> [Peers -> Nat]]
  BY DEF NoneMissed
<1>3. \A p, q \in Peers : Informed(p, q, missed[q][p])
  BY DEF CecrInit, Informed
<1> QED
  BY <1>1, <1>2, <1>3 DEF MissedInv

LEMMA NextMissedInv ==
    MissedInv /\ [CecrNext]_cecrVars /\ [Counts]_<<cecrVars, missed>> => MissedInv'
<1> SUFFICES ASSUME MissedInv, [CecrNext]_cecrVars, [Counts]_<<cecrVars, missed>>
             PROVE  MissedInv'
  OBVIOUS
<1>1. CecrTypeOK /\ CecrTypeOK'
  BY CecrNextType DEF MissedInv
<1>2. CASE Counts
  <2>1. missed \in [Peers -> [Peers -> Nat]]
    BY DEF MissedInv
  <2>2. missed' \in [Peers -> [Peers -> Nat]]
    BY <1>2, <2>1 DEF Counts
  <2>3. ASSUME NEW p \in Peers, NEW q \in Peers, p # q, q \in neighbours'[p]
        PROVE  Informed(p, q, missed[q][p])'
    <3>1. PICK m \in Nat : m = missed[q][p]
      BY <2>1
    <3>2. PICK n \in Nat : n = missed'[q][p]
      BY <2>2
    <3>3. q \in neighbours[p] =>
             IF q \in synced' \ synced THEN p \in Window(q, neighbours[q]).peers \/ n > m
                                        ELSE n >= m
      BY <1>2, <2>3, <3>1, <3>2 DEF Counts
    <3>4. q \in neighbours[p] => Informed(p, q, m)
      BY <2>3, <3>1 DEF MissedInv
    <3>5. Informed(p, q, n)'
      BY <1>1, <2>3, <3>3, <3>4, StepInforms
    <3> QED
      BY <3>2, <3>5 DEF Informed
  <2> QED
    BY <1>1, <2>2, <2>3 DEF MissedInv
<1>3. CASE UNCHANGED <<cecrVars, missed>>
  BY <1>1, <1>3 DEF MissedInv, cecrVars, Informed
<1> QED
  BY <1>2, <1>3

\* NeighboursAgree, whatever the fan-out leaves out, as long as it leaves nobody
\* out for cecrConvergenceRounds rounds.
THEOREM AgreeUnlessLeftOut == CecrSpec /\ Counted => [](Attentive => NeighboursAgree)
<1>1. MissedInv => (Attentive => NeighboursAgree)
  <2> SUFFICES ASSUME MissedInv, Attentive, NEW p \in Peers, NEW q \in neighbours[p],
                      InConsensus(p), InConsensus(q)
               PROVE  canonical[p] \cup {p} = canonical[q] \cup {q}
    BY DEF NeighboursAgree
  <2>1. CecrTypeOK /\ q \in Peers
    BY DEF MissedInv, CecrTypeOK
  <2>2. PICK m \in Nat : m = missed[q][p]
    BY <2>1 DEF MissedInv
  <2>3. m < Rounds /\ (p # q => Informed(p, q, m))
    BY <2>1, <2>2 DEF MissedInv, Attentive
  <2> QED
    BY <2>1, <2>3, ConsensusIsShared
<1> QED
  BY <1>1, InitMissedInv, NextMissedInv, PTL DEF CecrSpec, Counted

-----------------------------------------------------------------------------
(* Agreement, for a fan-out that is wide enough.                             *)

\* cecrFanout covers every neighbour.
FanOutCovers ==
    \A p \in Peers :
        Cardinality(neighbours[p]) <= CeilLog2(Cardinality(canonical[p] \cup {p}))

\* Then a round leaves nobody out.
LEMMA WindowIsFull ==
    ASSUME CecrTypeOK, FanOutCovers, NEW p \in Peers
    PROVE  Window(p, neighbours[p]).peers = neighbours[p]
<1> DEFINE S == neighbours[p]
           n == Cardinality(S)
           liveN == Cardinality(canonical[p] \cup {p})
           at == node[p].cursor
<1>1. IsFiniteSet(S) /\ S \ {} = S
  BY CecrConstants, FS_Subset DEF CecrTypeOK
<1>2. n \in Nat /\ liveN \in Nat /\ at \in Nat
  BY <1>1, FS_CardinalityType, MembershipType DEF CecrTypeOK, Node
<1>3. CeilLog2(liveN) \in Nat /\ n <= CeilLog2(liveN)
  BY <1>2, CeilLog2Type DEF FanOutCovers
<1>4. CecrFanout(n, liveN) = n
  BY <1>2, <1>3 DEF CecrFanout
<1>5. Window(p, S) = SelectFanoutPeers(S, {}, at, liveN)
  BY DEF Window
<1> HIDE DEF S, liveN, at
<1>6. CASE n = 0
  <2>1. S = {}
    BY <1>1, <1>6, FS_EmptySet
  <2> QED
    BY <1>1, <1>4, <1>5, <1>6, <2>1 DEF SelectFanoutPeers, S
<1>7. CASE n > 0
  <2> DEFINE start == at % n
  <2>1. start \in Nat /\ start < n
    BY <1>2, <1>7, RemainderType
  <2>2. SelectFanoutPeers(S, {}, at, liveN).peers
          = {x \in S : (Position(x, S) + n - start) % n < n}
    BY <1>1, <1>2, <1>4, <1>7 DEF SelectFanoutPeers
  <2>3. ASSUME NEW x \in S
        PROVE  (Position(x, S) + n - start) % n < n
    <3>1. IsFiniteSet({y \in S : y < x})
      BY <1>1, FS_Subset
    <3>2. Position(x, S) \in Nat
      BY <3>1, FS_CardinalityType DEF Position
    <3> HIDE DEF start, n
    <3>3. Position(x, S) + n - start \in Nat
      BY <1>2, <2>1, <3>2
    <3> QED
      BY <1>2, <1>7, <3>3, RemainderType
  <2> QED
    BY <1>5, <2>2, <2>3 DEF S
<1> QED
  BY <1>2, <1>6, <1>7

\* A peer that has closed its end of a connection leaves out the other one,
\* once, before the other notices.
Lag(p, q) == IF p \in neighbours[q] \/ q \notin synced THEN 0 ELSE 1

\* The inductive invariant.
LagInv ==
    /\ CecrTypeOK
    /\ \A p, q \in Peers : p # q /\ q \in neighbours[p] => Informed(p, q, Lag(p, q))

LEMMA InitLagInv == CecrInit => LagInv
<1> SUFFICES ASSUME CecrInit
             PROVE  LagInv
  OBVIOUS
<1>1. CecrTypeOK
  BY CecrInitType
<1>2. \A p, q \in Peers : Informed(p, q, Lag(p, q))
  BY DEF CecrInit, Informed
<1> QED
  BY <1>1, <1>2 DEF LagInv

\* What a step may do to a connection that one end has closed.
LEMMA LagSteps ==
    ASSUME CecrTypeOK, [CecrNext]_cecrVars, NEW p \in Peers, NEW q \in Peers,
           q \in neighbours[p]
    PROVE  /\ q \in synced' \ synced => neighbours' = neighbours
           /\ Lag(p, q) = 1 => Lag(p, q)' = 1
<1> DEFINE Goal == /\ q \in synced' \ synced => neighbours' = neighbours
                   /\ Lag(p, q) = 1 => Lag(p, q)' = 1
<1>1. CASE PeriodEnds
  BY <1>1 DEF PeriodEnds, Lag
<1>2. ASSUME NEW x \in Peers, Sync(x)
      PROVE  Goal
  BY <1>2 DEF Sync, Lag
<1>3. CASE neighbours' = neighbours /\ synced' = synced
  BY <1>3 DEF Lag
<1>4. ASSUME NEW x \in Peers, NEW y \in Peers, Disconnected(x, y)
      PROVE  Goal
  BY <1>4 DEF Disconnected, Lag, CecrTypeOK
<1>5. ASSUME NEW x \in Peers, NEW y \in Peers, Connected(x, y)
      PROVE  Goal
  BY <1>5 DEF Connected, Lag, CecrTypeOK
<1>6. ASSUME NEW x \in Peers, Route(x) \/ ChangeView(x) \/ Echo(x)
      PROVE  Goal
  BY <1>3, <1>6 DEF Route, ChangeView, Echo
<1>7. CASE UNCHANGED cecrVars
  BY <1>3, <1>7 DEF cecrVars
<1> QED
  BY <1>1, <1>2, <1>4, <1>5, <1>6, <1>7 DEF CecrNext

LEMMA NextLagInv == LagInv /\ FanOutCovers /\ [CecrNext]_cecrVars => LagInv'
<1> SUFFICES ASSUME LagInv, FanOutCovers, [CecrNext]_cecrVars
             PROVE  LagInv'
  OBVIOUS
<1>1. CecrTypeOK /\ CecrTypeOK'
  BY CecrNextType DEF LagInv
<1>2. ASSUME NEW p \in Peers, NEW q \in Peers, p # q, q \in neighbours'[p]
      PROVE  Informed(p, q, Lag(p, q))'
  <2>1. PICK m \in {0, 1} : m = Lag(p, q)
    BY DEF Lag
  <2>2. PICK n \in {0, 1} : n = Lag(p, q)'
    BY DEF Lag
  <2>3. ASSUME q \in neighbours[p]
        PROVE  IF q \in synced' \ synced THEN p \in Window(q, neighbours[q]).peers \/ n > m
                                          ELSE n >= m
    <3>1. /\ q \in synced' \ synced => neighbours' = neighbours
          /\ m = 1 => n = 1
      BY <1>1, <2>1, <2>2, <2>3, LagSteps
    <3>2. CASE q \in synced' \ synced
      <4>1. CASE p \in neighbours[q]
        BY <1>1, <3>2, <4>1, WindowIsFull
      <4>2. CASE p \notin neighbours[q]
        BY <2>1, <2>2, <3>1, <3>2, <4>2 DEF Lag
      <4> QED
        BY <4>1, <4>2
    <3>3. CASE q \notin synced' \ synced
      BY <3>1, <3>3
    <3> QED
      BY <3>2, <3>3
  <2>4. q \in neighbours[p] => Informed(p, q, m)
    BY <1>2, <2>1 DEF LagInv
  <2>5. Informed(p, q, n)'
    BY <1>1, <1>2, <2>3, <2>4, StepInforms
  <2> QED
    BY <2>2, <2>5 DEF Informed
<1> QED
  BY <1>1, <1>2 DEF LagInv

\* NeighboursAgree in an overlay whose degrees stay within the fan-out, if the
\* consensus asks for two rounds or more.
THEOREM AgreeWithinFanOut ==
    ASSUME Rounds > 1
    PROVE  CecrSpec /\ []FanOutCovers => []NeighboursAgree
<1>1. LagInv => NeighboursAgree
  <2> SUFFICES ASSUME LagInv, NEW p \in Peers, NEW q \in neighbours[p],
                      InConsensus(p), InConsensus(q)
               PROVE  canonical[p] \cup {p} = canonical[q] \cup {q}
    BY DEF NeighboursAgree
  <2>1. CecrTypeOK /\ q \in Peers
    BY DEF LagInv, CecrTypeOK
  <2>2. PICK m \in {0, 1} : m = Lag(p, q)
    BY DEF Lag
  <2>3. m < Rounds /\ (p # q => Informed(p, q, m))
    BY <2>1, <2>2, CecrConstants DEF LagInv
  <2> QED
    BY <2>1, <2>3, ConsensusIsShared
<1> QED
  BY <1>1, InitLagInv, NextLagInv, PTL DEF CecrSpec
=============================================================================
