------------------------------- MODULE Gossip -------------------------------
(***************************************************************************)
(* Dissemination of ordinary broadcasts by GossipProtocol                  *)
(* (src/src/gossip.ts): eager fan-out, the de-duplication log, retention   *)
(* of payloads and their repair by anti-entropy until the spread deadline. *)
(* Broadcasts here ask for no delivery tracking (neither trackDelivery nor *)
(* aggregateDelivery).                                                     *)
(*                                                                         *)
(* Time is counted in ticks; Date.now() of peer p reads now + Skew[p].     *)
(* A handler, and the microtask it may queue, run without interleaving at  *)
(* their peer.  An RTC data channel is an ordered queue per direction.     *)
(***************************************************************************)
EXTENDS Integers, Sequences, FiniteSets, FanOut

CONSTANTS
    Peer,               \* peer identifiers, as integers in sorted order
    Msg,                \* identifiers of broadcasts
    None,               \* "no entry" in a Map
    Skew,               \* offset of each peer's clock
    SpreadTimeout,      \* deliveryTimeoutMs: life of a broadcast
    TrackingRetention,  \* trackingRetentionMs
    CleanupAges,        \* arguments the application passes to cleanup()
    MaxTracked,         \* maxTrackedMessages
    SummarySize,        \* antiEntropySummarySize
    RequestSize,        \* antiEntropyRequestSize
    MaxHops,            \* option maxHops
    Links,              \* pairs of peers that may open a channel
    InitialLinks,       \* those open at the start
    InitialView,        \* live membership view of each peer at the start
    Views,              \* views the membership layer may report later
    MaxTime,            \* bound: last tick
    MaxFaults,          \* bound: channel losses and view changes together
    MaxInFlight         \* bound: the sync timer fires only below this queue length

ASSUME GossipAssumption ==
    /\ Peer \subseteq Nat /\ IsFiniteSet(Peer)
    /\ IsFiniteSet(Msg)
    /\ Skew \in [Peer -> Nat]
    /\ SpreadTimeout \in Nat \ {0} /\ TrackingRetention \in Nat
    /\ CleanupAges \subseteq Nat
    /\ MaxTracked \in Nat \ {0} /\ SummarySize \in Nat \ {0}
    /\ RequestSize \in Nat \ {0} /\ MaxHops \in Nat
    /\ Links \subseteq SUBSET Peer /\ InitialLinks \subseteq Links
    /\ InitialView \in [Peer -> SUBSET Peer]
    /\ \A p \in Peer : p \in InitialView[p]
    /\ Views \subseteq SUBSET Peer
    /\ MaxTime \in Nat /\ MaxFaults \in Nat /\ MaxInFlight \in Nat
    /\ None \notin Nat /\ None \notin Msg
    /\ None \notin [sender : Peer, sentAt : Nat, maxHops : Nat, view : SUBSET Peer]
    /\ None \notin [hops : Nat, at : Nat, view : SUBSET Peer]

VARIABLES
    now,        \* real time in ticks
    conn,       \* conn[p]: getConnectedPeers() of p
    view,       \* view[p]: canonicalPeerSet() of p
    chan,       \* chan[p][q]: packets sent by p that q has not handled yet
    info,       \* info[m]: the envelope of m, None before its broadcast
    seenAt,     \* seenAt[p][m]: messageLog timestamp, None when not logged
    retained,   \* retained[p][m]: retainedMessages entry, None when absent
    queued,     \* queued[p]: initialSpreadRepairQueued
    cursor,     \* cursor[p]: gossipFanoutCursor and antiEntropyFanoutCursor
    delivered,  \* delivered[p][m]: messageReceived events raised so far
    faults      \* channel losses and view changes so far

vars == <<now, conn, view, chan, info, seenAt, retained, queued, cursor,
          delivered, faults>>

-----------------------------------------------------------------------------
(* Data *)

Envelope == [sender : Peer, sentAt : Nat, maxHops : Nat, view : SUBSET Peer]
Retention == [hops : Nat, at : Nat, view : SUBSET Peer]

\* `repair' tells a payload served by anti-entropy from one spread eagerly;
\* the code does not read it.
GossipPacket == [type : {"gossip"}, id : Msg, hops : Nat, repair : BOOLEAN]
AntiEntropyPacket == [type : {"summary", "request"}, ids : SUBSET Msg]
Packet == GossipPacket \cup AntiEntropyPacket

Clock(p) == now + Skew[p]

\* initialSpreadDeadlineAt, and the test against the clock of p.
DeadlineAt(env) == env.sentAt + SpreadTimeout
NeverExpired(p, env) == FALSE           \* faulty variant
Expired(p, env) == Clock(p) > DeadlineAt(env)

MaxOf(a, b) == IF a < b THEN b ELSE a

\* Packets out[q] written by p to every q; they are lost where the other
\* side has closed the channel.
Transmit(p, queues, out) ==
    [queues EXCEPT ![p] = [q \in Peer |->
        IF p \in conn[q] THEN queues[p][q] \o out[q] ELSE queues[p][q]]]

Silence == [q \in Peer |-> <<>>]

\* chan after p has taken the first packet from q.
Taken(p, q) == [chan EXCEPT ![q] = [chan[q] EXCEPT ![p] = Tail(@)]]

-----------------------------------------------------------------------------
(* Tracking tables *)

Present(f) == {m \in Msg : f[m] # None}

\* Ids with the least stamp, the newly inserted id m apart: Map iteration
\* order is insertion order; ticks do not order insertions of one tick.
OldestPresent(log, m) ==
    {x \in Present(log) \ {m} : \A y \in Present(log) \ {m} : log[x] <= log[y]}
OldestRetained(ret, m) ==
    {x \in Present(ret) \ {m} : \A y \in Present(ret) \ {m} : ret[x].at <= ret[y].at}

Without(f, ids) == [m \in Msg |-> IF m \in ids THEN None ELSE f[m]]

\* Faulty variant: the neighbourhood taken for the live view.
RetainNeighbourhood(p, m, hops) ==
    IF retained[p][m] # None THEN {retained[p]}
    ELSE {[retained[p] EXCEPT ![m] =
              [hops |-> hops, at |-> Clock(p), view |-> conn[p] \cup {p}]]}

\* retainGossipMessage: the possible tables after retaining m with `hops'.
Retain(p, m, hops) ==
    IF retained[p][m] # None THEN {retained[p]}
    ELSE LET entry == [hops |-> hops, at |-> Clock(p), view |-> view[p]]
             ret == [retained[p] EXCEPT ![m] = entry]
         IN  IF Cardinality(Present(ret)) <= MaxTracked THEN {ret}
             ELSE {Without(ret, {x}) : x \in OldestRetained(ret, m)}

\* Faulty variants: entries pruned one tick early, and payloads left behind
\* by their log entries.
PruneEarly(p, log, ret, env, m) ==
    LET old == {x \in Present(log) : log[x] <= Clock(p) - TrackingRetention}
    IN  {[log |-> Without(log, old), ret |-> Without(ret, old)]}
PruneLogAlone(p, log, ret, env, m) ==
    LET old == {x \in Present(log) : log[x] < Clock(p) - TrackingRetention}
    IN  {[log |-> Without(log, old), ret |-> ret]}

\* pruneTracking: age limit of the log, size limit (the log drops its oldest
\* entry, never the new one m), then age limit and deadline of payloads.
Prune(p, log, ret, env, m) ==
    LET old == {x \in Present(log) : log[x] < Clock(p) - TrackingRetention}
        log1 == Without(log, old)
        victims == IF Cardinality(Present(log1)) <= MaxTracked THEN {{}}
                   ELSE {{x} : x \in OldestPresent(log1, m)}
        stale == {x \in Present(ret) : \/ ret[x].at < Clock(p) - TrackingRetention
                                      \/ Expired(p, env[x])}
    IN  {[log |-> Without(log1, v), ret |-> Without(ret, old \cup v \cup stale)] :
            v \in victims}

\* messageLog.set(m) and the pruning it triggers when the log overflows.
LogMessage(p, ret, env, m) ==
    LET log == [seenAt[p] EXCEPT ![m] = Clock(p)]
    IN  IF Cardinality(Present(log)) <= MaxTracked
        THEN {[log |-> log, ret |-> ret]}
        ELSE Prune(p, log, ret, env, m)

-----------------------------------------------------------------------------
(* Sending *)

\* propagate: m goes to the fan-out window, never to its sender nor to the
\* peer it came from.
Propagate(p, m, hops, excluded) ==
    LET sel == SelectFanoutPeers(conn[p], excluded, cursor[p].gossip,
                                 Cardinality(view[p]))
    IN  [out |-> [q \in Peer |->
                    IF q \in sel.peers
                    THEN <<[type |-> "gossip", id |-> m, hops |-> hops + 1,
                            repair |-> FALSE]>>
                    ELSE <<>>],
         cursor |-> [gossip |-> sel.cursor, antiEntropy |-> cursor[p].antiEntropy]]

\* canContinueInitialSpread for a retained payload and a target.
CanRepair(p, m, target) ==
    /\ ~Expired(p, info[m])
    /\ retained[p][m].view = view[p]
    /\ target \in view[p]

\* recentRetainedMessageIds: the SummarySize youngest repairable payloads.
RecentRetained(p, target) ==
    LET ids == {m \in Present(retained[p]) :
                   /\ retained[p][m].at >= Clock(p) - TrackingRetention
                   /\ CanRepair(p, m, target)}
    IN  IF Cardinality(ids) <= SummarySize THEN {ids}
        ELSE {s \in SUBSET ids :
                /\ Cardinality(s) = SummarySize
                /\ \A x \in s, y \in ids \ s :
                      retained[p][x].at >= retained[p][y].at}

\* publishGossipAntiEntropy: one summary to every target that has one.  All
\* targets in the view are offered the same ids, the others none.
Summaries(p, targets) ==
    {[q \in Peer |-> IF q \in targets /\ q \in view[p] /\ ids # {}
                     THEN <<[type |-> "summary", ids |-> ids]>> ELSE <<>>] :
        ids \in RecentRetained(p, p)}

-----------------------------------------------------------------------------
(* Application calls *)

\* maxHops of a new broadcast: room for sparse paths through every known peer.
HopBudget(p) ==
    LET networkSize == MaxOf(Cardinality(conn[p]), MaxOf(Cardinality(view[p]) - 1, 1))
    IN  MaxOf(MaxHops, networkSize * 2)

\* broadcast: record, retain, log, spread, raise the local event.
Broadcast(p, m) ==
    /\ info[m] = None
    /\ LET env == [info EXCEPT ![m] =
                     [sender |-> p, sentAt |-> Clock(p), view |-> view[p],
                      maxHops |-> HopBudget(p)]]
           spread == Propagate(p, m, 0, {p})
       IN  /\ info' = env
           /\ \E ret \in Retain(p, m, 0) : \E t \in LogMessage(p, ret, env, m) :
                 /\ seenAt' = [seenAt EXCEPT ![p] = t.log]
                 /\ retained' = [retained EXCEPT ![p] = t.ret]
           /\ chan' = Transmit(p, chan, spread.out)
           /\ cursor' = [cursor EXCEPT ![p] = spread.cursor]
    /\ queued' = [queued EXCEPT ![p] = TRUE]
    /\ delivered' = [delivered EXCEPT ![p][m] = @ + 1]
    /\ UNCHANGED <<now, conn, view, faults>>

\* cleanup(maxAgeMs).
Cleanup(p, age) ==
    LET old == {m \in Present(seenAt[p]) : Clock(p) - seenAt[p][m] > age}
    IN  /\ ~queued[p]
        /\ seenAt' = [seenAt EXCEPT ![p] = Without(@, old)]
        /\ retained' = [retained EXCEPT ![p] = Without(@, old)]
        /\ UNCHANGED <<now, conn, view, chan, info, queued, cursor, delivered,
                       faults>>

-----------------------------------------------------------------------------
(* Packet handlers *)

\* p is free to handle an event and the oldest packet from q is of type t.
Arrived(p, q, t) ==
    /\ ~queued[p]
    /\ chan[q][p] # <<>>
    /\ Head(chan[q][p]).type = t

\* handleIncomingMessage of a payload past its deadline.
DropLate(p, q) ==
    /\ Arrived(p, q, "gossip")
    /\ Expired(p, info[Head(chan[q][p]).id])
    /\ chan' = Taken(p, q)
    /\ UNCHANGED <<now, conn, view, info, seenAt, retained, queued, cursor,
                   delivered, faults>>

\* handleIncomingMessage of a known id: the payload is retained again when it
\* had been evicted, nothing else happens.
ReceiveDuplicate(p, q) ==
    /\ Arrived(p, q, "gossip")
    /\ LET pkt == Head(chan[q][p])
       IN  /\ ~Expired(p, info[pkt.id])
           /\ seenAt[p][pkt.id] # None
           /\ \E ret \in Retain(p, pkt.id, pkt.hops) :
                 retained' = [retained EXCEPT ![p] = ret]
           /\ queued' = [queued EXCEPT ![p] = (retained[p][pkt.id] = None)]
    /\ chan' = Taken(p, q)
    /\ UNCHANGED <<now, conn, view, info, seenAt, cursor, delivered, faults>>

\* handleIncomingMessage of a new id: retain, log, deliver, spread on.
ReceiveNew(p, q) ==
    /\ Arrived(p, q, "gossip")
    /\ LET pkt == Head(chan[q][p])
           m == pkt.id
           spread == IF pkt.hops < info[m].maxHops
                     THEN Propagate(p, m, pkt.hops, {info[m].sender, q})
                     ELSE [out |-> Silence, cursor |-> cursor[p]]
       IN  /\ ~Expired(p, info[m])
           /\ seenAt[p][m] = None
           /\ \E ret \in Retain(p, m, pkt.hops) :
                 \E t \in LogMessage(p, ret, info, m) :
                    /\ seenAt' = [seenAt EXCEPT ![p] = t.log]
                    /\ retained' = [retained EXCEPT ![p] = t.ret]
           /\ queued' = [queued EXCEPT ![p] = (retained[p][m] = None)]
           /\ chan' = Transmit(p, Taken(p, q), spread.out)
           /\ cursor' = [cursor EXCEPT ![p] = spread.cursor]
           /\ delivered' = [delivered EXCEPT ![p][m] = @ + 1]
    /\ UNCHANGED <<now, conn, view, info, faults>>

\* handleGossipAntiEntropy of a summary: ask for payloads that are not
\* retained, whether or not their ids are logged.
ReceiveSummary(p, q) ==
    /\ Arrived(p, q, "summary")
    /\ LET missing == {m \in Head(chan[q][p]).ids : retained[p][m] = None}
           asked == IF Cardinality(missing) <= RequestSize THEN {missing}
                    ELSE {s \in SUBSET missing : Cardinality(s) = RequestSize}
       IN  \E ids \in asked :
              chan' = Transmit(p, Taken(p, q),
                        [Silence EXCEPT ![q] =
                           IF ids = {} THEN <<>>
                           ELSE <<[type |-> "request", ids |-> ids]>>])
    /\ UNCHANGED <<now, conn, view, info, seenAt, retained, queued, cursor,
                   delivered, faults>>

\* handleGossipAntiEntropy of a request: serve what may still be repaired,
\* one hop further than the copy retained here.
ReceiveRequest(p, q) ==
    /\ Arrived(p, q, "request")
    /\ LET ids == {m \in Head(chan[q][p]).ids :
                      retained[p][m] # None /\ CanRepair(p, m, q)}
       IN  \E order \in [1..Cardinality(ids) -> ids] :
              /\ \A m \in ids : \E i \in 1..Cardinality(ids) : order[i] = m
              /\ chan' = Transmit(p, Taken(p, q),
                           [Silence EXCEPT ![q] =
                              [i \in 1..Cardinality(ids) |->
                                 [type |-> "gossip", id |-> order[i],
                                  hops |-> retained[p][order[i]].hops + 1,
                                  repair |-> TRUE]]])
    /\ UNCHANGED <<now, conn, view, info, seenAt, retained, queued, cursor,
                   delivered, faults>>

-----------------------------------------------------------------------------
(* Microtask, timers, mesh events *)

\* Summaries to the anti-entropy fan-out window.
PublishToFanOut(p) ==
    LET sel == SelectFanoutPeers(conn[p], {}, cursor[p].antiEntropy,
                                 Cardinality(view[p]))
    IN  /\ \E out \in Summaries(p, sel.peers) : chan' = Transmit(p, chan, out)
        /\ cursor' = [cursor EXCEPT ![p] = [gossip |-> cursor[p].gossip,
                                            antiEntropy |-> sel.cursor]]

\* scheduleInitialSpreadRepair's microtask: no other event of p comes first.
RepairMicrotask(p) ==
    /\ queued[p]
    /\ queued' = [queued EXCEPT ![p] = FALSE]
    /\ PublishToFanOut(p)
    /\ UNCHANGED <<now, conn, view, info, seenAt, retained, delivered, faults>>

\* Bound: the answers to one round arrive within the two seconds to the next.
PreviousRoundOver(p, q) ==
    /\ Len(chan[p][q]) < MaxInFlight
    /\ \A i \in DOMAIN chan[q][p] : chan[q][p][i].type # "request"

\* The two-second timer of startCecrSyncLoop.
SyncTimer(p) ==
    /\ ~queued[p]
    /\ \A q \in Peer : PreviousRoundOver(p, q)
    /\ PublishToFanOut(p)
    /\ UNCHANGED <<now, conn, view, info, seenAt, retained, queued, delivered,
                   faults>>

\* The thirty-second timer of startTrackingCleanupLoop.
PruneTimer(p) ==
    /\ ~queued[p]
    /\ \E t \in Prune(p, seenAt[p], retained[p], info, None) :
          /\ seenAt' = [seenAt EXCEPT ![p] = t.log]
          /\ retained' = [retained EXCEPT ![p] = t.ret]
    /\ UNCHANGED <<now, conn, view, chan, info, queued, cursor, delivered,
                   faults>>

\* peer:connected: a summary for the new neighbour alone.
PeerConnected(p, q) ==
    /\ ~queued[p]
    /\ {p, q} \in Links /\ p # q /\ q \notin conn[p]
    /\ conn' = [conn EXCEPT ![p] = @ \cup {q}]
    /\ \E out \in Summaries(p, {q}) : chan' = Transmit(p, chan, out)
    /\ UNCHANGED <<now, view, info, seenAt, retained, queued, cursor, delivered,
                   faults>>

\* peer:disconnected at p: what q still had under way is lost.  The other
\* side notices in a step of its own, or p is back before it does.
PeerDisconnected(p, q) ==
    /\ ~queued[p]
    /\ q \in conn[p]
    /\ faults < MaxFaults /\ faults' = faults + 1
    /\ conn' = [conn EXCEPT ![p] = @ \ {q}]
    /\ chan' = [chan EXCEPT ![q] = [chan[q] EXCEPT ![p] = <<>>]]
    /\ UNCHANGED <<now, view, info, seenAt, retained, queued, cursor, delivered>>

\* The membership layer reports another live view to p.
ViewChanged(p, v) ==
    /\ ~queued[p]
    /\ p \in v /\ v # view[p]
    /\ faults < MaxFaults /\ faults' = faults + 1
    /\ view' = [view EXCEPT ![p] = v]
    /\ UNCHANGED <<now, conn, chan, info, seenAt, retained, queued, cursor,
                   delivered>>

Tick ==
    /\ now < MaxTime
    /\ now' = now + 1
    /\ UNCHANGED <<conn, view, chan, info, seenAt, retained, queued, cursor,
                   delivered, faults>>

-----------------------------------------------------------------------------
Init ==
    /\ now = 0
    /\ conn = [p \in Peer |-> {q \in Peer \ {p} : {p, q} \in InitialLinks}]
    /\ view = InitialView
    /\ chan = [p \in Peer |-> [q \in Peer |-> <<>>]]
    /\ info = [m \in Msg |-> None]
    /\ seenAt = [p \in Peer |-> [m \in Msg |-> None]]
    /\ retained = [p \in Peer |-> [m \in Msg |-> None]]
    /\ queued = [p \in Peer |-> FALSE]
    /\ cursor = [p \in Peer |-> [gossip |-> 0, antiEntropy |-> 0]]
    /\ delivered = [p \in Peer |-> [m \in Msg |-> 0]]
    /\ faults = 0

Receive(p, q) ==
    \/ DropLate(p, q)
    \/ ReceiveDuplicate(p, q)
    \/ ReceiveNew(p, q)
    \/ ReceiveSummary(p, q)
    \/ ReceiveRequest(p, q)

Next ==
    \/ Tick
    \/ \E p \in Peer :
          \/ \E m \in Msg : Broadcast(p, m)
          \/ \E age \in CleanupAges : Cleanup(p, age)
          \/ RepairMicrotask(p)
          \/ SyncTimer(p)
          \/ PruneTimer(p)
          \/ \E v \in Views : ViewChanged(p, v)
          \/ \E q \in Peer : \/ Receive(p, q)
                             \/ PeerConnected(p, q)
                             \/ PeerDisconnected(p, q)

Spec == Init /\ [][Next]_vars

\* Packets on an open channel arrive, microtasks run, both timers fire and an
\* RTC channel that was lost is dialled again (PartialMesh keeps redialling).
FairSpec ==
    /\ Spec
    /\ \A p \in Peer :
          /\ WF_vars(RepairMicrotask(p))
          /\ WF_vars(SyncTimer(p))
          /\ \A q \in Peer : WF_vars(Receive(p, q)) /\ WF_vars(PeerConnected(p, q))

-----------------------------------------------------------------------------
(* Properties *)

\* Every variable keeps its shape.
TypeOK ==
    /\ now \in Nat
    /\ conn \in [Peer -> SUBSET Peer]
    /\ view \in [Peer -> SUBSET Peer]
    /\ chan \in [Peer -> [Peer -> Seq(Packet)]]
    /\ info \in [Msg -> Envelope \cup {None}]
    /\ seenAt \in [Peer -> [Msg -> Nat \cup {None}]]
    /\ retained \in [Peer -> [Msg -> Retention \cup {None}]]
    /\ queued \in [Peer -> BOOLEAN]
    /\ cursor \in [Peer -> [gossip : Nat, antiEntropy : Nat]]
    /\ delivered \in [Peer -> [Msg -> Nat]]
    /\ faults \in Nat

\* The tables hold every id, and a log entry outlives the deadline of its
\* broadcast at every peer, whatever the clocks (GossipProtocol chooses ten
\* minutes against thirty seconds and 12000 entries).
DedupOutlastsSpread ==
    /\ Cardinality(Msg) <= MaxTracked
    /\ \A p, q \in Peer :
          /\ SpreadTimeout + Skew[q] <= TrackingRetention + Skew[p]
          /\ \A age \in CleanupAges : SpreadTimeout + Skew[q] <= age + Skew[p]

\* The application of a peer sees a broadcast at most once, however many
\* copies fan-out and anti-entropy bring and whatever the tables forget.
AtMostOnce == \A p \in Peer, m \in Msg : delivered[p][m] <= 1

\* A payload is kept for repair only while its id is still logged, so that a
\* copy served to others can never be delivered a second time at its holder.
RetainedAreLogged ==
    \A p \in Peer : Present(retained[p]) \subseteq Present(seenAt[p])

\* While no deadline passes and no view changes, every broadcast reaches
\* every peer although a channel is lost on the way.
Convergence ==
    \A m \in Msg : (info[m] # None) ~> (\A p \in Peer : delivered[p][m] > 0)

\* Gossip implements ReliableBroadcast.
Promise == INSTANCE ReliableBroadcast WITH
    deadline <- [m \in Msg |-> IF info[m] = None THEN None
                               ELSE DeadlineAt(info[m])]
PromiseKept == Promise!Spec
=============================================================================
