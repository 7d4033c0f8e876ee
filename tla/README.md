# A verification of PeerPigeon in TLA+

PeerPigeon is a browser-to-browser mesh: peers find each other through FreeRTC
relays, open WebRTC data channels, and run gossip, routed direct messages,
membership, encryption and storage on top of them. This directory models the
protocol logic of the TypeScript sources (`src/src/*.ts`), checks it with TLC on
small instances and proves its safety with TLAPS for all instances where the
invariants allow it. `PROJECT.json` maps every definition to the lines it
translates and lists the runs, the hazards of the code, the theorems and, for
every property, a mutation of the model that breaks it.

## The system

| Component | Source | State | Operations | Module |
|---|---|---|---|---|
| Gossip dissemination | `gossip.ts` 371-928, 2057-2107 | `messageLog`, `retainedMessages`, repair flag, cursors | `broadcast`, `propagate`, `handleIncomingMessage`, `handleGossipAntiEntropy`, timers, `cleanup` | `Gossip` |
| Fan-out selection | `gossip.ts` 1486-1516 | one cursor per channel | `selectFanoutPeers` | `FanOut` |
| Direct routing | `gossip.ts` 1765-1977 | `seenDirectIds` | `sendDirect`, `routeDirect`, `handleIncomingDirect` | `DirectRouting` |
| Echo aggregate | `gossip.ts` 932-1120 | `aggregateStates`: parent, children, totals | register, answer, deadline | `GossipEcho` |
| Delivery receipts | `gossip.ts` 1124-1431, 1686-1763 | `deliveryStates` (bitmap per audience), dirty ids | register, merge, targeted repair, timeout | `DeliveryReceipts` |
| CECR consensus | `gossip.ts` 1518-1756 | remote states, extrema, matching rounds, network sizes | publish and merge of `cecr-state` | `Consensus` |
| Membership | `index.ts` 2442-2748 | versioned records with leases, quarantine, `globalPeers` | renew, merge, prune, send | `Membership` |
| Connections | `index.ts` 680-2090 | `peers`, `connecting`, back-off, planned rebalances | dial, accept, trim, rebalance, maintenance | `PartialMesh` |
| Signalling adapter | `freertc-client-adapter.ts` | client, relay, probes, transports, edges | connect, recycle, fail over, resume | `SignalingAdapter` |
| Discovery | `freertc-client-adapter.ts` | known, advertised and failed peers | bootstrap candidates, quarantine | `Discovery` |
| Storage | `storage.ts` | driver, subscriptions, pending retrieves | put, delete, retrieve, remote mutation, tab notices, close | `Storage` |
| Key directory | `crypto.ts` 172-440 | announce timer, waits | init, destroy, `waitForPeerKey` | `PeerPigeonNode` |
| Node | `index.ts` 575-665, 2852-3050 | started flag, client, identity of the document | `start`, `destroy` | `PeerPigeonNode` |

A browser tab runs all of it on one thread: a handler runs to its end before the
next event, so concurrency is between peers, between a peer and its timers, and
across `await` (storage, crypto, start-up) and microtasks. The adapter reports
registration, candidates and edges to `PartialMesh`, which dials through it and
raises `peer:connected`, `peer:disconnected` and `peer:data`; `GossipProtocol`
listens to them, reads `getConnectedPeers()` and `getGlobalPeers()` anew in every
handler, and writes with `send()`. Crypto and storage use gossip as their
transport; storage instances of one browser profile share a disk and a broadcast
channel. What is hard in this system:

* copies of one message come through eager fan-out, anti-entropy and targeted
  repair, while the table that recognises them is pruned by age and size;
* channels break with packets under way, the two ends notice at different times,
  and callbacks of a replaced client or transport still arrive;
* every peer acts on connections and a membership view of its own;
* deadlines and leases are compared with clocks that differ, and what they
  protect is forgotten after a while;
* what was read before an `await` is used after it;
* windows, summaries, requests, hop counts, slots and tables are all bounded.

What makes each part correct, and where it is stated:

* gossip: at most one delivery, none after the deadline, every peer reached
  while the mesh stays joined (`AtMostOnce`, `PromiseKept`, `Convergence`);
* direct routing: no loop, no second copy, delivery where the overlay allows it
  (`NoRouteLoop`, `SingleInstance`, `DeliveredWhenCovered`);
* echo: nobody counted twice, settled means counted, settled in the end
  (`CountedOnce`, `SettledIsExact`, `SenderIsTold`, `EveryHolderIsCounted`);
* receipts: a bit stands for a delivery, somebody always repairs, one
  announcement (`NoFalseReceipt`, `RepairerExists`, `SenderLearns`, `ToldOnce`);
* consensus: coordinates only on one membership, which consensus reaches, and no
  network size outlives its network (`NeighboursAgree`, `ConsensusComes`, `MarksFade`);
* membership: a departed peer stays departed, forwarding extends no lease,
  nobody honest is quarantined (`ListsTheLatest`, `ForwardingKeepsTheLease`,
  `NoFalseEquivocation`, `DepartedIsForgotten`, `ToldOfTheListed`);
* connections: bounded degree, no slot lost, no component cut off by making
  room, no lasting isolation (`DegreeBound`, `SlotsAccounted`,
  `AdmissionKeepsReach`, `IsolatedRecovers`);
* adapter: no edge marked by an older loss, a reported loss ends its edge at
  once, no false registration, no edge sacrificed to a failover, a failed peer
  dialled again only on new evidence (`NoDeafEdge`, `LossEndsTheEdge`,
  `SignalingTruthful`, `EdgesAreOpen`, `FailoverSparesEdges`, `QuarantineHolds`,
  `FindsPeers`);
* storage: versions and owners lost to overlapping operations alone, replicas
  that heard the same agree, tabs agree with their disk, retrieves end
  (`OnlyOverlapRegresses`, `OwnerStays`, `QuietReplicasAgree`, `TabsAgree`,
  `RetrieveSettles`);
* node: nothing is left running twice, no identity in use is withdrawn, a wait
  for a key ends (`OneOfEach`, `LiveIdentitiesStay`, `WaitSettles`).

## The modules

`FanOut` holds `cecrFanout` and `selectFanoutPeers` as operators, which `Gossip`,
`Consensus` and `DeliveryReceipts` use. `Discovery` holds the tables
of discovered peers; `SignalingAdapter` extends it. `ReliableBroadcast` is the
abstract promise of gossip to the application, which `Gossip` implements. Every
module `M` that has theorems has them in `M_proofs`, except that those of
`PartialMesh` and `DirectRouting`, the edges of the overlay and the routes over
them, are together in `Overlay_proofs`, and those of `Consensus` are in
`Gossip_proofs`, with the lemmas about the fan-out; every `MCM` gives the
constants of `M` values for TLC. Definitions whose name contains "Faulty" (in the
older modules: called a faulty variant in their comment) are plausible bugs of
the code, written before the correct form; put in its place, they break the
property they are meant for. No action uses one.

Where the starting points of a system differ in kind (an overlay, a storage
space, a set of options), they are a constant set `Setups` or `Scenarios` of
records, one of which is chosen by `Init` and never changes: one run then covers
several instances, and the bounds of the environment's actions are part of them.

### Gossip

One action stands for one handler with everything it calls. `Broadcast` is
`broadcast()` with its retention, log entry, pruning and fan-out. A packet is
the head of an ordered queue `chan[q][p]`; `ReceiveNew`, `ReceiveDuplicate` and
`DropLate` are the three ways through `handleIncomingMessage`, `ReceiveSummary`
and `ReceiveRequest` the two of `handleGossipAntiEntropy`. Retaining a payload
queues a microtask (`queued`): no other event of the peer runs before
`RepairMicrotask`. `SyncTimer` and `PruneTimer` are the two timers, `Cleanup`
the public method. `PeerConnected` and `PeerDisconnected` happen at one end at a
time; a packet written to an end that has closed the channel stays queued until
that end comes back or closes, and closing an end loses what is queued for it.

Time is a counter of ticks and peer p reads `now + Skew[p]`. The envelope of a
message is immutable and therefore kept once, in `info`. The set hash that the
code compares is modelled by the set itself: the 64-bit digest is assumed to be
injective on the views that occur. Where the order of entries of one tick
matters (eviction, the summary's youngest entries), every order is possible.
Ids are fresh: an id is broadcast once. Sending to an open channel succeeds.

Left out: paths (diagnostic only), the `delivery` and `aggregate` envelopes
(`DeliveryReceipts`, `GossipEcho`), legacy envelopes without `spread`, `destroy`.

### GossipEcho

One broadcast with `aggregateDelivery`. `seen` are the peers that logged it;
`agg[p]` is the entry of `aggregateStates`: the parent the first copy came from,
one child per peer the message was passed to, and the report sent last. Totals,
depth and settledness are operators on the children (`Total`, `MaxHops`,
`Settled`), because `refreshAggregateState` follows every change. `Total`, a sum
in the code, is the number of pairs of a branch and one of its counts
(`Counted`), which is the same and needs no fold over a set. Every handler
that changes an aggregate ends in `Publish` (`publishAggregateState`): a settled
branch reports to its parent, the root's status goes to the application
(`told`). `Broadcast`, `ReceiveNew`, `ReceiveDuplicate`, `ReceiveEcho` and
`ReceiveRequest` are the handlers, `Timer` is `maintainAggregateDeliveries`.

Where `Gossip` lets every send succeed, this module does not, since a failed
send closes a branch: a handler picks the neighbours (`broken`) whose channel it
finds dead, and drops them as `FreeRTCClientAdapter.send` does. A summary and
the request it provokes are one step (`Ask`), enabled when everything the holder
sent before has arrived; the checks the holder made for its summary are repeated
when it serves the request. The clock of each peer is one of three phases around
the deadline, because comparisons with the deadline are all the code makes; the
phases of different peers are independent, which covers every skew. The fan-out
cursor is arbitrary. Views are complete, so a spread is complete at the number
of peers. The removal of old aggregates by `pruneTracking` is left out.

The comment "True when the current dissemination tree has returned every branch"
(`gossip.ts` 124) is about a tree without repair: a repair opens a branch at a
node that has already reported, and nobody tells its ancestors. `SettledIsExact`
therefore ends with the first repair; the count is right in the end all the same
(`EveryHolderIsCounted`).

### DirectRouting

The set `net` holds the copies under way, each with the path it took; the last
peer of a path is the one it is being sent to. `RouteCandidates` keeps the two
stages of `orderedRouteCandidates` (lower distance bucket, else strictly smaller
distance) and leaves the order among candidates open, which covers both the XOR
order and the coordinate score and every pattern of sends that throw. Distances
are a constant: the properties need only that a distance is zero exactly between
a peer and itself. `ForgetDirect` is pruning and cleanup of `seenDirectIds`.
A greedy route ends at a peer without a closer neighbour, so a connected overlay
alone does not give delivery; covered buckets do (`DeliveredWhenCovered`).
The names that every other module gives to its initial states, steps and
variables carry the prefix `Routing` here, so that the module can be extended
together with `PartialMesh`.

### DeliveryReceipts

One tracked broadcast. `audience` is the membership the sender had; `view[p]`
that of another peer, whose hash is the membership itself. A state of
`deliveryStates` is `st[p]`: the bits, the ids they stand for (empty while the
peer has another membership and stores the bitmap opaquely), the payload kept
for repairs, the attempts, and what was announced. `Stores` is
`registerDelivery`/`mergeReceipt` and `Assert`, `Maintain` the timer with
deadline and repairs (`Owner`: the holder with the lowest score for a missing
peer, of equal ones the one with the smallest id), `Sync` the delivery part of
`publishCecrState`, `Connected` what a new neighbour is sent, `Forget` the
removal of old states. Copies that anti-entropy brings are left to `Gossip`.
Packets of one kind that differ in their bits alone are merged while under way:
a receiver unites bits anyway. One message is modelled, so the limit of 32
receipts in one state message is out of reach. A sender that has forgotten the
delivery may announce it again (`ToldOnce` says so).

### Consensus

`node[p]` is one peer's CECR state: extrema and the periods for which they have
been the same, the last state of each neighbour with its matching rounds, the
largest network size with its time of origin. `Sync` is the timer, with the
fan-out of `FanOut`; `Route` is a routed message or any other call that takes a
snapshot; `ChangeView`, `Echo`, `Disconnected`, `Connected` are the environment.
A state message is delivered with the step that sends it, since only its content
and the order per neighbour matter to the receiver. All peers have one
configuration and membership equivocations, which switch coordinates off, do not
occur. Ages are counted in periods of the timer and saturate past `MaxAge`; the
clocks are ahead of true time by at most `Fastest` of them. Here too the names
that all modules have in common carry a prefix (`Cecr`).

### Membership

What the peers of a mesh believe of one identity, the subject; records of
different identities never touch each other. The subject has versioned records
(`v1`) or is older than them (`legacy`), in which case every peer that hears the
bare id writes a compatibility lease. `Advertise` is renewal, `Leave` the
retirement, `Crash` and `Restart` losing and reviving the subject (a restart
takes its incarnation from the clock), `Broadcast` the timer of a peer with its
pruning, forwarding and event, `Read` `getGlobalPeers` which prunes without an
event, `Receive` the merge with equivocation, tombstone and lease checks, `Lose`
a lost packet. Capacities and topologies, which ride on the same messages, and
the graph snapshot built from them (`index.ts` 2217-2399) are left out; that a
message also brings news of others, and so raises an event, is the choice of
`OtherNews`. Clocks differ by at most `membershipClockSkewMs` (the assumption the code
makes), and a packet arrives or is lost within the retention of its lease.

### PartialMesh

One mesh and what FreeRTC reports to it. `mesh` is a record of everything a
handler changes, and the helpers of the code (`ConnectTo`, `RemovePeer`, `Trim`,
`Rebalance`, `Balance`) are operators on it or functions of it, because handlers
call each other deeply and every handler ends with a maintenance that may dial.
A loop over a list is `ForEach`; the list is `InOrder` of the keys that the code
compares, or `Entries` for the order of a Map. Maintenance sheds edges and each
edge shed calls maintenance again: `Maintaining[n]` is maintenance in which at
most n further calls are inside each other. Each of them has fewer edges than
the one around it, so the number of peers is enough for all of them (`MaxDepth`).
`Inbound`, `Open`, `Break`, `Die`, `NegotiationFailed`, `Reject` are the events
of transports, `Snapshot`, `PeerLeft`, `Registration` those of the relay,
`Disconnect`, `UpdateConfig`, `HardReset`, `Resume` the calls, `Tick` the timer
with all ages. The unit of time is the maintenance period; the durations of the
code are constants in it (`Pause`). Peers are dialled by priority, capacity
(`setup.capacity`), failures and `order`, which stands for age and hash. When exactly
`maybeHardResetUnderConnected` acts is open within its condition
(`UnderConnected`), because its waiting times are sums of others. Membership does not
change here; `destroy` and retired identities are left out, and the rebalance
ignores bridges as the code does (`index.ts` 1122).

### SignalingAdapter and Discovery

`ad` is one adapter: client and relay, the link of that client, probe, health
check, edges, transports and what each of them is watched by. A callback names
the client it was registered by (`source`: current or replaced), which is what
`IsCurrent` tests. `Answered` is a bootstrap answer of the relay, arbitrary in
content within what peers have advertised: federated relays omit peers and
repeat old stamps. `Checked` is the health check, `ProbeExpires`,
`ReconnectThrows`, `Recover` the ways to another client, `FailsOver` the
condition for another relay, `Hide`/`Show` the page. Where `setup.races` holds,
a probe may expire, or a reconnect throw, although an answer of the relay is due;
elsewhere a relay that is up answers in time (`InTime`). Transports:
`Dial`, `Accept`, `TransportUp`, `ChannelOpens`, `ChannelCloses`,
`TransportLost`, `LostUnheard` (while hidden), `NegotiationFails`, `SendFails`.

`pendingTransportRestorePeerIds` is never filled in the code, and `retirePeerId`
(`index.ts` 680) has no caller: neither is modelled. Recycling a client clears
`signalingConnected` without a 'disconnected' event, as in the code; a failover
drops half-open negotiations silently. In `Discovery` the clocks agree and the
grace of absence (30 s) is longer than the freshness of an advertisement (18 s).
A relay that does not stamp advertisements leaves a failed peer quarantined
until it is absent for the grace or connects; `FindsPeers` exempts that case.

### Storage

One key of one space on several instances. An operation that has read the driver
and waits for a promise is an element of `ops` with what it has read; `Put` and
`PutStore`, `Delete` and `DeleteStore`, `Receive` and `ApplyStore` are the two
halves of an operation. `net` holds gossip (`Ignore` drops what finds a closed
instance, another room, no subscription or a filter that says no; in the run the
filter says yes, as a refusal looks like a missing subscription), `notices` the
messages between tabs. `view` is the record of the last change event a tab
raised (`Show`); an instance is in `misled` when its last event showed a record
that the disk no longer held (`Shows`) or its last notice was dropped as seen.
Versions are integers: the code has four parts and counts the first. The table
of notices seen is not cut at 512 entries; `list` and `get` change nothing.
`spoiled` is history: it becomes true when an update is deleted, stamped anew
(the answer to a retrieve), refused, lost or overtaken, which are the cases in
which the code does not make replicas equal.

### PeerPigeonNode

Documents of several tabs and the node in each. A call in progress is an element
of `calls` with the promise it awaits: `start` draws an identity, awaits its
keys, its storage, its relays; `destroy` awaits the storage; `Fail` is a promise
that rejects (keys and relays; `storage.init` falls back to memory). A document
has sessionStorage, which a duplicated tab copies; the navigation type decides
whether the stored identity is that of a document that is gone.

What the properties exempt is what the code does: `destroy()` during a pending
`start()` leaves a client, a timer and a storage behind; a `start()` that fails
behind its storage and is called again leaks the first storage; and a duplicated
tab that is reloaded before its node has started withdraws the identity of the
tab it was copied from. After `destroy()`, a restarted node has none of the
listeners between gossip, mesh and facade (not modelled).

## The runs

| Run | Shows | Bounds |
|---|---|---|
| `gossip_safety` | `AtMostOnce`, `RetainedAreLogged`, refinement of `ReliableBroadcast` | 3 peers on a line, the last clock ahead, 1 message, ticks 0-4 (life 1, retention 2, so every entry expires and is pruned), 1 channel loss or view change |
| `gossip_pages` | `Convergence` | 3 peers, the path forms late and may lose a channel, 2 messages, requests of one id |
| `routing_safety` | `NoRouteLoop`, `DeliveredWhenCovered` | 6 three-bit ids on a ring and on sparse overlays that cover their buckets, 3 hops, 1 change, 1 step in which all sends fail |
| `echo_safety` | `CountedOnce`, `SettledIsExact`, `SenderIsTold`, `EveryHolderIsCounted` | a triangle, so copies cross; 1 lost channel, 1 repair, clocks before, at and past the deadline |
| `delivery_safety` | `NoFalseReceipt`, `ToldOnce`, `RepairerExists`, `SenderLearns` | 3 peers, five scenarios: a stranger whose view changes; one that connects, with late clocks; a connection that breaks and returns; a late sender that forgets; a lost repair |
| `delivery_joined` | violated: `ReceiptLossRepaired` | 2 members and a stranger that connects |
| `consensus_safety` | `NeighboursAgree`, `ConsensusComes`, `MarksFade` | 4 peers: a clique whose fan-out leaves a neighbour out, views that change and change back, a line with a break and a return, one clock 3 periods ahead with a size of 5 |
| `membership_safety` | `ListsTheLatest`, `NoFalseEquivocation`, `ForwardingKeepsTheLease`, `ToldOfTheListed`, `DepartedIsForgotten` | 2 peers and the subject: a triangle with delays, a chain with a skewed clock at either end and a restart, a legacy subject; lease 3, retention 6, time 9, so that a record is renewed, lapses, is forgotten and stale copies still travel |
| `mesh_safety` | `DegreeBound`, `SlotsAccounted`, `AdmissionKeepsReach`, `IsolatedRecovers` | 3 peers in three setups: 1 slot with only one peer in reach; 2 slots, two components, `maxPeers` that changes; a minimum equal to the maximum with two relay snapshots; 1 fault |
| `signaling_adapter` | `NoDeafEdge`, `SignalingTruthful`, `EdgesAreOpen`, `QuarantineHolds`, `FailoverSparesEdges`, `FindsPeers` | 2 relays; 2 peers and 2 faults; 1 peer and 2 faults, with probes that race answers; or 1 peer, 1 fault and 2 stamped advertisements or 1 unstamped one |
| `storage_safety` | `OnlyOverlapRegresses`, `OwnerStays`, `QuietReplicasAgree`, `TabsAgree`, `RetrieveSettles` | 2 instances on two devices or in two tabs, five spaces, 2 or 3 calls, 1 closed instance, 1 change of subscription, clock 0-1 |
| `node_safety` | `OneOfEach`, `LiveIdentitiesStay`, `WaitSettles` | 2 tabs; 3 starts, 2 destroys, 1 failure, 1 wait, with and without keys and storage; or 5 starts, 1 destroy and 3 reloads or duplicates |

The bounds are chosen for the shortest history of each hazard: three peers are
the fewest for a third party that knows more or less than two others; one fault
is enough to separate what two ends know; two operations are enough to overlap.
`MaxInFlight` bounds the network of `Gossip`, not the protocol: the timer does
not start a round before the answers of the last one have arrived, and `MaxNet`
of `Membership` bounds the packets under way. `CHECK_DEADLOCK FALSE` stands
where a run may stop because time, faults and calls are used up.

### Fairness

Nothing is ever assumed of applications, of faults or of losses. Assumed are

* in `Gossip`, weak fairness of packet handling per channel (data channels are
  reliable and ordered while open), of the microtask, of the sync timer and of
  reopening a channel (the maintenance of `PartialMesh` keeps dialling). Nothing
  makes a deadline wait, so `Convergence` is checked with `MaxTime = 0`: it says
  what happens when the life of the broadcast is long enough;
* in `DirectRouting`, of message handling; in `GossipEcho`, of packet handling,
  timers and clocks; in `DeliveryReceipts`, of timers and packets, with every
  due repair made;
* in `Consensus`, of the timers (each in every period, since the period of all
  peers is the same configured interval) and of noticing a closed connection;
* in `Membership`, of the clock, of every peer's timer, and of packets being
  received or lost;
* in `PartialMesh`, of the timer, of the retried registration, of the relay
  answering a mesh that asks for a snapshot; strong fairness of a transport that
  can open, since dials come and go;
* in `SignalingAdapter`, of every timer, of answers of a relay that is up, of
  showing the page, of writing to an edge (anti-entropy writes to all of them),
  of peers that go on advertising; strong fairness of registrations, since a
  probe may give up one or another, but a relay that is asked again and again
  answers one in time, and of complete answers, because federated relays exchange
  advertisements until they converge;
* in `Storage`, that promises of the driver settle and the timer of a retrieve
  fires; in `PeerPigeonNode`, that the timer of a wait does.

### The violated run

`delivery_joined`: the comment "Re-asserting the local bit also repairs receipt
loss" (`gossip.ts` 657) does not hold. A receipt stops being dirty when it was
sent to any neighbour, and re-asserting a known bit does not mark it again. When
a stranger connects to the receiver, the receipt goes to the stranger alone
(`gossip.ts` 453-457, 1639), which has another membership and may have no other
way to the sender; the sender never learns of the delivery. A fan-out smaller
than the degree has the same effect. `SenderLearns` is what does hold: every
round covers all neighbours and nobody comes or goes.

### What is exempt

Some properties leave out an interleaving, because the code itself does what they
forbid. They do so in their statements, not by what the modules can do:

* a storage operation that overtakes another one between its read and its write
  may store an older record over a newer one, or another owner
  (`OnlyOverlapRegresses`, `OwnerStays`): `applyRemoteMutation` compares with what
  the driver read (`storage.ts` 696), and does not look again before it writes;
* of two updates of equal version and time the first to arrive stays, and a
  deletion leaves no tombstone (`QuietReplicasAgree`);
* a retrieve of an instance that is closed meanwhile (`RetrieveSettles`);
* a tab that has dropped a notice as seen, or showed a record that was replaced
  during its decryption (`TabsAgree`);
* the lease of an older peer is renewed by every list that bears its id, whoever
  sends it (`index.ts` 2690), so two current peers can keep it alive between them:
  the membership properties speak of versioned records;
* calls of `start` and `destroy` that overlap, a failure behind the storage, and a
  duplicated tab that is reloaded before its node has drawn an identity
  (`OneOfEach`, `LiveIdentitiesStay`);
* the rejection of an old dial may remove a newer connection to the same peer
  (`index.ts` 1849): `SlotsAccounted` says that the tables agree afterwards;
* the log of ids is taken to hold every id of the run (`AtMostOnce`).

## The proofs

All theorems hold for every value of the constants that satisfies the named
assumptions of the modules, which give types to constants and bounds, and say
that `None` is no value. Assumptions that carry content are named below.

* `Gossip_proofs`. `TypeCorrect`, `PayloadsStayLogged` from the invariant
  `IInv`: packets only of messages that were broadcast, log entries not older
  than the broadcast on the clocks of the two peers (`LogFollowsBroadcast`),
  payloads under logged ids. The time conjuncts are needed because pruning
  compares stamps of one clock with deadlines of another.
  `DeliveredAtMostOnce` assumes `DedupOutlastsSpread`: the log holds every id,
  and an entry outlives the deadline of its broadcast on every clock (in the
  code 12000 entries and ten minutes against a spread of thirty seconds).
  `AtMostOnce` is not inductive: a delivered id that was forgotten would be
  delivered again. `Remembered` adds that a delivered id is still logged or its
  deadline has passed at that peer. `KeepsThePromise` shows the refinement:
  every step of `Gossip` is a step of `ReliableBroadcast` or a stutter.
  The lemma about `SelectFanoutPeers` (a window lies in the eligible peers and
  its cursor is a natural number) is used by the type proof.
* `Gossip_proofs`, for `Consensus`. `ConsensusTypeCorrect` needs that the best
  of finitely many observations exists (`BestExists`: the one with the least set
  of better ones). `NeighboursAgree` does not hold for all constants: a neighbour
  that the rotating fan-out leaves out for long enough keeps an old membership,
  while the other one comes to a consensus on a new one. The invariant says that
  this is the only way: whoever has not heard of a membership has been left out
  for as many rounds as it has lasted (`Informed`, `StepInforms`). The rounds are
  counted by a history variable of the proof (`missed`), and `AgreeUnlessLeftOut`
  proves the agreement for every state in which no count has reached
  `cecrConvergenceRounds` (three by default). `AgreeWithinFanOut` needs no history: if every
  degree stays within `cecrFanout`, a timer leaves out no more than the peer to
  which it has just closed the connection, once, before that one notices (`Lag`).
  With a single round of convergence even that would be too much, hence its
  assumption `Rounds > 1`.
* `Overlay_proofs`, for `PartialMesh`. A handler is a composition of calls, so
  the invariant is about the tables (`Sound(mesh)`) and every call has a lemma
  that says what it does to them. `Fit`: an entry is connected exactly if
  its transport is open, slots of `connecting` have entries, and every planned
  rebalance waits for a live dial to replace a live edge (`RebalanceTracked`).
  `Timed`: every pending slot has a starting time, without which the watchdog
  would never free it; inside a teardown that holds but for the peer torn down
  (`TimedBut`). A call either leaves edges, slots and plans alone (`Alike`),
  dials (`Dialled`), tears one peer down (`TornDown`), keeps a subset of the
  edges (`Kept`) or also brings them within `maxPeers` (`Settled`).
  `Settled` is what maintenance does, whatever it nests: `LevelMaintains` is the
  step of an induction on the levels of `Maintaining`, where a call inside
  `Trim` has one edge fewer (`TrimFacts`, `BalanceFacts`, `MaintenanceMaintains`).
  `DegreeStaysBounded` and `SlotsAreAccounted` follow. `AdmissionsKeepReach`: to
  lose a component the first edge that is shed would have to be the only one into
  it, and bridges come last in the order of shedding (`DropOrderFacts`); with
  more edges than components one edge is no bridge (a pigeonhole argument).
* `Overlay_proofs`, for `DirectRouting`. The path of a copy has decreasing
  distances (`RoutesProgress`), because each hop is chosen closer than its holder
  and a path is only ever extended; loop freedom follows (`RoutesAreLoopFree`).
  `MessagesAreSingle`: a message not yet sent has neither a copy nor an event.
* `GossipEcho_proofs`. `CountedOnceAlways` follows from `CountsByParent`: a
  branch with a count belongs to the parent of the peer counted, and a peer has
  one parent. An echo under way with a count goes to the sender's parent
  (`Truthful`), because duplicates are answered with 0 and a parent never
  changes. The values of the counts do not matter there. They do in
  `SettledSpreadIsExact`, whose invariant (`Tree`) holds until a channel breaks,
  a deadline passes or a repair is served. For every pair of peers (`Edge`) it
  says that what the first knows of its branch to the second, what is under way
  between them and what the second has become agree: the copy is still under way
  (`Fresh`), the child waits for its own branches (`Growing`), its answer is
  under way (`Answered`), or the answer is in and the child has nothing to add
  (`Closed`). When the root has settled all holders have: one of least depth
  that has not would be an open branch of its parent, which has. Then every
  holder but the root is counted by its parent alone, and the pairs counted at
  all holders, counted once by parent and once by child, give the number of
  holders (`Counting`).
* `DeliveryReceipts_proofs`. `ReceiptsAreTrue`: bits that are stored or under
  way are true ones, also where a bitmap crosses a peer of another membership,
  which keeps it opaque, and where a view becomes the audience again and the ids
  are reconstructed. `ToldOnceOnly` ties the announcements to the sender's
  record (`ToldInv`): a flag that is set says what was announced, and completion
  is stable. `SomeoneRepairs`: each holder chooses the owner of a repair from
  the bits that have reached it, so that each of them might leave it to
  another one. But every bit in circulation was set by a peer that has kept the
  payload and its own bit (`Witnessed`), scores with ties broken by id are a
  strict order (`Before`, `ScoreAssumption`), and the first of all these peers
  knows of nobody before itself.
* `Membership_proofs`, for subjects with versioned records. The invariant is a
  chronicle: every record of the subject that is stored or under way is one the
  subject wrote (one content for each version, times that follow the order of
  versions), and a peer that has forgotten a version has outlived every lease
  that is not newer (`Remembers`). It needs that clocks differ by no more than
  `membershipClockSkewMs` and that the retention is at least the lease, twice the
  skew and one interval (`ConfigAssumption`, which the constructor enforces,
  `index.ts` 466-487).
  `NeverQuarantined`, `LeaseIsKept` and `NothingReturns` follow. `ListedIsTold`
  needs that every record which is alive by a peer's clock is listed already
  (`Announced`): else a pruning that raises no event (`Read`) could list it.
* `SignalingAdapter_proofs`. The invariant (`Inv`) says which transports belong
  to the current client, which of them the adapter watches, which losses it has
  been told of, and, unless the page is hidden, that every edge is awake.
  `EdgesAreUnmarked`, `SpeaksTheTruth`, `EdgesStayOpen` and the action properties
  `LossesEndEdges` and `FailoverIsSafe` follow. That an edge is unmarked does not
  mean that its transport is observed: where the other side begins a new transport
  in place of an edge, nobody is told when the new channel closes, and the edge
  ends with the next write that fails (`SendFails`). `LossEndsTheEdge` is the one
  property that is proved and checked by no run. `FailedStaysOut` has an invariant of its own
  (`Judged`) about the tables of `Discovery`: while a failure is remembered it is
  the stamp at which the last dial failed, and one that is no longer remembered
  has given way to a newer advertisement or is about stamps that no relay may
  still call fresh. The second case is the reason why the grace of absence has to
  exceed the freshness of an advertisement (`Lapses`): a peer forgotten earlier
  would come back with the advertisement on which it had failed.
* `Storage_proofs`. `RegressionNeedsOverlap` and `OwnersAreKept`: the record
  that an operation writes is newer than the one it has read and keeps its
  owner (`FollowsRead`, `IncomingLemma`), so only an operation that was
  overtaken does harm. `ReplicasConverge`: the stamps an instance has stored or
  will still read are spread, that is, each of them is followed at every other
  instance by one that is not older (`Spread`); a put spreads its stamp to all
  at once, an update that is received stays heard of, one that is refused is not
  newer than what is stored (`Fresh`, since an operation's reading may be stale
  but never ahead). With nothing under way what is heard of is what is stored.
  `TabsAreTold`: an instance shows what its disk holds, or a notice for it is
  under way, or an operation that will show the record (`AllUpToDate`). The argument breaks in three places, which a run of two
  instances hardly meets and which `TabsAgree` names: two tabs that apply the same
  mutation write notices of one id, and a third drops the second of them; tabs of
  different rooms share a disk but not their notices; a private record is shown
  after a decryption during which it may have been replaced.
* `PeerPigeonNode_proofs`. A tab in which `start`, `destroy` and failures never
  met (`Orderly`) is down, up, or has one call in one of the four awaits, and
  each of them determines which timer, storage and client there are (`Busy`):
  `NothingTwice`. A call carries across its awaits what it read of the identity
  before (`CallSound`). `NobodyIsRetired` follows from ownership: the identity
  stored by a document is its own unless the document is a duplicate, no two
  documents own one, and only identities of a document that is gone are retired
  or withdrawn (`Identities`).

Only model-checked: everything that rests on fairness (`Convergence`,
`DeliveredWhenCovered`, `SenderIsTold`, `EveryHolderIsCounted`, `SenderLearns`,
`ConsensusComes`, `MarksFade`, `DepartedIsForgotten`, `IsolatedRecovers`,
`FindsPeers`, `RetrieveSettles`, `WaitSettles`). Every other property of a passing
run is a theorem, `NeighboursAgree` under the two conditions named above.

## Plan

Done: the inventory; the dissemination core with its abstract specification and
proofs; routing; the echo; then receipts, consensus, membership, connections,
discovery and the adapter, storage, start and destroy, each with a run; proofs
of the safety of all of them.

Left, in this order:

1. the composition of `Membership` with `Gossip`'s view changes: a payload is
   retained in one view and repaired in another (`gossip.ts` 791; no
   property speaks of it, because no promise is made of it);
2. two `PartialMesh` instances facing each other, with rejections that cross,
   and `destroy` of a mesh;
3. payloads in larger number than a summary holds (256 entries,
   `gossip.ts` 818), and aggregates and deliveries pruned by size;
4. the choice between two announcements of one peer's key.

## Not modelled

The cryptographic primitives and the JSON encoding, which are data without
control of interest; SHA-1 (`sha1.ts`), a pure function with test vectors;
`rtc-peer.ts`, a thin wrapper around the browser's negotiation, whose events are
those of the browser (`SignalingAdapter` takes them as they come); the storage
drivers (IndexedDB, memory), taken as a register per key; the calls of the
facade that only forward; the Go port, a second implementation; the
demonstration application, generated bundles, scripts and simulations.
