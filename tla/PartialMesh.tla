---------------------------- MODULE PartialMesh ----------------------------
(* Connection management of one PartialMesh (index.ts): which peers it       *)
(* dials, keeps and sheds.  FreeRTC, reached through the adapter, owns the   *)
(* transports and reports on them; a handler runs to its end, with every     *)
(* redial it causes, before the next event.  The unit of time is one period  *)
(* of the maintenance timer.  Membership of the mesh does not change here.   *)
EXTENDS Integers, FiniteSets, Sequences

CONSTANTS
  Peers,          \* the other peers; self is not one of them
  Setups,         \* what a behaviour may start from: see SetupOK
  Pause,          \* how long things take, in units: see PauseOK
  Backoff,        \* for how long a peer is not dialled after its n-th failure
  None,
  MaxFailures,    \* bound: failures of one peer that are counted
  MaxFaults       \* bound: broken transports, rejections, calls of the application

(* Limits of the configuration; for every peer its rank in the order of ids, *)
(* its rank by advertised capacity (with ties), whether its id is greater    *)
(* than ours (we dial first), its k-bucket, its XOR distance and the         *)
(* component of the rest of the mesh it belongs to; the ring neighbours; the *)
(* live members; the peers whose transport can open; the relay's snapshots;  *)
(* the values updateConfig gives maxPeers.                                   *)
SetupOK(s) ==
  /\ {s.minPeers, s.maxPeers, s.tolerantPeers} \cup s.limits \subseteq Nat
  /\ s.minPeers <= s.maxPeers
  /\ s.preferred \cup s.neighbours \cup s.live \cup s.reachable \subseteq Peers
  /\ s.order \in [Peers -> Nat] /\ s.capacity \in [Peers -> Nat]
  /\ s.bucket \in [Peers -> Nat] /\ s.distance \in [Peers -> Nat]
  /\ s.component \in [Peers -> Nat]
  /\ \A p, q \in Peers : s.order[p] = s.order[q] => p = q
  /\ \A v \in s.snapshots : v.active \subseteq v.peers /\ v.peers \subseteq Peers

(* grace of the preferred initiator, watchdog of a pending negotiation,      *)
(* back-off cap, back-off after shedding, pause after a trim and after a     *)
(* rebalance, pause between rebalance attempts, age of a stable edge.        *)
PauseOK == Pause \in [{"grace", "stalled", "backoffCap", "shed", "trim", "rebalance",
                       "attempt", "stable"} -> Nat \ {0}]

ASSUME Assumption ==
  /\ \A s \in Setups : SetupOK(s)
  /\ PauseOK
  /\ {MaxFailures, MaxFaults} \subseteq Nat \ {0}
  /\ Backoff \in [1..MaxFailures -> 1..Pause["backoffCap"]]
  /\ IsFiniteSet(Peers)
  /\ None \notin Peers /\ None \notin Nat

VARIABLES
  setup,          \* one of Setups; never changes
  mesh,           \* the tables of the PartialMesh: see Mesh
  registered,     \* signalingClient.isConnected()
  unsettled,      \* the peers whose last initiateConnection may still be rejected
  faults          \* how often the bounded actions have been taken

vars == <<setup, mesh, registered, unsettled, faults>>

(* conn is the entry of peers; startedFor the age of connectionStartedAtMs,  *)
(* knownFor that of discoveredAtMs, heldFor that of peerConnectedAtMs, elder *)
(* the peers connected before (the order of peerConnectedAtMs); drop is      *)
(* pendingRebalanceDropByTarget; orphanFor the age of orphanRtcFirstSeenAtMs;*)
(* rtc FreeRTC's entry for the peer, dialled the calls of this handler.      *)
Mesh ==
  [maxPeers: Nat,
   conn: [Peers -> {"none", "pending", "connected"}],
   connecting: SUBSET Peers,
   startedFor: [Peers -> 0..Pause["stalled"] \cup {None}],
   heldFor: [Peers -> 0..Pause["stable"] \cup {None}],
   elder: [Peers -> SUBSET Peers],
   failures: [Peers -> 0..MaxFailures],
   backoff: [Peers -> 0..(Pause["backoffCap"] + Pause["shed"])],
   discovered: SUBSET Peers, active: SUBSET Peers, snapshot: BOOLEAN,
   knownFor: [Peers -> 0..Pause["grace"]],
   cooldown: 0..(Pause["trim"] + Pause["rebalance"]),
   attempt: [Peers -> 0..Pause["attempt"]],
   drop: [Peers -> Peers \cup {None}],
   orphanFor: [Peers -> 0..Pause["stalled"] \cup {None}],
   rtc: [Peers -> {"none", "negotiating", "open", "dead"}],
   dialled: SUBSET Peers]

TypeOK ==
  /\ setup \in Setups
  /\ mesh \in Mesh
  /\ mesh.dialled = {}
  /\ registered \in BOOLEAN
  /\ unsettled \subseteq Peers
  /\ faults \in 0..MaxFaults

All(x) == [p \in Peers |-> x]

Init ==
  /\ setup \in Setups
  /\ mesh = [maxPeers |-> setup.maxPeers, conn |-> All("none"), connecting |-> {},
             startedFor |-> All(None), heldFor |-> All(None), elder |-> All({}),
             failures |-> All(0), backoff |-> All(0), discovered |-> {}, active |-> {},
             snapshot |-> FALSE, knownFor |-> All(0), cooldown |-> 0, attempt |-> All(0),
             drop |-> All(None), orphanFor |-> All(None), rtc |-> All("none"),
             dialled |-> {}]
  /\ registered = TRUE
  /\ unsettled = {}
  /\ faults = 0

-----------------------------------------------------------------------------
(* Readings of a mesh state c                                                *)

Least(a, b) == IF a < b THEN a ELSE b
Greatest(a, b) == IF a > b THEN a ELSE b

Connected(c) == {p \in Peers : c.conn[p] = "connected"}

(* getPendingPeerCount *)
Pending(c) == c.connecting \cup {p \in Peers : c.conn[p] = "pending"}

Slots(c) == Cardinality(Connected(c)) + Cardinality(Pending(c))

(* dialCandidatePeerIds *)
Candidates(c, includeLive) ==
  LET announced == c.discovered \cap c.active
      graced == IF c.snapshot THEN c.discovered \ c.active ELSE {}
  IN (IF c.snapshot THEN announced ELSE c.discovered)
       \cup (IF includeLive /\ announced = {} THEN setup.live \ graced ELSE {})

Isolated(c) == Connected(c) = {} /\ Candidates(c, TRUE) # {}

(* cecrOverlayDialPriority *)
OverlayPriority(c, p) ==
  IF /\ p \in setup.live
     /\ \/ p \in setup.neighbours
        \/ \A q \in Connected(c) : setup.bucket[q] # setup.bucket[p]
  THEN 0 ELSE 1

(* cecrProtectedConnectedPeerIds: the ring neighbours and the first id of    *)
(* every bucket.                                                             *)
Protected(c) ==
  setup.neighbours \cup
    {p \in Connected(c) : \A q \in Connected(c) :
       setup.bucket[q] = setup.bucket[p] => setup.order[p] <= setup.order[q]}

(* localBridgeConnectedPeerIds: no other edge leads to the component.        *)
Bridges(c) ==
  {p \in Connected(c) : \A q \in Connected(c) \ {p} :
     setup.component[q] # setup.component[p]}

Lexicographic(u, v) ==
  \E i \in 1..(Len(u) - 1) : u[i] < v[i] /\ \A j \in 1..(i - 1) : u[j] = v[j]

(* The peers that the keys end in, in the order of the keys.                 *)
InOrder(keys) ==
  [i \in 1..Cardinality(keys) |->
     LET ith == CHOOSE u \in keys : Cardinality({v \in keys : Lexicographic(v, u)}) = i - 1
     IN ith[Len(ith)]]

(* The entries of a Map, in the order of their ids, which stands for that in *)
(* which they were made.                                                     *)
Entries(S) == InOrder({<<setup.order[p], p>> : p \in S})

(* compareDialCandidates; order stands for age and hash.                     *)
DialKey(c, p) ==
  <<OverlayPriority(c, p), setup.capacity[p], c.failures[p], setup.order[p], p>>

DialOrder(c, S) == InOrder({DialKey(c, p) : p \in S})

Flag(b) == IF b THEN 1 ELSE 0

(* Faulty variant: bridges are not spared.                                   *)
DropKeyFaultyBridge(c, p) ==
  <<Flag(p \in Protected(c)), Cardinality(c.elder[p]), setup.order[p], p>>

(* The order in which trimExcessPeers sheds: the oldest edge first.          *)
DropKey(c, p) ==
  <<Flag(p \in Bridges(c)), Flag(p \in Protected(c)), Cardinality(c.elder[p]), setup.order[p], p>>

DropOrder(c) == InOrder({DropKey(c, p) : p \in Connected(c)})

-----------------------------------------------------------------------------
(* Calls that change tables.  Each maps a state to the state it leaves.      *)

(* call[p] for the first k of the peers ps, one after the other.             *)
ForEach(k, ps, c, call) ==
  LET after[i \in 0..k] == IF i = 0 THEN c ELSE call[ps[i]][after[i - 1]] IN after[k]

(* noteDialFailure *)
NoteDialFailure(c, p) ==
  LET n == Least(c.failures[p] + 1, MaxFailures) IN
  [c EXCEPT !.failures[p] = n, !.backoff[p] = Backoff[n]]

NoteDialSuccess(c, p) == [c EXCEPT !.failures[p] = 0, !.backoff[p] = 0]

(* noteStablePeerConnections *)
NoteStable(c) ==
  LET stable == {p \in Connected(c) : c.heldFor[p] = Pause["stable"]} IN
  [c EXCEPT !.failures = [p \in Peers |-> IF p \in stable THEN 0 ELSE @[p]],
            !.backoff = [p \in Peers |-> IF p \in stable THEN 0 ELSE @[p]]]

(* noteTransportDisconnect, for a transport that was lost.                   *)
NoteTransportDisconnect(c, p) ==
  IF c.heldFor[p] = Pause["stable"] THEN NoteDialSuccess(c, p) ELSE NoteDialFailure(c, p)

(* The entries every teardown deletes.                                       *)
Forget(c, p) ==
  [c EXCEPT !.conn[p] = "none", !.connecting = @ \ {p}, !.startedFor[p] = None,
            !.heldFor[p] = None,
            !.elder = [q \in Peers |-> IF q = p THEN {} ELSE @[q] \ {p}]]

(* Faulty variant: the rebalance that waits for p is not given up.           *)
ForgetRebalanceFaulty(c, p) == [c EXCEPT !.drop[p] = None]

ForgetRebalance(c, p) ==
  [c EXCEPT !.drop = [t \in Peers |-> IF t = p \/ @[t] = p THEN None ELSE @[t]]]

(* recoverOrphanedRtcNegotiations: a transport no entry owns is closed when  *)
(* it is dead or too old.                                                    *)
Orphan(c, p) == c.rtc[p] \in {"negotiating", "dead"} /\ p \notin Pending(c) \cup Connected(c)

RecoverOrphans == [c \in Mesh |->
  LET expired == {p \in Peers : /\ Orphan(c, p)
                                /\ \/ c.rtc[p] = "dead"
                                   \/ c.orphanFor[p] = Pause["stalled"]}
      aged == [c EXCEPT
                 !.orphanFor = [p \in Peers |->
                    IF ~Orphan(c, p) \/ p \in expired THEN None
                    ELSE IF @[p] = None THEN 0 ELSE @[p]],
                 !.rtc = [p \in Peers |-> IF p \in expired THEN "none" ELSE @[p]]]
  IN [aged EXCEPT !.failures = [p \in Peers |-> IF p \in expired
                                  THEN NoteDialFailure(c, p).failures[p] ELSE @[p]],
                  !.backoff = [p \in Peers |-> IF p \in expired
                                  THEN NoteDialFailure(c, p).backoff[p] ELSE @[p]]]]

(* maxPeers, or the budget of a dial that replaces an edge.                  *)
Limit(c, overflow) ==
  c.maxPeers + (IF overflow \/ Isolated(c) THEN setup.tolerantPeers ELSE 0)

(* connectToPeerInternal: a dead transport is closed even when a later check *)
(* refuses the dial.  The age of an id that was never discovered is zero.    *)
ConnectTo(c, p, overflow) ==
  IF \/ ~registered
     \/ p \in Pending(c) \cup Connected(c)
     \/ c.rtc[p] \in {"negotiating", "open"}
  THEN c
  ELSE LET closed == [c EXCEPT !.rtc[p] = "none"] IN
       IF \/ c.backoff[p] > 0
          \/ Slots(c) >= Limit(c, overflow)
          \/ p \notin setup.preferred /\ c.knownFor[p] < Pause["grace"]
       THEN closed
       ELSE [closed EXCEPT !.conn[p] = "pending", !.connecting = @ \cup {p},
                           !.startedFor[p] = 0, !.rtc[p] = "negotiating",
                           !.orphanFor[p] = None, !.dialled = @ \cup {p}]

(* Faulty variant: the slot of a pending dial is kept.                       *)
RemovePeerFaultyPending(maintain, c, p) ==
  IF c.conn[p] = "none" THEN ForgetRebalance(c, p)
  ELSE maintain[[Forget(ForgetRebalance(c, p), p) EXCEPT
                   !.rtc[p] = "none", !.connecting = c.connecting]]

(* removePeer, where maintain[d] is what maintenance makes of d:             *)
(* closeConnection reports the loss at once, when the entry is already gone. *)
RemovePeer(maintain, c, p) ==
  IF c.conn[p] = "none" THEN ForgetRebalance(c, p)
  ELSE maintain[[Forget(ForgetRebalance(c, p), p) EXCEPT
                   !.rtc[p] = "none", !.orphanFor[p] = None]]

(* noteIntentionalShed and disconnectFromPeer                                *)
Shed(maintain) ==
  [p \in Peers |-> [c \in Mesh |->
     RemovePeer(maintain, [c EXCEPT !.backoff[p] = Pause["shed"]], p)]]

Excess(c) == Cardinality(Connected(c)) - c.maxPeers

(* Faulty variant: one edge too many is tolerated.                           *)
TrimFaultyLate(maintain) == [c \in Mesh |->
  IF Excess(c) <= 1 THEN c
  ELSE ForEach(Excess(c), DropOrder(c),
               [c EXCEPT !.cooldown = Greatest(@, Pause["trim"])], Shed(maintain))]

(* trimExcessPeers: the order is fixed before the first edge is shed.        *)
Trim(maintain) == [c \in Mesh |->
  IF Excess(c) <= 0 THEN c
  ELSE ForEach(Excess(c), DropOrder(c),
               [c EXCEPT !.cooldown = Greatest(@, Pause["trim"])], Shed(maintain))]

(* maybeRebalanceForCloserPeer: dial a closer peer, to drop the farthest     *)
(* edge once the dial has succeeded.                                         *)
Rebalance(c, available) ==
  LET edges == Connected(c) \ {c.drop[t] : t \in Peers}
      ready == {p \in available : c.knownFor[p] >= 1 /\ c.attempt[p] = 0}
      farthest == InOrder({<<Flag(p \notin Protected(c)), setup.distance[p],
                             setup.order[p], p>> : p \in edges})[Cardinality(edges)]
      closest == InOrder({<<OverlayPriority(c, p), setup.capacity[p], setup.distance[p],
                            setup.order[p], p>> : p \in ready})[1]
      tried == [c EXCEPT !.cooldown = Pause["rebalance"],
                         !.attempt[closest] = Pause["attempt"],
                         !.attempt[farthest] = Pause["attempt"],
                         !.drop[closest] = farthest]
      dialled == ConnectTo(tried, closest, TRUE)
  IN IF \/ setup.tolerantPeers = 0 \/ c.cooldown > 0
        \/ Cardinality(Connected(c)) < Greatest(c.maxPeers, setup.minPeers + 1)
        \/ edges = {} \/ ready = {}
     THEN c
     ELSE IF \/ c.heldFor[farthest] = 0
             \/ /\ OverlayPriority(c, closest) # 0
                /\ 4 * setup.distance[closest] >= 3 * setup.distance[farthest]
             \/ c.discovered \ {farthest, closest} = {}
     THEN c
     ELSE IF dialled.conn[closest] = "none"
     THEN [dialled EXCEPT !.drop[closest] = None]
     ELSE dialled

(* connectToPeer *)
Dial == [p \in Peers |-> [c \in Mesh |-> ConnectTo(c, p, FALSE)]]

(* maintainPeerConnections *)
Balance(maintain) == [c \in Mesh |->
  LET connected == Cardinality(Connected(c))
      available == {p \in Candidates(c, connected = 0) \ (Pending(c) \cup Connected(c)) :
                      c.backoff[p] = 0}
      many == Cardinality(available)
      needed == setup.minPeers - Slots(c)
      burst == IF Isolated(c) THEN Greatest(needed, Least(3, Greatest(2, many))) ELSE needed
      tries == IF many <= 2 * c.maxPeers THEN many ELSE Greatest(burst, setup.minPeers + 1)
      dials(k) == ForEach(Least(k, many), DialOrder(c, available), c, Dial)
  IN IF needed > 0 THEN dials(tries)
     ELSE IF Slots(c) < c.maxPeers /\ available # {}
     THEN IF c.cooldown > 0 THEN c ELSE dials(1)
     ELSE IF Excess(c) > 0 THEN Trim(maintain)[c]
     ELSE IF /\ connected >= c.maxPeers
             /\ Cardinality(Pending(c)) < setup.tolerantPeers
             /\ available # {}
     THEN Rebalance(c, available)
     ELSE c]

(* Maintenance sheds edges, and each edge shed calls maintenance again: n is *)
(* how many such calls there may still be inside each other.  Every one has  *)
(* fewer edges, so that MaxDepth of them are never under way.                *)
MaxDepth == Cardinality(Peers) + 1

Maintaining[n \in 0..MaxDepth] ==
  [c \in Mesh |->
     IF n = 0 THEN c ELSE Balance(Maintaining[n - 1])[RecoverOrphans[NoteStable(c)]]]

Maintenance == Maintaining[MaxDepth]

Maintain(c) == Maintenance[c]

Discard(c, p) == RemovePeer(Maintenance, c, p)

-----------------------------------------------------------------------------
(* Events.  A handler that started dials leaves their promises unsettled.    *)

Becomes(c) ==
  \E d \in {c} : /\ mesh' = [d EXCEPT !.dialled = {}]
                  /\ unsettled' = unsettled \cup d.dialled

Fault == faults < MaxFaults /\ faults' = faults + 1

(* trackRtcNegotiation, when FreeRTC answers an offer of p.                  *)
Inbound(p) ==
  /\ mesh.rtc[p] = "none"
  /\ mesh.conn[p] = "none"
  /\ Fault
  /\ Becomes([mesh EXCEPT !.rtc[p] = "negotiating", !.conn[p] = "pending",
                          !.connecting = @ \cup {p}, !.orphanFor[p] = None,
                          !.startedFor[p] = IF @ = None THEN 0 ELSE @])
  /\ UNCHANGED <<setup, registered>>

(* rtc:connected: the data channel to p is open.                             *)
Opened(c, p) ==
  [c EXCEPT !.conn[p] = "connected", !.connecting = @ \ {p}, !.startedFor[p] = None,
            !.elder[p] = Connected(c), !.heldFor[p] = 0, !.rtc[p] = "open",
            !.orphanFor[p] = None, !.drop[p] = None]

(* The edge that a completed rebalance replaces.                             *)
Replaced(c, opened, p) ==
  LET d == c.drop[p] IN
  IF d # None /\ d # p /\ Excess(opened) > 0
  THEN Discard(opened, d) ELSE opened

Open(p) ==
  /\ mesh.rtc[p] = "negotiating"
  /\ p \in setup.reachable
  /\ Becomes(Maintain(Trim(Maintenance)[Replaced(mesh, Opened(mesh, p), p)]))
  /\ UNCHANGED <<setup, registered, faults>>

(* rtc:disconnected, for a transport that failed or that we closed.          *)
Lost(c, p, failed) ==
  LET d == ForgetRebalance([c EXCEPT !.rtc[p] = "none"], p) IN
  IF c.conn[p] = "none" THEN d
  ELSE Maintain(Forget(IF c.conn[p] = "connected" /\ failed
                       THEN NoteTransportDisconnect(d, p) ELSE d, p))

Break(p) ==
  /\ mesh.rtc[p] \in {"negotiating", "open"}
  /\ Fault
  /\ Becomes(Lost(mesh, p, TRUE))
  /\ UNCHANGED <<setup, registered>>

(* The browser reports a failed connection; nobody is told.                  *)
Die(p) ==
  /\ mesh.rtc[p] = "negotiating"
  /\ Fault
  /\ mesh' = [mesh EXCEPT !.rtc[p] = "dead"]
  /\ UNCHANGED <<setup, registered, unsettled>>

(* rtc:negotiation-failed, and the release of the transport that follows it. *)
NegotiationFailed(p) ==
  /\ mesh.rtc[p] = "negotiating"
  /\ Fault
  /\ Becomes(Lost([NoteDialFailure(mesh, p) EXCEPT !.active = @ \ {p}], p, TRUE))
  /\ UNCHANGED <<setup, registered>>

(* The promise of a dial is rejected, perhaps long after the entry it was    *)
(* made for has been replaced.  A promise that resolves changes nothing.     *)
Reject(p) ==
  LET freed == Discard([NoteDialFailure(mesh, p) EXCEPT
                             !.connecting = @ \ {p}, !.startedFor[p] = None], p)
  IN /\ p \in unsettled
     /\ Fault
     /\ \E d \in {freed} : /\ mesh' = [d EXCEPT !.dialled = {}]
                            /\ unsettled' = (unsettled \ {p}) \cup d.dialled
     /\ UNCHANGED <<setup, registered>>

(* reconcileSignalingPeers, after a bootstrap answer of the relay.           *)
Reconciled(c, v) ==
  LET d == [c EXCEPT !.snapshot = TRUE, !.active = v.active, !.discovered = v.peers,
                     !.knownFor = [p \in Peers |-> IF p \in v.peers THEN @[p] ELSE 0]]
      absent == {p \in Peers : d.conn[p] = "pending" /\ p \notin v.active /\ v.active # {}}
      replace == [p \in Peers |-> [e \in Mesh |-> Discard(NoteDialFailure(e, p), p)]]
  IN ForEach(Cardinality(absent), Entries(absent), d, replace)

Snapshot(v) ==
  /\ v.peers # mesh.discovered \/ v.active # mesh.active \/ ~mesh.snapshot
  /\ Becomes(Maintain(Reconciled(mesh, v)))
  /\ UNCHANGED <<setup, registered, faults>>

(* maybeRefreshDiscovery: reasons to ask the relay again.                    *)
Refreshes(c) ==
  LET connected == Cardinality(Connected(c)) IN
  \/ connected < setup.minPeers
  \/ Cardinality(c.discovered) < setup.minPeers
  \/ connected >= c.maxPeers /\ Cardinality(c.discovered) <= connected
  \/ Pending(c) # {}

(* handleSignalingPeerLeft: absence from the relay tears nothing down.       *)
PeerLeft(p) ==
  /\ p \in mesh.discovered
  /\ Fault
  /\ mesh' = [mesh EXCEPT !.discovered = @ \ {p}, !.active = @ \ {p}, !.knownFor[p] = 0]
  /\ UNCHANGED <<setup, registered, unsettled>>

(* disconnectFromPeer by the application.                                    *)
Disconnect(p) ==
  /\ mesh.conn[p] # "none"
  /\ Fault
  /\ Becomes(Discard(mesh, p))
  /\ UNCHANGED <<setup, registered>>

(* updateConfig with another maxPeers.                                       *)
UpdateConfig(limit) ==
  /\ limit # mesh.maxPeers
  /\ setup.minPeers <= limit
  /\ Fault
  /\ Becomes(Maintain(Trim(Maintenance)[[mesh EXCEPT !.maxPeers = limit]]))
  /\ UNCHANGED <<setup, registered>>

(* hardReset closes every transport; each report of a closed one runs        *)
(* maintenance, whose dials are then cleared with all entries.               *)
Reset(c) ==
  LET base == [c EXCEPT !.startedFor = All(None), !.heldFor = All(None),
                        !.elder = All({}), !.drop = All(None)]
      owned == Pending(c) \cup Connected(c) \cup {p \in Peers : c.rtc[p] # "none"}
      close == [p \in Peers |-> [d \in Mesh |->
                  IF d.rtc[p] = "none" THEN d ELSE Lost(d, p, FALSE)]]
      closed == ForEach(Cardinality(owned), Entries(owned), base, close)
  IN Maintain([closed EXCEPT !.conn = All("none"), !.connecting = {}, !.orphanFor = All(None)])

HardReset ==
  /\ Fault
  /\ Becomes(Reset(mesh))
  /\ UNCHANGED <<setup, registered>>

(* The registration with the relay is lost or acknowledged again.            *)
Registration ==
  /\ registered => faults < MaxFaults
  /\ registered' = ~registered
  /\ faults' = IF registered THEN faults + 1 ELSE faults
  /\ UNCHANGED <<setup, mesh, unsettled>>

(* Faulty variant: only transports that are known to be dead are recovered.  *)
StalledFaultyDead(c) ==
  {p \in Peers : c.conn[p] = "pending" /\ c.startedFor[p] = Pause["stalled"] /\ c.rtc[p] = "dead"}

(* The watchdog of pending negotiations frees one slot, the oldest entry's.  *)
Stalled(c) == {p \in Peers : c.conn[p] = "pending" /\ c.startedFor[p] = Pause["stalled"]}

RecoverStalled(c, p) == Discard(NoteDialFailure(c, p), p)

(* recoverMeshAfterInactivity: the page is back; no back-off counts.         *)
Resume ==
  LET fresh == RecoverOrphans[[mesh EXCEPT !.failures = All(0), !.backoff = All(0),
                                           !.attempt = All(0), !.cooldown = 0]]
  IN /\ Fault
     /\ IF Stalled(fresh) = {} THEN Becomes(Maintain(fresh))
        ELSE \E p \in Stalled(fresh) : Becomes(Maintain(RecoverStalled(fresh, p)))
     /\ UNCHANGED <<setup, registered>>

(* One period passes.                                                        *)
Aged(c) ==
  LET older(age, max) == IF age = None THEN None ELSE Least(age + 1, max) IN
  [c EXCEPT
     !.startedFor = [p \in Peers |-> older(@[p], Pause["stalled"])],
     !.orphanFor = [p \in Peers |-> older(@[p], Pause["stalled"])],
     !.heldFor = [p \in Peers |-> older(@[p], Pause["stable"])],
     !.knownFor = [p \in Peers |-> IF p \in c.discovered
                                   THEN older(@[p], Pause["grace"]) ELSE 0],
     !.backoff = [p \in Peers |-> Greatest(@[p] - 1, 0)],
     !.attempt = [p \in Peers |-> Greatest(@[p] - 1, 0)],
     !.cooldown = Greatest(@ - 1, 0)]

(* maybeHardResetUnderConnected asks for more connections, once the time it   *)
(* waits for has passed, which is left open.                                 *)
UnderConnected(c) ==
  LET connected == Cardinality(Connected(c))
      candidates == Candidates(c, connected = 0)
  IN /\ registered
     /\ \/ connected < setup.minPeers /\ Cardinality(candidates) >= setup.minPeers
        \/ connected = 0 /\ candidates # {}

Recovered(c) == {c} \cup (IF UnderConnected(c) THEN {Maintain(c)} ELSE {})

(* The maintenance timer, and the time since its last turn.                  *)
Tick ==
  /\ \E c \in {Aged(mesh)} :
       \E d \in IF Stalled(c) = {} THEN {c} ELSE {RecoverStalled(c, p) : p \in Stalled(c)} :
         \E e \in {Maintain(d)} : \E r \in Recovered(e) : Becomes(r)
  /\ UNCHANGED <<setup, registered, faults>>

Next ==
  \/ \E p \in Peers : \/ Inbound(p) \/ Open(p) \/ Break(p) \/ Die(p)
                      \/ NegotiationFailed(p) \/ Reject(p)
                      \/ PeerLeft(p) \/ Disconnect(p)
  \/ \E v \in setup.snapshots : Snapshot(v)
  \/ \E limit \in setup.limits : UpdateConfig(limit)
  \/ HardReset \/ Registration \/ Resume \/ Tick

Spec == Init /\ [][Next]_vars

(* The timer goes on, the relay answers a mesh that asks, a registration is  *)
(* retried, a transport that can open does so.                               *)
FairSpec ==
  /\ Spec
  /\ WF_vars(Tick)
  /\ WF_vars(Registration /\ ~registered)
  /\ SF_vars(\E p \in Peers : Open(p))
  /\ WF_vars(registered /\ Refreshes(mesh) /\ \E v \in setup.snapshots : Snapshot(v))

-----------------------------------------------------------------------------
(* Properties                                                                *)

(* "maxPeers is the steady-state target": whatever connects, no handler ends *)
(* with more edges.                                                          *)
DegreeBound == Cardinality(Connected(mesh)) <= mesh.maxPeers

(* A planned rebalance waits for a pending dial, to replace a live edge, and *)
(* no edge is to be replaced twice.                                          *)
RebalanceTracked(c) ==
  \A t \in Peers : c.drop[t] # None =>
     /\ c.conn[t] = "pending"
     /\ c.conn[c.drop[t]] = "connected"
     /\ \A u \in Peers \ {t} : c.drop[u] # c.drop[t]

(* The mesh and FreeRTC agree on the edges, every slot that a dial or an     *)
(* offer has taken is one the watchdog will free (it has a starting time),   *)
(* and every tolerance slot of a rebalance is bound to a live dial and edge. *)
SlotsAccounted ==
  /\ \A p \in Peers : mesh.conn[p] = "connected" <=> mesh.rtc[p] = "open"
  /\ mesh.connecting \subseteq {p \in Peers : mesh.conn[p] = "pending"}
  /\ \A p \in Pending(mesh) : mesh.startedFor[p] # None
  /\ RebalanceTracked(mesh)

Reached(c) == {setup.component[p] : p \in Connected(c)}

(* Making room for a new edge keeps every component of the mesh in reach, as *)
(* long as some edge is not the only one into its component.                 *)
AdmissionKeepsReach ==
  [][\A p \in Peers :
       (/\ mesh.conn[p] # "connected" /\ mesh'.conn[p] = "connected"
        /\ mesh.drop[p] = None
        /\ Cardinality(Reached(mesh) \cup {setup.component[p]}) <= mesh.maxPeers)
       => Reached(mesh) \subseteq Reached(mesh')]_vars

(* A PartialMesh without edges gets one, whatever hangs, while a peer whose  *)
(* transport can open is on the relay.                                       *)
IsolatedRecovers == (Connected(mesh) = {}) ~> (Connected(mesh) # {})

=============================================================================
