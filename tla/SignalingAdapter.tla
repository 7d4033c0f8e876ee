-------------------------- MODULE SignalingAdapter --------------------------
(* The adapter between one PartialMesh and FreeRTC                           *)
(* (freertc-client-adapter.ts): registration with one of several relays, and *)
(* the transports it reports as edges.  A callback or a timer runs to its    *)
(* end.  Times are left open: where setup.races, a probe may expire before   *)
(* the answer that is due to it.                                             *)
(* pendingTransportRestorePeerIds is never filled, and the two flags of a    *)
(* recycled transport are down whenever a handler ends: none has a variable. *)
EXTENDS Discovery, FiniteSets

CONSTANTS
  Relays,         \* number of configured relays
  Setups          \* what a behaviour starts from: see SetupOK

(* The peers there are; bounds on the faults (lost answers, relays that      *)
(* fail, transports that break, peers that stop) and on the advertisements   *)
(* of each peer; without advertisements, discovery is left out.  Whether     *)
(* relays stamp them, and whether a probe may expire before an answer that   *)
(* is due.                                                                   *)
SetupOK(s) ==
  s \in [peers: SUBSET Peers, faults: Nat, beats: Nat, stamped: BOOLEAN, races: BOOLEAN]

ASSUME Assumption == Relays \in Nat \ {0} /\ \A s \in Setups : SetupOK(s)

VARIABLES
  ad,             \* the adapter and its FreeRTC client: see Adapter
  up,             \* the relays that answer
  hidden,         \* document.hidden
  faults,
  setup,          \* one of Setups; never changes
  disc,           \* the tables of discovered peers
  adverts,        \* what the peers advertise: see Adverts
  burnt           \* history: the stamp that the last failed negotiation with a peer left

discovery == <<setup, disc, adverts, burnt>>
vars == <<ad, up, hidden, faults, discovery>>

(* modern: the client has reconnectSignaling; link is its socket,           *)
(* silent when the relay has stopped       *)
(* answering unnoticed; asked, a bootstrap request is under way; heard, a    *)
(* bootstrap answer came within the health interval; check, the first health *)
(* check is scheduled; late, what a client that was given up may still call. *)
Transport == [conn: {"connecting", "connected", "lost"},
              channel: {"none", "connecting", "open", "closed"},
              observed: BOOLEAN]

ASSUME NoneAssumption == None \notin Transport \cup Nat

Callback == {"registered", "bootstrap", "closed"}

Adapter ==
  [modern: BOOLEAN, client: BOOLEAN, stopped: BOOLEAN, relay: 0..(Relays - 1),
   link: {"down", "connecting", "registered", "silent"},
   signalingConnected: BOOLEAN, probe: {"none", "recycle", "nudge"},
   check: BOOLEAN, heard: BOOLEAN, asked: BOOLEAN,
   edges: SUBSET Peers, recovering: SUBSET Peers,
   rtc: [Peers -> Transport \cup {None}],
   late: SUBSET Callback]

(* The newest advertisement of every peer, the newest that is no longer      *)
(* fresh, and the peers that have stopped.                                   *)
Adverts == [newest: [Peers -> Nat], stale: [Peers -> Nat], stopped: SUBSET Peers]

TypeOK ==
  /\ setup \in Setups
  /\ disc \in Tables /\ adverts \in Adverts /\ burnt \in [Peers -> Stamp]
  /\ ad \in Adapter
  /\ up \subseteq 0..(Relays - 1)
  /\ hidden \in BOOLEAN
  /\ faults \in 0..setup.faults

All(x) == [p \in Peers |-> x]

Init ==
  /\ \E modern \in BOOLEAN :
     ad = [modern |-> modern, client |-> FALSE, stopped |-> FALSE, relay |-> 0, link |-> "down",
           signalingConnected |-> FALSE, probe |-> "none", check |-> FALSE,
           heard |-> FALSE, asked |-> FALSE, edges |-> {}, recovering |-> {},
           rtc |-> All(None), late |-> {}]
  /\ up \in SUBSET (0..(Relays - 1)) \ {{}}
  /\ hidden = FALSE
  /\ faults = 0
  /\ setup \in Setups
  /\ disc = Empty
  /\ adverts = [newest |-> All(0), stale |-> All(0), stopped |-> {}]
  /\ burnt = All(None)

-----------------------------------------------------------------------------
(* Calls, each from the adapter's state to the one it leaves                 *)

IsRegistered(c) == c.client /\ c.link \in {"registered", "silent"}

(* Faulty variant: the callbacks of a client that was given up count.        *)
IsCurrentFaulty(c, source) == ~c.stopped

(* isCurrentClient *)
IsCurrent(c, source) == source = "current" /\ ~c.stopped

RequestBootstrap(c) == [c EXCEPT !.asked = @ \/ IsRegistered(c)]

(* emitConnectedIfNeeded, with scheduleInitialSignalingHealthCheck.          *)
EmitConnected(c) ==
  [c EXCEPT !.signalingConnected = TRUE, !.check = @ \/ ~c.signalingConnected]

(* ensureRegistrationRecoveryProbe *)
EnsureProbe(c) ==
  IF c.probe # "none" \/ c.stopped THEN c ELSE [c EXCEPT !.probe = "recycle"]

ClientConnect(c) == [c EXCEPT !.link = IF @ = "down" THEN "connecting" ELSE @]

(* connect; nudgeSignaling also advertises.                                  *)
Connected(c) ==
  LET started == [c EXCEPT !.stopped = FALSE] IN
  IF ~c.client THEN EnsureProbe([started EXCEPT !.client = TRUE, !.link = "connecting"])
  ELSE IF IsRegistered(c) THEN RequestBootstrap(EmitConnected(started))
  ELSE ClientConnect(EnsureProbe(started))

(* The client is disconnected and given up.                                  *)
GivenUp(c) ==
  [c EXCEPT !.client = FALSE, !.link = "down", !.asked = FALSE, !.rtc = All(None),
            !.late = Callback]

Broken(t) == t = None \/ t.channel # "open" \/ t.conn = "lost"

(* releaseStalePeerImmediately *)
Release(c, p, forceNotify) ==
  IF \/ c.stopped
     \/ p \in c.recovering /\ ~forceNotify
     \/ c.rtc[p] = None /\ p \notin c.edges /\ ~forceNotify
  THEN c
  ELSE RequestBootstrap([c EXCEPT !.recovering = @ \cup {p}, !.rtc[p] = None,
                                  !.edges = @ \ {p}])

(* Faulty variant: a relay is replaced although an edge is open.             *)
FailsOverFaulty(c) == Relays > 1

FailsOver(c) == Relays > 1 /\ c.edges = {}

(* Faulty variant: the same relay is tried for ever.                         *)
NextRelayFaulty(r) == r

NextRelay(r) == (r + 1) % Relays

(* recycleStaleSignalingTransport: the next relay, or a new socket, or, for  *)
(* an old client, a disconnect that tears down its transports too.           *)
Recycled(c) ==
  LET d == [c EXCEPT !.signalingConnected = FALSE, !.probe = "none", !.recovering = {}] IN
  IF c.stopped \/ ~c.client THEN c
  ELSE IF FailsOver(d) THEN Connected([GivenUp(d) EXCEPT !.relay = NextRelay(@)])
  ELSE IF c.modern THEN [EnsureProbe(d) EXCEPT !.link = "connecting", !.asked = FALSE]
  ELSE IF d.edges # {} THEN RequestBootstrap(d)
  ELSE EnsureProbe([d EXCEPT !.link = "connecting", !.asked = FALSE, !.rtc = All(None)])

(* Faulty variant: a peer whose edge was released stays marked.              *)
OwnedFaulty(c, p) == c

(* A new transport owns the peer: what befalls it is heard again.            *)
Owned(c, p) == [c EXCEPT !.recovering = @ \ {p}]

(* activateOpenDataChannel *)
Activated(c, p) ==
  IF c.rtc[p] # None /\ c.rtc[p].channel = "open" /\ c.rtc[p].observed
  THEN [c EXCEPT !.edges = @ \cup {p}] ELSE c

(* waitForOpenDataChannel *)
Awaited(c, p) ==
  IF p \in c.edges THEN c
  ELSE IF c.rtc[p] = None THEN Release(c, p, FALSE)
  ELSE IF c.rtc[p].channel = "none" THEN c
  ELSE Activated([c EXCEPT !.rtc[p].observed = TRUE], p)

(* Faulty variant: a transport that broke while the page slept is kept.      *)
UnusableFaulty(c) == {p \in c.edges : c.rtc[p] = None}

(* The edges that recoverAfterInactivity finds broken.                       *)
Unusable(c) == {p \in c.edges : Broken(c.rtc[p])}

(* recoverAfterInactivity *)
Resumed(c) ==
  LET gone == Unusable(c)
      d == [c EXCEPT !.probe = "none", !.heard = FALSE, !.recovering = gone,
                     !.edges = @ \ gone,
                     !.rtc = [p \in Peers |-> IF p \in gone THEN None ELSE @[p]]]
  IN IF c.stopped THEN c
     ELSE IF ~IsRegistered(c) THEN ClientConnect(EnsureProbe(d))
     ELSE RequestBootstrap([d EXCEPT !.probe = "recycle"])

-----------------------------------------------------------------------------
(* Signalling                                                                *)

Fault == faults < setup.faults /\ faults' = faults + 1

(* PartialMesh connects when it starts and before a dial.                    *)
Connect ==
  /\ ~ad.stopped
  /\ ad' = Connected(ad)
  /\ UNCHANGED <<up, hidden, faults, discovery>>

Disconnect ==
  /\ ad.client
  /\ ad' = [GivenUp(ad) EXCEPT !.stopped = TRUE, !.signalingConnected = FALSE,
                               !.probe = "none", !.check = FALSE, !.edges = {},
                               !.recovering = {}]
  /\ disc' = Empty
  /\ burnt' = All(None)
  /\ UNCHANGED <<up, hidden, faults, setup, adverts>>

(* joinSession *)
JoinSession ==
  /\ IsRegistered(ad)
  /\ ad' = RequestBootstrap(ad)
  /\ UNCHANGED <<up, hidden, faults, discovery>>

(* onRegistered: the probe that may recycle gives way to one that may not.   *)
OnRegistered(c, source) ==
  IF ~IsCurrent(c, source) THEN c
  ELSE RequestBootstrap([EmitConnected(c) EXCEPT !.probe = "nudge"])

(* onBootstrap; Discovery has what becomes of the candidates.                *)
OnBootstrap(c, source) ==
  IF ~IsCurrent(c, source) THEN c ELSE [c EXCEPT !.heard = TRUE, !.probe = "none"]

(* onStatusChange, of a socket that has closed.                              *)
OnClosed(c, source) ==
  IF ~IsCurrent(c, source) THEN c ELSE [c EXCEPT !.signalingConnected = FALSE]

Registered ==
  /\ ad.client /\ ad.link = "connecting" /\ ad.relay \in up
  /\ ad' = OnRegistered([ad EXCEPT !.link = "registered"], "current")
  /\ UNCHANGED <<up, hidden, faults, discovery>>

(* What a relay may answer: some peers, with some advertisements of theirs.  *)
Answers ==
  {[present |-> DOMAIN row,
    stamp |-> [p \in Peers |-> IF setup.stamped /\ p \in DOMAIN row THEN row[p] ELSE None],
    fresh |-> {p \in DOMAIN row : ~setup.stamped \/ row[p] > adverts.stale[p]}] :
     row \in UNION {[S -> 1..setup.beats] : S \in SUBSET {p \in setup.peers : adverts.newest[p] > 0}}}

Possible(answer) ==
  \A p \in answer.present : answer.stamp[p] # None => answer.stamp[p] <= adverts.newest[p]

Complete(answer) ==
  \A p \in Peers \ adverts.stopped : adverts.newest[p] > 0 =>
    /\ p \in answer.present
    /\ setup.stamped => answer.stamp[p] = adverts.newest[p]

Answered(answer) ==
  /\ ad.asked /\ ad.link = "registered"
  /\ Possible(answer)
  /\ ad' = OnBootstrap([ad EXCEPT !.asked = FALSE], "current")
  /\ disc' = Received(disc, answer)
  /\ UNCHANGED <<up, hidden, faults, setup, adverts, burnt>>

Lose ==
  /\ ad.asked
  /\ Fault
  /\ ad' = [ad EXCEPT !.asked = FALSE]
  /\ UNCHANGED <<up, hidden, discovery>>

SocketCloses ==
  /\ ad.client /\ ad.link # "down"
  /\ Fault
  /\ ad' = OnClosed([ad EXCEPT !.link = "down", !.asked = FALSE], "current")
  /\ UNCHANGED <<up, hidden, discovery>>

(* A client that was given up still calls.                                   *)
LateCall(cb) ==
  LET c == [ad EXCEPT !.late = @ \ {cb}] IN
  /\ cb \in ad.late
  /\ ad' = CASE cb = "registered" -> OnRegistered(c, "old")
             [] cb = "bootstrap" -> OnBootstrap(c, "old")
             [] cb = "closed" -> OnClosed(c, "old")
  /\ UNCHANGED <<up, hidden, faults, discovery>>

(* FreeRTC's own retry.                                                      *)
ClientRetries ==
  /\ ad.client /\ ad.link = "down"
  /\ ad' = ClientConnect(ad)
  /\ UNCHANGED <<up, hidden, faults, discovery>>

RelayFails(r) ==
  /\ r \in up /\ up # {r}
  /\ Fault
  /\ up' = up \ {r}
  /\ ad' = [ad EXCEPT !.link = IF ad.relay = r /\ @ = "registered" THEN "silent" ELSE @]
  /\ UNCHANGED <<hidden, discovery>>

RelayReturns(r) ==
  /\ r \in 0..(Relays - 1) \ up
  /\ Fault
  /\ up' = up \cup {r}
  /\ UNCHANGED <<ad, hidden, discovery>>

(* Bound: a relay that is up answers in time, unless answers race.           *)
InTime == \/ setup.races
          \/ /\ ~(ad.link = "connecting" /\ ad.relay \in up)
             /\ ~(ad.asked /\ ad.link = "registered")

(* The recovery probe, four seconds after it was started.                    *)
ProbeExpires ==
  /\ ad.probe # "none" /\ InTime
  /\ LET c == [ad EXCEPT !.probe = "none"] IN
     ad' = IF hidden THEN c
           ELSE IF ad.probe = "recycle" THEN Recycled(c) ELSE RequestBootstrap(c)
  /\ UNCHANGED <<up, hidden, faults, discovery>>

(* reconnectSignaling throws.                                                *)
ReconnectThrows ==
  /\ ad.probe = "recycle" /\ ad.client /\ ~hidden /\ ad.modern
  /\ ~FailsOver(ad)
  /\ InTime
  /\ Fault
  /\ ad' = [ad EXCEPT !.probe = "none", !.signalingConnected = FALSE, !.recovering = {}]
  /\ UNCHANGED <<up, hidden, discovery>>

(* The two health checks, when neither a probe nor a hidden page stops them. *)
Checked(c, quiet) ==
  IF ~IsRegistered(c) THEN ClientConnect(EnsureProbe(c))
  ELSE IF quiet THEN c
  ELSE RequestBootstrap([c EXCEPT !.probe = "recycle"])

HealthCheck ==
  /\ ~ad.stopped /\ ad.client /\ ad.probe = "none" /\ ~hidden
  /\ ad' = Checked(ad, ad.heard)
  /\ UNCHANGED <<up, hidden, faults, discovery>>

InitialCheck ==
  /\ ad.check
  /\ LET c == [ad EXCEPT !.check = FALSE] IN
     ad' = IF ad.probe # "none" \/ hidden THEN c ELSE Checked(c, ad.edges # {})
  /\ UNCHANGED <<up, hidden, faults, discovery>>

(* The health interval passes without an answer.                             *)
Interval ==
  /\ ad.heard
  /\ ad' = [ad EXCEPT !.heard = FALSE]
  /\ UNCHANGED <<up, hidden, faults, discovery>>

Hide ==
  /\ ~hidden
  /\ Fault
  /\ hidden' = TRUE
  /\ UNCHANGED <<ad, up, discovery>>

Show ==
  /\ hidden
  /\ hidden' = FALSE
  /\ ad' = Resumed(ad)
  /\ UNCHANGED <<up, faults, discovery>>

(* recoverAfterInactivity for another reason: focus, network, application.   *)
Recover ==
  /\ Fault
  /\ ad' = Resumed(ad)
  /\ UNCHANGED <<up, hidden, discovery>>

-----------------------------------------------------------------------------
(* Transports.  FreeRTC changes one and calls the adapter in one task.       *)

Fresh == [conn |-> "connecting", channel |-> "connecting", observed |-> FALSE]

(* initiateConnection, or FreeRTC accepts an offer, whose channel is not     *)
(* there yet; a new offer of the other side replaces an older transport.     *)
Dial(p) ==
  /\ IsRegistered(ad) /\ ad.rtc[p] = None
  /\ ad' = Owned([ad EXCEPT !.rtc[p] = Fresh], p)
  /\ UNCHANGED <<up, hidden, faults, discovery>>

Accept(p) ==
  /\ IsRegistered(ad)
  /\ ad.rtc[p] # None => Broken(ad.rtc[p])
  /\ Fault
  /\ ad' = Owned([ad EXCEPT !.rtc[p] = [Fresh EXCEPT !.channel = "none"]], p)
  /\ UNCHANGED <<up, hidden, discovery>>

(* State connected; the channel that an offer announced comes with it.       *)
TransportUp(p) ==
  /\ ad.rtc[p] # None /\ ad.rtc[p].conn = "connecting"
  /\ ad' = Awaited(Owned([ad EXCEPT !.rtc[p].conn = "connected",
                                    !.rtc[p].channel = IF @ = "none" THEN "connecting" ELSE @],
                         p), p)
  /\ disc' = Released(disc, p)
  /\ burnt' = [burnt EXCEPT ![p] = None]
  /\ UNCHANGED <<up, hidden, faults, setup, adverts>>

ChannelOpens(p) ==
  /\ ad.rtc[p] # None /\ ad.rtc[p].channel = "connecting"
  /\ ad' = Activated([ad EXCEPT !.rtc[p].channel = "open"], p)
  /\ UNCHANGED <<up, hidden, faults, discovery>>

(* The channel closes, or the connection is disconnected or fails.           *)
ChannelCloses(p) ==
  /\ ad.rtc[p] # None /\ ad.rtc[p].channel = "open"
  /\ Fault
  /\ LET c == [ad EXCEPT !.rtc[p].channel = "closed"] IN
     ad' = IF ad.rtc[p].observed THEN Release(c, p, FALSE) ELSE c
  /\ UNCHANGED <<up, hidden, discovery>>

TransportLost(p, reason) ==
  /\ ad.rtc[p] # None
  /\ Fault
  /\ ad' = Release([ad EXCEPT !.rtc[p].conn = "lost"], p, reason)
  /\ UNCHANGED <<up, hidden, discovery>>

(* While the page sleeps nobody is told.                                     *)
LostUnheard(p) ==
  /\ hidden
  /\ ad.rtc[p] # None
  /\ Fault
  /\ ad' = [ad EXCEPT !.rtc[p].conn = "lost", !.rtc[p].channel = "closed"]
  /\ UNCHANGED <<up, hidden, discovery>>

(* Bound: the peer will advertise itself once more.                          *)
NegotiationFails(p) ==
  /\ ad.rtc[p] # None /\ p \notin ad.edges
  /\ Fault
  /\ ad' = Release(ad, p, TRUE)
  /\ IF setup.beats = 0 THEN UNCHANGED <<disc, burnt>>
     ELSE /\ adverts.newest[p] < setup.beats
          /\ disc' = Quarantined(disc, p, adverts.newest[p])
          /\ burnt' = [burnt EXCEPT ![p] = disc'.failed[p]]
  /\ UNCHANGED <<up, hidden, setup, adverts>>

(* closeConnection *)
CloseConnection(p) ==
  /\ ad.rtc[p] # None \/ p \in ad.edges
  /\ ad' = [ad EXCEPT !.recovering = @ \ {p}, !.edges = @ \ {p}, !.rtc[p] = None]
  /\ UNCHANGED <<up, hidden, faults, discovery>>

(* send or broadcast to an edge whose channel is not open.                   *)
SendFails(p) ==
  /\ p \in ad.edges /\ Broken(ad.rtc[p])
  /\ ad' = Release(ad, p, FALSE)
  /\ UNCHANGED <<up, hidden, faults, discovery>>

-----------------------------------------------------------------------------
(* The relays' news of the peers.  All clocks agree.                         *)

Advertise(p) ==
  /\ p \notin adverts.stopped /\ adverts.newest[p] < setup.beats
  /\ adverts' = [adverts EXCEPT !.newest[p] = @ + 1]
  /\ UNCHANGED <<ad, up, hidden, faults, setup, disc, burnt>>

Stops(p) ==
  /\ setup.beats > 0 /\ p \notin adverts.stopped
  /\ Fault
  /\ adverts' = [adverts EXCEPT !.stopped = @ \cup {p}]
  /\ UNCHANGED <<ad, up, hidden, setup, disc, burnt>>

(* An advertisement is no longer fresh.                                      *)
Ages(p) ==
  /\ adverts.stale[p] + (IF p \in adverts.stopped THEN 0 ELSE 1) < adverts.newest[p]
  /\ adverts' = [adverts EXCEPT !.stale[p] = @ + 1]
  /\ UNCHANGED <<ad, up, hidden, faults, setup, disc, burnt>>

(* Nobody has named p for so long that what it advertised until then, or     *)
(* before it was dialled in vain, is not fresh: DISCOVERY_ABSENCE_GRACE_MS   *)
(* is more than DISCOVERY_ACTIVE_MAX_AGE_MS.                                 *)
Lapses(p) ==
  /\ p \in disc.known \ disc.lapsed
  /\ disc.advertised[p] # None =>
       \A stamp \in {disc.advertised[p], disc.failed[p]} \ {None} : stamp <= adverts.stale[p]
  /\ disc' = [disc EXCEPT !.lapsed = @ \cup {p}]
  /\ UNCHANGED <<ad, up, hidden, faults, setup, adverts, burnt>>

Announcements == \E p \in setup.peers : Advertise(p) \/ Stops(p) \/ Ages(p) \/ Lapses(p)

Signalling ==
  \/ Connect \/ Disconnect \/ JoinSession \/ Registered \/ Lose
  \/ \E answer \in Answers : Answered(answer)
  \/ SocketCloses \/ ClientRetries \/ ProbeExpires \/ ReconnectThrows
  \/ HealthCheck \/ InitialCheck \/ Interval \/ Hide \/ Show \/ Recover
  \/ \E cb \in Callback : LateCall(cb)
  \/ \E r \in 0..(Relays - 1) : RelayFails(r) \/ RelayReturns(r)

Transports ==
  \E p \in setup.peers :
    \/ Dial(p) \/ Accept(p) \/ TransportUp(p) \/ ChannelOpens(p) \/ ChannelCloses(p)
    \/ \E reason \in BOOLEAN : TransportLost(p, reason)
    \/ LostUnheard(p) \/ NegotiationFails(p) \/ CloseConnection(p) \/ SendFails(p)

Next == Signalling \/ Transports \/ Announcements

Spec == Init /\ [][Next]_vars

(* Timers fire, the page is shown again, FreeRTC retries, and every edge is  *)
(* written to, since anti-entropy never rests.  A relay that is up answers:  *)
(* before the probe expires, if it is asked again and again.                 *)
(* Peers go on advertising, and relays have it from each other in the end.   *)
FairSpec ==
  /\ Spec
  /\ WF_vars(Connect /\ ~ad.client) /\ SF_vars(Registered)
  /\ WF_vars(\E answer \in Answers : Answered(answer))
  /\ SF_vars(\E answer \in Answers : Complete(answer) /\ Answered(answer))
  /\ WF_vars(\E p \in setup.peers : Advertise(p))
  /\ WF_vars(ProbeExpires) /\ WF_vars(HealthCheck) /\ WF_vars(Interval)
  /\ WF_vars(Show) /\ WF_vars(\E p \in Peers : SendFails(p))

-----------------------------------------------------------------------------
(* Properties                                                                *)

(* An edge is never one whose loss would be taken for that of an older       *)
(* transport, which has been reported already.                               *)
NoDeafEdge == ad.edges \cap ad.recovering = {}

(* Somebody is told that the transport of p is lost: FreeRTC reports it, a   *)
(* channel that is observed closes, or a write finds it broken.              *)
Told(p) ==
  \/ \E reason \in BOOLEAN : TransportLost(p, reason)
  \/ ad.rtc[p] # None /\ ad.rtc[p].observed /\ ChannelCloses(p)
  \/ SendFails(p)

(* A loss that reaches the adapter ends the edge at once, whatever mark an   *)
(* older transport of the peer has left.  Nobody is told when the channel    *)
(* closes of a transport that the other side began in place of one that was  *)
(* an edge: it is not observed, and its edge ends with the next write.       *)
LossEndsTheEdge == [][\A p \in Peers : Told(p) => p \notin ad'.edges]_vars

(* The adapter says it is connected to a relay only while its client holds a *)
(* registration, whatever clients that were given up still report.           *)
SignalingTruthful == ad.signalingConnected => IsRegistered(ad)

(* On a page that is shown, an edge has an open channel, unless the other    *)
(* side has begun a new transport in its place.                              *)
EdgesAreOpen ==
  ~hidden => \A p \in ad.edges :
    ad.rtc[p] # None /\ (~Broken(ad.rtc[p]) \/ ~ad.rtc[p].observed)

(* "Never replace the client while an open WebRTC edge exists": no transport *)
(* that works is torn down by the choice of another relay.                   *)
FailoverSparesEdges ==
  [][ad'.relay # ad.relay =>
       \A p \in Peers : Broken(ad.rtc[p]) \/ ad.rtc[p].conn = "connecting"]_vars

(* "Replaying the same discovery row is not evidence that a target           *)
(* recovered": a peer whose negotiation failed is dialled again only on a    *)
(* newer advertisement than any that was known of it then, or than the       *)
(* failure when none was, in whatever order relays tell them.                *)
QuarantineHolds ==
  \A p \in disc.active : setup.stamped /\ burnt[p] # None =>
    disc.advertised[p] # None /\ disc.advertised[p] > burnt[p]

(* A peer that goes on advertising, and has done so since its negotiation    *)
(* failed.                                                                   *)
Present == {p \in setup.peers \ adverts.stopped : adverts.newest[p] > 0}

(* As long as one relay answers, an adapter without edges gets registered    *)
(* and learns whom it may dial, unless relays do not stamp what they tell.   *)
FindsPeers ==
  []<>(\/ ad.stopped \/ ad.edges # {}
       \/ /\ ad.link = "registered"
          /\ setup.stamped /\ Present # {} => disc.active # {})
=============================================================================
