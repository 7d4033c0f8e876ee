---------------------- MODULE SignalingAdapter_proofs ----------------------
(***************************************************************************)
(* The adapter ends an edge with the first loss it hears of, reports a     *)
(* registration only when it has one, and does not dial in vain what it    *)
(* dialled in vain before, for any peers, relays, answers and faults.      *)
(***************************************************************************)
EXTENDS SignalingAdapter, TLAPS

(* What an adapter keeps true of a peer's transport, by any handler.         *)
Owning(c, p) == p \in c.recovering => c.rtc[p] = None

Backed(c, p) == p \in c.edges => c.rtc[p] # None

(* A connected transport is an edge, or is waited for.                       *)
Watched(c, p) ==
  c.rtc[p] # None /\ c.rtc[p].conn = "connected" =>
    /\ c.rtc[p].channel # "none"
    /\ p \in c.edges \/ (c.rtc[p].observed /\ c.rtc[p].channel # "open")

(* Only a page that sleeps does not hear of a lost one.                      *)
Unheard(c, p) ==
  c.rtc[p] # None /\ c.rtc[p].conn = "lost" => c.rtc[p].channel = "closed"

Quiet(c) == c.stopped => ~c.client /\ c.edges = {} /\ \A p \in Peers : c.rtc[p] = None

Truthful(c) == c.signalingConnected => IsRegistered(c)

Sound(c) ==
  /\ c \in Adapter
  /\ Truthful(c)
  /\ Quiet(c)
  /\ \A p \in Peers : Owning(c, p) /\ Backed(c, p) /\ Watched(c, p) /\ Unheard(c, p)

(* What EdgesAreOpen says of a peer.                                         *)
OpenOrNew(c, p) == p \in c.edges => ~Broken(c.rtc[p]) \/ ~c.rtc[p].observed

Awake(c) == \A p \in Peers : OpenOrNew(c, p)

AwakeBut(c, p) == \A q \in Peers \ {p} : OpenOrNew(c, q)

USE DEF Adapter

-----------------------------------------------------------------------------
(* Nothing about transports changes.                                         *)
Same(c, d) ==
  /\ d.stopped = c.stopped /\ d.client = c.client
  /\ d.edges = c.edges /\ d.recovering = c.recovering /\ d.rtc = c.rtc
  /\ d.relay = c.relay

LEMMA SameSound ==
  ASSUME NEW c, NEW d, Sound(c), d \in Adapter, Same(c, d), Truthful(d)
  PROVE  Sound(d) /\ (Awake(c) => Awake(d))
BY DEF Sound, Same, Quiet, Owning, Backed, Watched, Unheard, Awake, OpenOrNew

LEMMA RequestBootstrapLemma ==
  ASSUME NEW c, Sound(c)
  PROVE  /\ Sound(RequestBootstrap(c))
         /\ Awake(c) => Awake(RequestBootstrap(c))
         /\ Same(c, RequestBootstrap(c))
<1> DEFINE d == RequestBootstrap(c)
<1>1. d \in Adapter /\ Same(c, d) /\ Truthful(d)
  BY DEF Sound, RequestBootstrap, Same, Truthful, IsRegistered
<1> QED
  BY <1>1, SameSound

LEMMA EnsureProbeLemma ==
  ASSUME NEW c, Sound(c)
  PROVE  /\ Sound(EnsureProbe(c))
         /\ Awake(c) => Awake(EnsureProbe(c))
         /\ Same(c, EnsureProbe(c))
<1> DEFINE d == EnsureProbe(c)
<1>1. d \in Adapter /\ Same(c, d) /\ Truthful(d)
  BY DEF Sound, EnsureProbe, Same, Truthful, IsRegistered
<1> QED
  BY <1>1, SameSound

LEMMA EmitConnectedLemma ==
  ASSUME NEW c, Sound(c), IsRegistered(c)
  PROVE  /\ Sound(EmitConnected(c))
         /\ Awake(c) => Awake(EmitConnected(c))
         /\ Same(c, EmitConnected(c))
<1> DEFINE d == EmitConnected(c)
<1>1. d \in Adapter /\ Same(c, d) /\ Truthful(d)
  BY DEF Sound, EmitConnected, Same, Truthful, IsRegistered
<1> QED
  BY <1>1, SameSound

LEMMA ClientConnectLemma ==
  ASSUME NEW c, Sound(c)
  PROVE  /\ Sound(ClientConnect(c))
         /\ Awake(c) => Awake(ClientConnect(c))
         /\ Same(c, ClientConnect(c))
<1> DEFINE d == ClientConnect(c)
<1>1. d \in Adapter /\ Same(c, d) /\ Truthful(d)
  BY DEF Sound, ClientConnect, Same, Truthful, IsRegistered
<1> QED
  BY <1>1, SameSound

(* connect makes a client, or leaves the transports as they are.             *)
LEMMA ConnectedLemma ==
  ASSUME NEW c, Sound(c)
  PROVE  /\ Sound(Connected(c))
         /\ Awake(c) => Awake(Connected(c))
         /\ Connected(c).relay = c.relay /\ Connected(c).rtc = c.rtc
<1> DEFINE started == [c EXCEPT !.stopped = FALSE]
           fresh == [started EXCEPT !.client = TRUE, !.link = "connecting"]
<1>1. Sound(started) /\ (Awake(c) => Awake(started))
      /\ started.relay = c.relay /\ started.rtc = c.rtc
  BY DEF Sound, Truthful, IsRegistered, Quiet, Owning, Backed, Watched, Unheard, Awake, OpenOrNew
<1>2. CASE ~c.client
  <2>1. Sound(fresh) /\ (Awake(c) => Awake(fresh))
        /\ fresh.relay = c.relay /\ fresh.rtc = c.rtc
    BY <1>2 DEF Sound, Truthful, IsRegistered, Quiet, Owning, Backed, Watched, Unheard, Awake, OpenOrNew
  <2>2. Connected(c) = EnsureProbe(fresh)
    BY <1>2 DEF Connected
  <2> QED
    BY <2>1, <2>2, EnsureProbeLemma DEF Same
<1>3. CASE c.client /\ IsRegistered(c)
  <2>1. IsRegistered(started)
    BY <1>3 DEF Sound, IsRegistered
  <2>2. Connected(c) = RequestBootstrap(EmitConnected(started))
    BY <1>3 DEF Connected
  <2> HIDE DEF started
  <2>3. /\ Sound(EmitConnected(started))
        /\ Awake(started) => Awake(EmitConnected(started))
        /\ Same(started, EmitConnected(started))
    BY <1>1, <2>1, EmitConnectedLemma
  <2> QED
    BY <1>1, <2>2, <2>3, RequestBootstrapLemma DEF Same
<1>4. CASE c.client /\ ~IsRegistered(c)
  <2>2. Connected(c) = ClientConnect(EnsureProbe(started))
    BY <1>4 DEF Connected
  <2> HIDE DEF started
  <2> QED
    BY <1>1, <2>2, EnsureProbeLemma, ClientConnectLemma DEF Same
<1> QED
  BY <1>2, <1>3, <1>4

LEMMA ReleaseLemma ==
  ASSUME NEW c, Sound(c), NEW p \in Peers, NEW force \in BOOLEAN
  PROVE  /\ Sound(Release(c, p, force))
         /\ AwakeBut(c, p) /\ c.rtc[p] # None => Awake(Release(c, p, force))
         /\ Awake(c) => Awake(Release(c, p, force))
         /\ Release(c, p, force).relay = c.relay
<1> DEFINE d == [c EXCEPT !.recovering = @ \cup {p}, !.rtc[p] = None, !.edges = @ \ {p}]
           early == \/ c.stopped
                    \/ p \in c.recovering /\ ~force
                    \/ c.rtc[p] = None /\ p \notin c.edges /\ ~force
<1>1. CASE early
  <2>1. Release(c, p, force) = c /\ c.rtc[p] = None
    BY <1>1 DEF Release, Sound, Owning, Quiet
  <2> QED
    BY <2>1
<1>2. CASE ~early
  <2>1. Sound(d)
    BY DEF Sound, Truthful, IsRegistered, Quiet, Owning, Backed, Watched, Unheard
  <2>2. /\ p \notin d.edges
        /\ d.relay = c.relay
        /\ AwakeBut(c, p) => Awake(d)
    BY DEF Sound, Awake, AwakeBut, OpenOrNew
  <2>3. Release(c, p, force) = RequestBootstrap(d)
    BY <1>2 DEF Release
  <2>4. Awake(c) => AwakeBut(c, p)
    BY DEF Awake, AwakeBut
  <2> HIDE DEF d
  <2> QED
    BY <2>1, <2>2, <2>3, <2>4, RequestBootstrapLemma DEF Same
<1> QED
  BY <1>1, <1>2

(* A change of relays finds no edge, and no transport that works.            *)
LEMMA RecycledLemma ==
  ASSUME NEW c, Sound(c)
  PROVE  /\ Sound(Recycled(c))
         /\ Awake(c) => Awake(Recycled(c))
         /\ Recycled(c).relay # c.relay => c.edges = {}
<1> DEFINE d == [c EXCEPT !.signalingConnected = FALSE, !.probe = "none", !.recovering = {}]
           e == [GivenUp(d) EXCEPT !.relay = NextRelay(@)]
           probing == EnsureProbe(d)
           f == [probing EXCEPT !.link = "connecting", !.asked = FALSE]
           h == [d EXCEPT !.link = "connecting", !.asked = FALSE, !.rtc = All(None)]
<1>1. Sound(d) /\ (Awake(c) => Awake(d)) /\ d.relay = c.relay /\ d.edges = c.edges
      /\ ~d.signalingConnected
  BY DEF Sound, Truthful, IsRegistered, Quiet, Owning, Backed, Watched, Unheard, Awake, OpenOrNew
<1>2. CASE c.stopped \/ ~c.client
  BY <1>2 DEF Recycled
<1>3. CASE ~(c.stopped \/ ~c.client) /\ FailsOver(d)
  <2>1. d.edges = {}
    BY <1>3 DEF FailsOver
  <2>2. NextRelay(d.relay) \in 0..(Relays - 1)
    BY <1>1, Assumption DEF NextRelay, Sound
  <2> HIDE DEF d
  <2>3. Sound(e) /\ Awake(e)
    BY <1>1, <2>1, <2>2 DEF Sound, GivenUp, All, Truthful, IsRegistered, Quiet, Owning, Backed, Watched, Unheard, Awake, OpenOrNew
  <2>4. Recycled(c) = Connected(e)
    BY <1>3 DEF Recycled, d
  <2> HIDE DEF e
  <2> QED
    BY <1>1, <2>1, <2>3, <2>4, ConnectedLemma
<1>4. CASE ~(c.stopped \/ ~c.client) /\ ~FailsOver(d) /\ c.modern
  <2>1. Recycled(c) = f
    BY <1>4 DEF Recycled
  <2> HIDE DEF d
  <2>2. Sound(probing) /\ (Awake(d) => Awake(probing)) /\ Same(d, probing)
    BY <1>1, EnsureProbeLemma
  <2>3. probing \in Adapter /\ ~probing.signalingConnected
    BY <1>1, <2>2 DEF EnsureProbe, Sound
  <2> HIDE DEF probing
  <2>4. f \in Adapter /\ Same(probing, f) /\ Truthful(f)
    BY <2>3 DEF Same, Truthful
  <2> HIDE DEF f
  <2> QED
    BY <1>1, <2>1, <2>2, <2>4, SameSound DEF Same
<1>5. CASE ~(c.stopped \/ ~c.client) /\ ~FailsOver(d) /\ ~c.modern /\ d.edges # {}
  <2>1. Recycled(c) = RequestBootstrap(d)
    BY <1>5 DEF Recycled
  <2> HIDE DEF d
  <2> QED
    BY <1>1, <2>1, RequestBootstrapLemma DEF Same
<1>6. CASE ~(c.stopped \/ ~c.client) /\ ~FailsOver(d) /\ ~c.modern /\ d.edges = {}
  <2>1. Recycled(c) = EnsureProbe(h)
    BY <1>6 DEF Recycled
  <2> HIDE DEF d
  <2>2. Sound(h) /\ Awake(h) /\ h.relay = c.relay
    BY <1>1, <1>6 DEF Sound, All, Truthful, IsRegistered, Quiet, Owning, Backed, Watched, Unheard, Awake, OpenOrNew
  <2> HIDE DEF h
  <2> QED
    BY <2>1, <2>2, EnsureProbeLemma DEF Same
<1> QED
  BY <1>2, <1>3, <1>4, <1>5, <1>6

LEMMA ResumedLemma ==
  ASSUME NEW c, Sound(c)
  PROVE  Sound(Resumed(c)) /\ Awake(Resumed(c)) /\ Resumed(c).relay = c.relay
<1> DEFINE gone == Unusable(c)
           d == [c EXCEPT !.probe = "none", !.heard = FALSE, !.recovering = gone,
                     !.edges = @ \ gone,
                     !.rtc = [p \in Peers |-> IF p \in gone THEN None ELSE @[p]]]
           e == [d EXCEPT !.probe = "recycle"]
<1>1. gone \subseteq Peers
  BY DEF Unusable, Sound
<1>2. Sound(d) /\ Awake(d) /\ d.relay = c.relay
  BY <1>1 DEF Sound, Unusable, Truthful, IsRegistered, Quiet, Owning, Backed, Watched, Unheard, Awake, OpenOrNew
<1>3. CASE c.stopped
  BY <1>3 DEF Resumed, Sound, Quiet, Awake, OpenOrNew
<1>4. CASE ~c.stopped /\ ~IsRegistered(c)
  <2>1. Resumed(c) = ClientConnect(EnsureProbe(d))
    BY <1>4 DEF Resumed
  <2> HIDE DEF d
  <2> QED
    BY <1>2, <2>1, EnsureProbeLemma, ClientConnectLemma DEF Same
<1>5. CASE ~c.stopped /\ IsRegistered(c)
  <2>1. Resumed(c) = RequestBootstrap(e)
    BY <1>5 DEF Resumed
  <2> HIDE DEF d
  <2>2. e \in Adapter /\ Same(d, e) /\ Truthful(e)
    BY <1>2 DEF Sound, Same, Truthful, IsRegistered
  <2> HIDE DEF e
  <2>3. Sound(e) /\ Awake(e) /\ e.relay = c.relay
    BY <1>2, <2>2, SameSound DEF Same
  <2> QED
    BY <2>1, <2>3, RequestBootstrapLemma DEF Same
<1> QED
  BY <1>3, <1>4, <1>5

LEMMA OwnedLemma ==
  ASSUME NEW c, Sound(c), NEW p \in Peers
  PROVE  /\ Sound(Owned(c, p))
         /\ Awake(c) => Awake(Owned(c, p))
         /\ Owned(c, p).relay = c.relay
BY DEF Owned, Sound, Truthful, IsRegistered, Quiet, Owning, Backed, Watched, Unheard, Awake, OpenOrNew

(* A new transport, that of the peer's own making or of an offer.            *)
LEMMA NewTransportLemma ==
  ASSUME NEW c, Sound(c), IsRegistered(c), NEW p \in Peers,
         NEW t \in Transport, t.conn = "connecting", ~t.observed
  PROVE  /\ Sound(Owned([c EXCEPT !.rtc[p] = t], p))
         /\ Awake(c) => Awake(Owned([c EXCEPT !.rtc[p] = t], p))
         /\ Owned([c EXCEPT !.rtc[p] = t], p).relay = c.relay
<1>1. t # None
  BY NoneAssumption
<1> QED
  BY <1>1 DEF Owned, Sound, Truthful, IsRegistered, Quiet, Owning, Backed, Watched, Unheard, Awake,
              OpenOrNew, Transport

(* An old client's calls fall on deaf ears.                                  *)
LEMMA OldCallsLemma ==
  ASSUME NEW c
  PROVE  OnRegistered(c, "old") = c /\ OnBootstrap(c, "old") = c /\ OnClosed(c, "old") = c
BY DEF OnRegistered, OnBootstrap, OnClosed, IsCurrent

LEMMA OnRegisteredLemma ==
  ASSUME NEW c, Sound(c), IsRegistered(c)
  PROVE  /\ Sound(OnRegistered(c, "current"))
         /\ Awake(c) => Awake(OnRegistered(c, "current"))
         /\ OnRegistered(c, "current").relay = c.relay
<1> DEFINE d == EmitConnected(c)
           e == [d EXCEPT !.probe = "nudge"]
<1>1. CASE ~IsCurrent(c, "current")
  BY <1>1 DEF OnRegistered
<1>2. CASE IsCurrent(c, "current")
  <2>1. OnRegistered(c, "current") = RequestBootstrap(e)
    BY <1>2 DEF OnRegistered
  <2>2. Sound(d) /\ (Awake(c) => Awake(d)) /\ Same(c, d)
    BY EmitConnectedLemma
  <2> HIDE DEF d
  <2>3. e \in Adapter /\ Same(d, e) /\ Truthful(e)
    BY <2>2 DEF Sound, Same, Truthful, IsRegistered
  <2> HIDE DEF e
  <2>4. Sound(e) /\ (Awake(d) => Awake(e)) /\ e.relay = c.relay
    BY <2>2, <2>3, SameSound DEF Same
  <2> QED
    BY <2>1, <2>2, <2>4, RequestBootstrapLemma DEF Same
<1> QED
  BY <1>1, <1>2

LEMMA OnBootstrapLemma ==
  ASSUME NEW c, Sound(c)
  PROVE  /\ Sound(OnBootstrap(c, "current"))
         /\ Awake(c) => Awake(OnBootstrap(c, "current"))
         /\ Same(c, OnBootstrap(c, "current"))
<1> DEFINE d == OnBootstrap(c, "current")
<1>1. d \in Adapter /\ Same(c, d) /\ Truthful(d)
  BY DEF OnBootstrap, Sound, Same, Truthful, IsRegistered
<1> QED
  BY <1>1, SameSound

LEMMA CheckedLemma ==
  ASSUME NEW c, Sound(c), NEW quiet \in BOOLEAN
  PROVE  /\ Sound(Checked(c, quiet))
         /\ Awake(c) => Awake(Checked(c, quiet))
         /\ Checked(c, quiet).relay = c.relay
<1> DEFINE d == [c EXCEPT !.probe = "recycle"]
<1>1. CASE ~IsRegistered(c)
  <2>1. Checked(c, quiet) = ClientConnect(EnsureProbe(c))
    BY <1>1 DEF Checked
  <2> QED
    BY <2>1, EnsureProbeLemma, ClientConnectLemma DEF Same
<1>2. CASE IsRegistered(c) /\ quiet
  BY <1>2 DEF Checked
<1>3. CASE IsRegistered(c) /\ ~quiet
  <2>1. Checked(c, quiet) = RequestBootstrap(d)
    BY <1>3 DEF Checked
  <2>2. d \in Adapter /\ Same(c, d) /\ Truthful(d)
    BY DEF Sound, Same, Truthful, IsRegistered
  <2> HIDE DEF d
  <2>3. Sound(d) /\ (Awake(c) => Awake(d)) /\ Same(c, d)
    BY <2>2, SameSound
  <2> QED
    BY <2>1, <2>3, RequestBootstrapLemma DEF Same
<1> QED
  BY <1>1, <1>2, <1>3

-----------------------------------------------------------------------------
(* The inductive invariant                                                   *)

Inv ==
  /\ setup \in Setups
  /\ Sound(ad)
  /\ hidden \/ Awake(ad)

(* A handler leaves d, and no edge is there when it changes the relay.       *)
Keeps(d) ==
  /\ Sound(d)
  /\ Awake(ad) => Awake(d)
  /\ d.relay # ad.relay => ad.edges = {}

Step == Inv' /\ (ad'.relay # ad.relay => ad.edges = {})

LEMMA KeepsInv ==
  ASSUME Inv, Keeps(ad'), UNCHANGED <<hidden, setup>>
  PROVE  Step
BY DEF Inv, Keeps, Step

LEMMA SameKeeps ==
  ASSUME Inv, NEW d, d \in Adapter, Same(ad, d), Truthful(d)
  PROVE  Keeps(d)
BY SameSound DEF Inv, Keeps, Same

THEOREM InitInv == Init => Inv
<1> SUFFICES ASSUME Init PROVE Inv
  OBVIOUS
<1>1. ad \in Adapter
  BY Assumption DEF Init, All
<1> QED
  BY <1>1 DEF Init, Inv, All, Sound, Truthful, IsRegistered, Quiet, Owning, Backed, Watched, Unheard,
              Awake, OpenOrNew

LEMMA RegistrationStep ==
  ASSUME Inv, Connect \/ Disconnect \/ JoinSession \/ Registered
              \/ SocketCloses \/ ClientRetries \/ Lose
  PROVE  Step
<1> USE DEF Inv
<1>1. CASE Connect
  <2>1. Keeps(ad')
    BY <1>1, ConnectedLemma DEF Connect, Keeps
  <2> QED
    BY <1>1, <2>1, KeepsInv DEF Connect, discovery
<1>2. CASE Disconnect
  <2>1. Keeps(ad')
    BY <1>2 DEF Disconnect, GivenUp, All, Keeps, Sound, Truthful, IsRegistered, Quiet, Owning, Backed,
                Watched, Unheard, Awake, OpenOrNew
  <2> QED
    BY <1>2, <2>1, KeepsInv DEF Disconnect, discovery
<1>3. CASE JoinSession
  <2>1. Keeps(ad')
    BY <1>3, RequestBootstrapLemma DEF JoinSession, Keeps, Same
  <2> QED
    BY <1>3, <2>1, KeepsInv DEF JoinSession, discovery
<1>4. CASE Registered
  <2> DEFINE c == [ad EXCEPT !.link = "registered"]
  <2>1. Sound(c) /\ IsRegistered(c) /\ (Awake(ad) => Awake(c)) /\ c.relay = ad.relay
    BY <1>4 DEF Registered, Sound, Truthful, IsRegistered, Quiet, Owning, Backed, Watched, Unheard,
                Awake, OpenOrNew
  <2> HIDE DEF c
  <2>2. Keeps(OnRegistered(c, "current"))
    BY <2>1, OnRegisteredLemma DEF Keeps
  <2> QED
    BY <1>4, <2>2, KeepsInv DEF Registered, c, discovery
<1>5. CASE SocketCloses
  <2> DEFINE c == [ad EXCEPT !.link = "down", !.asked = FALSE]
  <2>1. CASE IsCurrent(c, "current")
    <3>1. ad' = [c EXCEPT !.signalingConnected = FALSE]
      BY <1>5, <2>1 DEF SocketCloses, OnClosed
    <3>2. ad' \in Adapter /\ Same(ad, ad') /\ Truthful(ad')
      BY <3>1 DEF Sound, Same, Truthful
    <3> QED
      BY <1>5, <3>2, SameKeeps, KeepsInv DEF SocketCloses, discovery
  <2>2. CASE ~IsCurrent(c, "current")
    BY <1>5, <2>2 DEF SocketCloses, IsCurrent, Sound, Quiet
  <2> QED
    BY <2>1, <2>2
<1>6. CASE ClientRetries
  <2>1. Keeps(ad')
    BY <1>6, ClientConnectLemma DEF ClientRetries, Keeps, Same
  <2> QED
    BY <1>6, <2>1, KeepsInv DEF ClientRetries, discovery
<1>7. CASE Lose
  <2>1. ad' \in Adapter /\ Same(ad, ad') /\ Truthful(ad')
    BY <1>7 DEF Lose, Sound, Same, Truthful, IsRegistered
  <2> QED
    BY <1>7, <2>1, SameKeeps, KeepsInv DEF Lose, discovery
<1> QED
  BY <1>1, <1>2, <1>3, <1>4, <1>5, <1>6, <1>7

LEMMA RelayStep ==
  ASSUME Inv, \/ \E answer \in Answers : Answered(answer)
              \/ \E cb \in Callback : LateCall(cb)
              \/ \E r \in 0..(Relays - 1) : RelayFails(r) \/ RelayReturns(r)
  PROVE  Step
<1> USE DEF Inv
<1>1. CASE \E answer \in Answers : Answered(answer)
  <2> DEFINE c == [ad EXCEPT !.asked = FALSE]
  <2>1. c \in Adapter /\ Same(ad, c) /\ Truthful(c)
    BY DEF Sound, Same, Truthful, IsRegistered
  <2>2. ad' = OnBootstrap(c, "current") /\ UNCHANGED <<hidden, setup>>
    BY <1>1 DEF Answered
  <2> HIDE DEF c
  <2>3. Sound(c) /\ (Awake(ad) => Awake(c)) /\ c.relay = ad.relay
    BY <2>1, SameSound DEF Same
  <2>4. Keeps(ad')
    BY <2>2, <2>3, OnBootstrapLemma DEF Keeps, Same
  <2> QED
    BY <2>2, <2>4, KeepsInv
<1>2. CASE \E cb \in Callback : LateCall(cb)
  <2> PICK cb \in Callback : LateCall(cb)
    BY <1>2
  <2> DEFINE c == [ad EXCEPT !.late = @ \ {cb}]
  <2>1. c \in Adapter /\ Same(ad, c) /\ Truthful(c)
    BY DEF Sound, Same, Truthful, IsRegistered
  <2>2. ad' = c /\ UNCHANGED <<hidden, setup>>
    BY OldCallsLemma DEF LateCall, Callback, discovery
  <2> QED
    BY <2>1, <2>2, SameKeeps, KeepsInv
<1>3. CASE \E r \in 0..(Relays - 1) : RelayFails(r) \/ RelayReturns(r)
  <2>1. ad' \in Adapter /\ Same(ad, ad') /\ Truthful(ad') /\ UNCHANGED <<hidden, setup>>
    BY <1>3 DEF RelayFails, RelayReturns, Sound, Same, Truthful, IsRegistered, discovery
  <2> QED
    BY <2>1, SameKeeps, KeepsInv
<1> QED
  BY <1>1, <1>2, <1>3

LEMMA TimerStep ==
  ASSUME Inv, ProbeExpires \/ ReconnectThrows \/ HealthCheck \/ InitialCheck \/ Interval
  PROVE  Step
<1> USE DEF Inv
<1>1. CASE ProbeExpires
  <2> DEFINE c == [ad EXCEPT !.probe = "none"]
  <2>1. c \in Adapter /\ Same(ad, c) /\ Truthful(c)
    BY DEF Sound, Same, Truthful, IsRegistered
  <2>2. ad' \in {c, Recycled(c), RequestBootstrap(c)} /\ UNCHANGED <<hidden, setup>>
    BY <1>1 DEF ProbeExpires, discovery
  <2> HIDE DEF c
  <2>3. Sound(c) /\ (Awake(ad) => Awake(c)) /\ c.relay = ad.relay /\ c.edges = ad.edges
    BY <2>1, SameSound DEF Same
  <2>4. Keeps(c) /\ Keeps(Recycled(c)) /\ Keeps(RequestBootstrap(c))
    BY <2>3, RecycledLemma, RequestBootstrapLemma DEF Keeps, Same
  <2> QED
    BY <2>2, <2>4, KeepsInv
<1>2. CASE ReconnectThrows
  <2>1. Keeps(ad')
    BY <1>2 DEF ReconnectThrows, Keeps, Sound, Truthful, IsRegistered, Quiet, Owning, Backed,
                Watched, Unheard, Awake, OpenOrNew
  <2> QED
    BY <1>2, <2>1, KeepsInv DEF ReconnectThrows, discovery
<1>3. CASE HealthCheck
  <2>1. ad.heard \in BOOLEAN
    BY DEF Sound
  <2>2. Keeps(ad')
    BY <1>3, <2>1, CheckedLemma DEF HealthCheck, Keeps
  <2> QED
    BY <1>3, <2>2, KeepsInv DEF HealthCheck, discovery
<1>4. CASE InitialCheck
  <2> DEFINE c == [ad EXCEPT !.check = FALSE]
  <2>1. c \in Adapter /\ Same(ad, c) /\ Truthful(c)
    BY DEF Sound, Same, Truthful, IsRegistered
  <2>2. ad' \in {c, Checked(c, ad.edges # {})} /\ UNCHANGED <<hidden, setup>>
    BY <1>4 DEF InitialCheck, discovery
  <2> HIDE DEF c
  <2>3. Sound(c) /\ (Awake(ad) => Awake(c)) /\ c.relay = ad.relay
    BY <2>1, SameSound DEF Same
  <2>4. Keeps(c) /\ Keeps(Checked(c, ad.edges # {}))
    BY <2>3, CheckedLemma DEF Keeps
  <2> QED
    BY <2>2, <2>4, KeepsInv
<1>5. CASE Interval
  <2>1. ad' \in Adapter /\ Same(ad, ad') /\ Truthful(ad')
    BY <1>5 DEF Interval, Sound, Same, Truthful, IsRegistered
  <2> QED
    BY <1>5, <2>1, SameKeeps, KeepsInv DEF Interval, discovery
<1> QED
  BY <1>1, <1>2, <1>3, <1>4, <1>5

(* A page that is shown again has looked at all its edges.                   *)
LEMMA PageStep ==
  ASSUME Inv, Hide \/ Show \/ Recover
  PROVE  Step
BY ResumedLemma DEF Inv, Step, Hide, Show, Recover, discovery

(* d differs from c in the transport of p, which may have become an edge.    *)
Replaces(c, d, p, t) ==
  /\ d.stopped = c.stopped /\ d.client = c.client /\ d.link = c.link /\ d.relay = c.relay
  /\ d.signalingConnected = c.signalingConnected
  /\ d.recovering = c.recovering \ {p}
  /\ d.rtc = [c.rtc EXCEPT ![p] = t]
  /\ d.edges = c.edges \/ d.edges = c.edges \cup {p}

LEMMA TransportLemma ==
  ASSUME NEW c, Sound(c), ~c.stopped, NEW p \in Peers, NEW t \in Transport,
         NEW d, d \in Adapter, Replaces(c, d, p, t),
         t.conn = "connected" => /\ t.channel # "none"
                                 /\ p \in d.edges \/ (t.observed /\ t.channel # "open"),
         t.conn = "lost" => t.channel = "closed"
  PROVE  /\ Sound(d)
         /\ AwakeBut(c, p) /\ (p \in d.edges => ~Broken(t) \/ ~t.observed) => Awake(d)
         /\ d.relay = c.relay
<1>1. t # None
  BY NoneAssumption
<1>2. Truthful(d) /\ Quiet(d)
  BY DEF Replaces, Sound, Truthful, IsRegistered, Quiet
<1>3. ASSUME NEW q \in Peers
      PROVE  Owning(d, q) /\ Backed(d, q) /\ Watched(d, q) /\ Unheard(d, q)
  <2>1. CASE q = p
    BY <1>1, <2>1 DEF Replaces, Sound, Owning, Backed, Watched, Unheard
  <2>2. CASE q # p
    BY <2>2 DEF Replaces, Sound, Owning, Backed, Watched, Unheard
  <2> QED
    BY <2>1, <2>2
<1>4. ASSUME AwakeBut(c, p), p \in d.edges => ~Broken(t) \/ ~t.observed, NEW q \in Peers
      PROVE  OpenOrNew(d, q)
  <2>1. CASE q = p
    BY <1>4, <2>1 DEF Replaces, Sound, OpenOrNew
  <2>2. CASE q # p
    BY <1>4, <2>2 DEF Replaces, Sound, OpenOrNew, AwakeBut
  <2> QED
    BY <2>1, <2>2
<1> QED
  BY <1>2, <1>3, <1>4 DEF Replaces, Sound, Awake

LEMMA OpeningStep ==
  ASSUME Inv, NEW p \in Peers, Dial(p) \/ Accept(p) \/ TransportUp(p) \/ ChannelOpens(p)
  PROVE  Step
<1> USE DEF Inv
<1>1. CASE Dial(p)
  <2>1. Fresh \in Transport /\ Fresh.conn = "connecting" /\ ~Fresh.observed
    BY DEF Fresh, Transport
  <2>2. Keeps(ad')
    BY <1>1, <2>1, NewTransportLemma DEF Dial, Keeps
  <2> QED
    BY <1>1, <2>2, KeepsInv DEF Dial, discovery
<1>2. CASE Accept(p)
  <2> DEFINE t == [Fresh EXCEPT !.channel = "none"]
  <2>1. t \in Transport /\ t.conn = "connecting" /\ ~t.observed
    BY DEF Fresh, Transport
  <2>2. ad' = Owned([ad EXCEPT !.rtc[p] = t], p) /\ IsRegistered(ad)
    BY <1>2 DEF Accept
  <2> HIDE DEF t
  <2>3. Keeps(ad')
    BY <2>1, <2>2, NewTransportLemma DEF Keeps
  <2> QED
    BY <1>2, <2>3, KeepsInv DEF Accept, discovery
<1>3. CASE TransportUp(p)
  <2> DEFINE t == [ad.rtc[p] EXCEPT !.conn = "connected",
                                    !.channel = IF @ = "none" THEN "connecting" ELSE @]
             c == [ad EXCEPT !.rtc[p] = t]
             d == Owned(c, p)
             e == [d EXCEPT !.rtc[p].observed = TRUE]
             u == [t EXCEPT !.observed = TRUE]
  <2>1. ad.rtc[p] \in Transport /\ ad.rtc[p].conn = "connecting" /\ ~ad.stopped
    BY <1>3 DEF TransportUp, Sound, Quiet
  <2>2. /\ t \in Transport /\ t.conn = "connected" /\ t.channel # "none" /\ t # None
        /\ t.observed = ad.rtc[p].observed
        /\ t.channel = "open" <=> ad.rtc[p].channel = "open"
    BY <2>1, NoneAssumption DEF Transport
  <2>3. ad' = Awaited(d, p) /\ UNCHANGED <<hidden, setup>>
    BY <1>3 DEF TransportUp
  <2>4. /\ u \in Transport /\ u.conn = "connected" /\ u.channel # "none" /\ u # None /\ u.observed
    BY <2>2, NoneAssumption DEF Transport
  <2>5. Awake(ad) => AwakeBut(ad, p)
    BY DEF Awake, AwakeBut
  <2> HIDE DEF t
  <2>6. CASE p \in ad.edges
    <3>1. ad' = [ad EXCEPT !.recovering = @ \ {p}, !.rtc[p] = t]
      BY <2>3, <2>6 DEF Awaited, Owned, Sound
    <3>4. ad' \in Adapter /\ Replaces(ad, ad', p, t) /\ p \in ad'.edges
      BY <2>2, <2>6, <3>1 DEF Replaces, Sound
    <3>2. Awake(ad) => ~Broken(t) \/ ~t.observed
      BY <2>1, <2>2, <2>6, NoneAssumption DEF Awake, OpenOrNew, Broken, Transport
    <3>3. Keeps(ad')
      BY <2>1, <2>2, <2>5, <3>2, <3>4, TransportLemma DEF Keeps
    <3> QED
      BY <2>3, <3>3, KeepsInv
  <2>7. CASE p \notin ad.edges
    <3>1. ad' = Activated(e, p)
      BY <2>2, <2>3, <2>7 DEF Awaited, Owned, Sound
    <3>2. e = [ad EXCEPT !.recovering = @ \ {p}, !.rtc[p] = u]
      BY DEF Owned, Sound
    <3> HIDE DEF u, e
    <3>3. ad' = IF u.channel = "open" THEN [e EXCEPT !.edges = @ \cup {p}] ELSE e
      BY <2>4, <3>1, <3>2 DEF Activated, Sound
    <3>4. e \in Adapter /\ Replaces(ad, e, p, u) /\ e.edges = ad.edges
      BY <2>4, <3>2 DEF Replaces, Sound
    <3>5. ad' \in Adapter /\ Replaces(ad, ad', p, u)
      BY <3>3, <3>4 DEF Replaces
    <3>6. p \in ad'.edges <=> u.channel = "open"
      BY <2>7, <3>3, <3>4
    <3>7. u.channel = "open" => ~Broken(u)
      BY <2>4 DEF Broken, Transport
    <3>8. Keeps(ad')
      BY <2>1, <2>4, <2>5, <3>5, <3>6, <3>7, TransportLemma DEF Keeps
    <3> QED
      BY <2>3, <3>8, KeepsInv
  <2> QED
    BY <2>6, <2>7
<1>4. CASE ChannelOpens(p)
  <2> DEFINE t == [ad.rtc[p] EXCEPT !.channel = "open"]
             c == [ad EXCEPT !.rtc[p] = t]
  <2>1. ad.rtc[p] \in Transport /\ ad.rtc[p].channel = "connecting" /\ ad.rtc[p] # None
    BY <1>4 DEF ChannelOpens, Sound
  <2>2. /\ t \in Transport /\ t.channel = "open" /\ t # None
        /\ t.conn = ad.rtc[p].conn /\ t.observed = ad.rtc[p].observed
    BY <2>1, NoneAssumption DEF Transport
  <2>3. ad' = Activated(c, p) /\ UNCHANGED <<hidden, setup>>
    BY <1>4 DEF ChannelOpens, discovery
  <2> HIDE DEF t
  <2>4. ad' = IF t.observed THEN [c EXCEPT !.edges = @ \cup {p}] ELSE c
    BY <2>2, <2>3 DEF Activated, Sound
  <2>5. Keeps(ad')
    BY <2>1, <2>2, <2>4
       DEF Keeps, Sound, Truthful, IsRegistered, Quiet, Owning, Backed,
           Watched, Unheard, Awake, OpenOrNew, Broken, Transport
  <2> QED
    BY <2>3, <2>5, KeepsInv
<1> QED
  BY <1>1, <1>2, <1>3, <1>4

(* d is c without the transport of p.                                        *)
LEMMA DroppedLemma ==
  ASSUME NEW c, Sound(c), NEW p \in Peers, NEW d, d \in Adapter,
         d.stopped = c.stopped, d.client = c.client, d.link = c.link, d.relay = c.relay,
         d.signalingConnected = c.signalingConnected,
         d.recovering \subseteq c.recovering \cup {p},
         d.rtc = [c.rtc EXCEPT ![p] = None],
         d.edges = c.edges \ {p}
  PROVE  Sound(d) /\ (Awake(c) => Awake(d))
<1>1. Truthful(d) /\ Quiet(d)
  BY DEF Sound, Truthful, IsRegistered, Quiet
<1>2. \A q \in Peers : Owning(d, q) /\ Backed(d, q) /\ Watched(d, q) /\ Unheard(d, q)
  BY DEF Sound, Owning, Backed, Watched, Unheard
<1>3. Awake(c) => Awake(d)
  BY DEF Sound, Awake, OpenOrNew
<1> QED
  BY <1>1, <1>2, <1>3 DEF Sound

LEMMA ClosingStep ==
  ASSUME Inv, NEW p \in Peers,
         \/ ChannelCloses(p) \/ \E reason \in BOOLEAN : TransportLost(p, reason)
         \/ LostUnheard(p) \/ NegotiationFails(p) \/ CloseConnection(p) \/ SendFails(p)
  PROVE  Step
<1> USE DEF Inv
<1>1. CASE ChannelCloses(p)
  <2> DEFINE t == [ad.rtc[p] EXCEPT !.channel = "closed"]
             c == [ad EXCEPT !.rtc[p] = t]
  <2>1. ad.rtc[p] \in Transport /\ ~ad.stopped
    BY <1>1 DEF ChannelCloses, Sound, Quiet
  <2>2. t \in Transport /\ t.channel = "closed" /\ t.conn = ad.rtc[p].conn
        /\ t.observed = ad.rtc[p].observed /\ t # None
    BY <2>1, NoneAssumption DEF Transport
  <2>3. ad' = (IF t.observed THEN Release(c, p, FALSE) ELSE c) /\ UNCHANGED <<hidden, setup>>
    BY <1>1, <2>2 DEF ChannelCloses, discovery
  <2> HIDE DEF t
  <2>4. c \in Adapter /\ c.rtc[p] = t /\ c.relay = ad.relay
    BY <2>2 DEF Sound
  <2>5. Sound(c)
    BY <1>1, <2>1, <2>2 DEF ChannelCloses, Sound, Truthful, IsRegistered, Quiet, Owning, Backed,
                            Watched, Unheard
  <2>6. Awake(ad) => AwakeBut(c, p) /\ (~t.observed => Awake(c))
    BY <2>2 DEF Sound, Awake, AwakeBut, OpenOrNew
  <2> HIDE DEF c
  <2>7. Keeps(ad')
    <3>1. FALSE \in BOOLEAN
      OBVIOUS
    <3>2. /\ Sound(Release(c, p, FALSE)) /\ Release(c, p, FALSE).relay = c.relay
          /\ AwakeBut(c, p) => Awake(Release(c, p, FALSE))
      BY <2>2, <2>4, <2>5, <3>1, ReleaseLemma
    <3>3. CASE t.observed
      BY <2>3, <2>4, <2>6, <3>2, <3>3 DEF Keeps
    <3>4. CASE ~t.observed
      BY <2>3, <2>4, <2>5, <2>6, <3>4 DEF Keeps
    <3> QED
      BY <3>3, <3>4
  <2> QED
    BY <2>3, <2>7, KeepsInv
<1>2. CASE \E reason \in BOOLEAN : TransportLost(p, reason)
  <2> PICK reason \in BOOLEAN : TransportLost(p, reason)
    BY <1>2
  <2> DEFINE c == [ad EXCEPT !.rtc[p].conn = "lost"]
             d == [c EXCEPT !.recovering = @ \cup {p}, !.rtc[p] = None, !.edges = @ \ {p}]
  <2>1. ad.rtc[p] # None /\ ad' = Release(c, p, reason) /\ UNCHANGED <<hidden, setup>>
    BY DEF TransportLost, discovery
  <2>2. ad.rtc[p] \in Transport /\ ~ad.stopped /\ p \notin ad.recovering
    BY <2>1 DEF Sound, Quiet, Owning
  <2>3. c.rtc[p] # None
    BY <2>2, NoneAssumption DEF Sound, Transport
  <2>4. ad' = RequestBootstrap(d)
    BY <2>1, <2>2, <2>3 DEF Release
  <2>5. d \in Adapter
    BY DEF Sound
  <2>6. Sound(d) /\ (Awake(ad) => Awake(d)) /\ d.relay = ad.relay
    <3>1. /\ d.stopped = ad.stopped /\ d.client = ad.client /\ d.link = ad.link
          /\ d.relay = ad.relay /\ d.signalingConnected = ad.signalingConnected
          /\ d.recovering = ad.recovering \cup {p}
          /\ d.rtc = [ad.rtc EXCEPT ![p] = None] /\ d.edges = ad.edges \ {p}
      BY DEF Sound
    <3> HIDE DEF d
    <3> QED
      BY <2>5, <3>1, DroppedLemma
  <2> HIDE DEF d
  <2>7. Keeps(ad')
    BY <2>4, <2>6, RequestBootstrapLemma DEF Keeps, Same
  <2> QED
    BY <2>1, <2>7, KeepsInv
<1>3. CASE LostUnheard(p)
  <2> DEFINE t == [ad.rtc[p] EXCEPT !.conn = "lost", !.channel = "closed"]
  <2>1. ad.rtc[p] \in Transport /\ ~ad.stopped
    BY <1>3 DEF LostUnheard, Sound, Quiet
  <2>2. t \in Transport /\ t.channel = "closed" /\ t.conn = "lost" /\ t # None
    BY <2>1, NoneAssumption DEF Transport
  <2>3. ad' = [ad EXCEPT !.rtc[p] = t] /\ hidden /\ UNCHANGED <<hidden, setup>>
    BY <1>3 DEF LostUnheard, discovery, Sound
  <2> HIDE DEF t
  <2>4. Sound(ad') /\ ad'.relay = ad.relay
    <3>1. ad' \in Adapter /\ Truthful(ad') /\ Quiet(ad') /\ ad'.relay = ad.relay
      BY <2>1, <2>2, <2>3 DEF Sound, Truthful, IsRegistered, Quiet
    <3>2. ad.rtc[p] # None
      BY <1>3 DEF LostUnheard
    <3>3. \A q \in Peers : Owning(ad', q) /\ Backed(ad', q) /\ Watched(ad', q) /\ Unheard(ad', q)
      BY <2>2, <2>3, <3>2 DEF Sound, Owning, Backed, Watched, Unheard
    <3> QED
      BY <3>1, <3>3 DEF Sound
  <2> QED
    BY <2>3, <2>4 DEF Step
<1>4. CASE NegotiationFails(p)
  <2>1. Keeps(ad')
    BY <1>4, ReleaseLemma DEF NegotiationFails, Keeps
  <2> QED
    BY <1>4, <2>1, KeepsInv DEF NegotiationFails
<1>5. CASE CloseConnection(p)
  <2>1. /\ ad' = [ad EXCEPT !.recovering = @ \ {p}, !.edges = @ \ {p}, !.rtc[p] = None]
        /\ UNCHANGED <<hidden, setup>>
    BY <1>5 DEF CloseConnection, discovery
  <2>2. /\ ad' \in Adapter
        /\ ad'.stopped = ad.stopped /\ ad'.client = ad.client /\ ad'.link = ad.link
        /\ ad'.relay = ad.relay /\ ad'.signalingConnected = ad.signalingConnected
        /\ ad'.recovering \subseteq ad.recovering \cup {p}
        /\ ad'.rtc = [ad.rtc EXCEPT ![p] = None] /\ ad'.edges = ad.edges \ {p}
    BY <2>1 DEF Sound
  <2>3. Keeps(ad')
    BY <2>2, DroppedLemma DEF Keeps
  <2> QED
    BY <2>1, <2>3, KeepsInv
<1>6. CASE SendFails(p)
  <2>1. Keeps(ad')
    BY <1>6, ReleaseLemma DEF SendFails, Keeps
  <2> QED
    BY <1>6, <2>1, KeepsInv DEF SendFails, discovery
<1> QED
  BY <1>1, <1>2, <1>3, <1>4, <1>5, <1>6

LEMMA AnnouncementStep ==
  ASSUME Inv, NEW p, Advertise(p) \/ Stops(p) \/ Ages(p) \/ Lapses(p)
  PROVE  Step
BY DEF Inv, Step, Advertise, Stops, Ages, Lapses

(* Every step keeps the invariant, and changes relays only without edges.    *)
THEOREM NextStep == Inv /\ [Next]_vars => Step
<1> SUFFICES ASSUME Inv, [Next]_vars PROVE Step
  OBVIOUS
<1>1. setup.peers \subseteq Peers
  BY Assumption DEF Inv, SetupOK
<1>2. CASE Signalling
  BY <1>2, RegistrationStep, RelayStep, TimerStep, PageStep DEF Signalling
<1>3. CASE Transports
  BY <1>1, <1>3, OpeningStep, ClosingStep DEF Transports
<1>4. CASE Announcements
  BY <1>4, AnnouncementStep DEF Announcements
<1>5. CASE UNCHANGED vars
  BY <1>5 DEF vars, discovery, Inv, Step
<1> QED
  BY <1>2, <1>3, <1>4, <1>5 DEF Next

THEOREM Invariance == Spec => []Inv
<1>1. Inv /\ [Next]_vars => Inv'
  BY NextStep DEF Step
<1> QED
  BY InitInv, <1>1, PTL DEF Spec

-----------------------------------------------------------------------------
(* The properties                                                            *)

(* No edge bears the mark of a loss that was reported before it opened.      *)
THEOREM EdgesAreUnmarked == Spec => []NoDeafEdge
<1>1. Inv => NoDeafEdge
  BY DEF Inv, Sound, Owning, Backed, NoDeafEdge
<1> QED
  BY Invariance, <1>1, PTL

(* Releasing a peer without a mark leaves no edge to it.                     *)
LEMMA ReleaseEnds ==
  ASSUME NEW c, c \in Adapter, NEW p \in Peers, NEW force \in BOOLEAN,
         ~c.stopped, p \notin c.recovering
  PROVE  p \notin Release(c, p, force).edges
BY DEF Release, RequestBootstrap

(* A loss that FreeRTC, an observed channel or a failed write reports ends   *)
(* the edge in the same step.                                                *)
THEOREM LossesEndEdges == Spec => LossEndsTheEdge
<1>1. Inv => [\A p \in Peers : Told(p) => p \notin ad'.edges]_vars
  <2> SUFFICES ASSUME Inv, NEW p \in Peers, Told(p) PROVE p \notin ad'.edges
    OBVIOUS
  <2> USE DEF Inv
  <2>1. CASE \E reason \in BOOLEAN : TransportLost(p, reason)
    <3>1. PICK reason \in BOOLEAN : TransportLost(p, reason)
      BY <2>1
    <3> DEFINE c == [ad EXCEPT !.rtc[p].conn = "lost"]
    <3>2. ad.rtc[p] # None /\ ad' = Release(c, p, reason)
      BY <3>1 DEF TransportLost
    <3>3. ad.rtc[p] \in Transport /\ ~ad.stopped /\ p \notin ad.recovering
      BY <3>2 DEF Sound, Quiet, Owning
    <3>4. c \in Adapter /\ ~c.stopped /\ p \notin c.recovering
      BY <3>3 DEF Sound, Transport
    <3> HIDE DEF c
    <3> QED
      BY <3>2, <3>4, ReleaseEnds
  <2>2. CASE ad.rtc[p] # None /\ ad.rtc[p].observed /\ ChannelCloses(p)
    <3> DEFINE c == [ad EXCEPT !.rtc[p].channel = "closed"]
    <3>1. ad' = Release(c, p, FALSE)
      BY <2>2 DEF ChannelCloses
    <3>2. ad.rtc[p] \in Transport /\ ~ad.stopped /\ p \notin ad.recovering
      BY <2>2 DEF Sound, Quiet, Owning
    <3>3. c \in Adapter /\ ~c.stopped /\ p \notin c.recovering
      BY <3>2 DEF Sound, Transport
    <3> HIDE DEF c
    <3> QED
      BY <3>1, <3>3, ReleaseEnds
  <2>3. CASE SendFails(p)
    <3>1. p \in ad.edges /\ ad' = Release(ad, p, FALSE)
      BY <2>3 DEF SendFails
    <3>2. ad \in Adapter /\ ~ad.stopped /\ p \notin ad.recovering
      BY <3>1 DEF Sound, Quiet, Owning, Backed
    <3> QED
      BY <3>1, <3>2, ReleaseEnds
  <2> QED
    BY <2>1, <2>2, <2>3 DEF Told
<1> QED
  BY Invariance, <1>1, PTL DEF LossEndsTheEdge

(* Whatever given-up clients call, "connected" means registered.             *)
THEOREM SpeaksTheTruth == Spec => []SignalingTruthful
<1>1. Inv => SignalingTruthful
  BY DEF Inv, Sound, Truthful, SignalingTruthful
<1> QED
  BY Invariance, <1>1, PTL

(* On a page that is shown, an edge has an open channel, unless the other    *)
(* side has begun a new transport in its place.                              *)
THEOREM EdgesStayOpen == Spec => []EdgesAreOpen
<1>1. Inv => EdgesAreOpen
  BY DEF Inv, Sound, Backed, Awake, OpenOrNew, EdgesAreOpen
<1> QED
  BY Invariance, <1>1, PTL

(* No transport that works is torn down for another relay.                   *)
THEOREM FailoverIsSafe == Spec => FailoverSparesEdges
<1>1. Inv /\ [Next]_vars =>
        [ad'.relay # ad.relay =>
           \A p \in Peers : Broken(ad.rtc[p]) \/ ad.rtc[p].conn = "connecting"]_vars
  <2> SUFFICES ASSUME Inv, [Next]_vars, ad'.relay # ad.relay, NEW p \in Peers,
                      ad.rtc[p] # None
               PROVE  Broken(ad.rtc[p]) \/ ad.rtc[p].conn = "connecting"
    BY DEF Broken
  <2>1. ad.edges = {}
    BY NextStep DEF Step
  <2>2. ad.rtc[p] \in Transport /\ Watched(ad, p) /\ Unheard(ad, p)
    BY DEF Inv, Sound
  <2> QED
    BY <2>1, <2>2 DEF Watched, Unheard, Broken, Transport
<1> QED
  BY Invariance, <1>1, PTL DEF Spec, FailoverSparesEdges

-----------------------------------------------------------------------------
(* The quarantine of peers that were dialled in vain                         *)

(* What holds of a peer p when d are the tables, b the stamp that the last   *)
(* failed negotiation with p left, and the advertisements up to stale are no *)
(* longer fresh.  A quarantine that is over ended with an advertisement      *)
(* since then, or left nothing behind that could still be fresh.             *)
Judged(d, b, stale, p) ==
  /\ p \in d.known <=> d.advertised[p] # None
  /\ p \in d.lapsed => /\ p \in d.known /\ d.advertised[p] <= stale
                       /\ d.failed[p] # None => d.failed[p] <= stale
  /\ b # None /\ d.failed[p] # None => d.failed[p] = b
  /\ b # None /\ d.failed[p] = None =>
       b <= stale \/ (d.advertised[p] # None /\ d.advertised[p] > b)
  /\ b # None /\ p \in d.active => d.advertised[p] # None /\ d.advertised[p] > b

Quarantine ==
  /\ setup \in Setups
  /\ disc \in Tables /\ adverts \in Adverts /\ burnt \in [Peers -> Stamp]
  /\ setup.stamped => \A p \in Peers : Judged(disc, burnt[p], adverts.stale[p], p)

(* An answer of a relay that stamps what it tells.                           *)
Stamped(answer, stale) ==
  /\ answer.present \subseteq Peers
  /\ \A p \in answer.present : answer.stamp[p] \in Nat
  /\ \A p \in answer.present \cap answer.fresh : answer.stamp[p] > stale[p]

LEMMA NoneIsNoStamp == None \notin Nat
BY NoneAssumption

(* The tables by what they hold, without the records.                        *)
LEMMA TablesFields ==
  ASSUME NEW d \in Tables
  PROVE  /\ d.known \subseteq Peers /\ d.lapsed \subseteq Peers /\ d.active \subseteq Peers
         /\ \A p \in Peers : d.advertised[p] \in Stamp /\ d.failed[p] \in Stamp
BY DEF Tables

LEMMA ReceivedTyped ==
  ASSUME NEW d \in Tables, NEW answer, answer.present \subseteq Peers,
         \A p \in answer.present : answer.stamp[p] \in Stamp
  PROVE  Received(d, answer) \in Tables
<1>1. Active(d, answer) \subseteq Peers
  BY DEF Active
<1>2. \A p \in answer.present : Latest(d.advertised[p], answer.stamp[p]) \in Stamp
  BY TablesFields DEF Latest
<1> QED
  BY <1>1, <1>2 DEF Received, Tables, Stamp

LEMMA ReceivedJudged ==
  ASSUME NEW d \in Tables, NEW answer, NEW stale \in [Peers -> Nat], Stamped(answer, stale),
         NEW p \in Peers, NEW b \in Stamp, Judged(d, b, stale[p], p)
  PROVE  Judged(Received(d, answer), b, stale[p], p)
<1> DEFINE e == Received(d, answer)
           gone == d.lapsed \ answer.present
           active == Active(d, answer)
<1>1. /\ e.known = (d.known \ gone) \cup answer.present /\ e.lapsed = {} /\ e.active = active
      /\ e.advertised[p] = (IF p \in gone THEN None
                            ELSE IF p \in answer.present
                                 THEN Latest(d.advertised[p], answer.stamp[p])
                                 ELSE d.advertised[p])
      /\ e.failed[p] = (IF p \in gone \cup active THEN None ELSE d.failed[p])
  BY DEF Received
<1>2. stale[p] \in Nat /\ d.advertised[p] \in Stamp /\ d.failed[p] \in Stamp
      /\ None \notin Nat
  BY TablesFields, NoneIsNoStamp
<1>3. p \in active => /\ p \in answer.present /\ p \in answer.fresh
                      /\ d.failed[p] # None => answer.stamp[p] > d.failed[p]
  BY DEF Active
<1>4. CASE p \in gone
  <2>1. p \notin active /\ p \in d.lapsed /\ p \notin answer.present
    BY <1>3, <1>4
  <2>2. b # None => b <= stale[p]
    BY <1>2, <2>1 DEF Judged, Stamp
  <2> QED
    BY <1>1, <1>4, <2>1, <2>2 DEF Judged
<1>5. CASE p \in answer.present
  <2>1. answer.stamp[p] \in Nat
    BY <1>5 DEF Stamped
  <2>2. /\ e.advertised[p] = Latest(d.advertised[p], answer.stamp[p])
        /\ e.advertised[p] \in Nat /\ e.advertised[p] >= answer.stamp[p]
        /\ d.advertised[p] # None => e.advertised[p] >= d.advertised[p]
    BY <1>1, <1>2, <1>5, <2>1 DEF Latest, Stamp
  <2>3. b # None /\ p \in active => e.advertised[p] > b
    <3> SUFFICES ASSUME b # None, p \in active PROVE e.advertised[p] > b
      OBVIOUS
    <3>1. answer.stamp[p] > stale[p]
      BY <1>3, <1>5 DEF Stamped
    <3>2. CASE d.failed[p] # None
      BY <1>2, <1>3, <2>1, <2>2, <3>2 DEF Judged, Stamp
    <3>3. CASE d.failed[p] = None
      BY <1>2, <2>1, <2>2, <3>1, <3>3 DEF Judged, Stamp
    <3> QED
      BY <3>2, <3>3
  <2>4. b # None /\ p \notin active /\ d.failed[p] = None =>
          b <= stale[p] \/ e.advertised[p] > b
    BY <1>2, <2>2 DEF Judged, Stamp
  <2>5. p \in e.known /\ e.advertised[p] # None
    BY <1>1, <1>2, <1>5, <2>2
  <2>6. e.failed[p] = IF p \in active THEN None ELSE d.failed[p]
    BY <1>1, <1>5
  <2> HIDE DEF active
  <2> QED
    BY <1>1, <2>3, <2>4, <2>5, <2>6 DEF Judged
<1>6. CASE p \notin gone /\ p \notin answer.present
  <2>1. p \notin active /\ p \notin e.active /\ (p \in e.known <=> p \in d.known)
        /\ e.advertised[p] = d.advertised[p] /\ e.failed[p] = d.failed[p]
    BY <1>1, <1>3, <1>6
  <2> QED
    BY <1>1, <2>1 DEF Judged
<1> QED
  BY <1>4, <1>5, <1>6

LEMMA AnswersLemma ==
  ASSUME Quarantine, NEW answer \in Answers
  PROVE  /\ answer.present \subseteq Peers
         /\ \A p \in answer.present : answer.stamp[p] \in Stamp
         /\ setup.stamped => Stamped(answer, adverts.stale)
<1>1. setup.peers \subseteq Peers /\ setup.beats \in Nat
  BY Assumption DEF Quarantine, SetupOK
<1> DEFINE Heard == {p \in setup.peers : adverts.newest[p] > 0}
<1>2. PICK S \in SUBSET Heard : \E row \in [S -> 1..setup.beats] :
        answer = [present |-> DOMAIN row,
                  stamp |-> [p \in Peers |-> IF setup.stamped /\ p \in DOMAIN row THEN row[p] ELSE None],
                  fresh |-> {p \in DOMAIN row : ~setup.stamped \/ row[p] > adverts.stale[p]}]
  BY DEF Answers
<1>3. PICK row \in [S -> 1..setup.beats] :
        answer = [present |-> DOMAIN row,
                  stamp |-> [p \in Peers |-> IF setup.stamped /\ p \in DOMAIN row THEN row[p] ELSE None],
                  fresh |-> {p \in DOMAIN row : ~setup.stamped \/ row[p] > adverts.stale[p]}]
  BY <1>2
<1>4. DOMAIN row = S /\ S \subseteq Peers /\ \A p \in S : row[p] \in Nat
  BY <1>1, <1>3
<1>5. answer.present = S /\ \A p \in S : /\ setup.stamped => answer.stamp[p] = row[p]
                                         /\ ~setup.stamped => answer.stamp[p] = None
  BY <1>3, <1>4
<1>6. setup.stamped => \A p \in answer.fresh : row[p] > adverts.stale[p]
  BY <1>3
<1> QED
  BY <1>4, <1>5, <1>6 DEF Stamped, Stamp

(* The stamps of a peer's advertisements only grow.                          *)
LEMMA JudgedLater ==
  ASSUME NEW d \in Tables, NEW p \in Peers, NEW b \in Stamp, NEW stale \in Nat,
         Judged(d, b, stale, p)
  PROVE  Judged(d, b, stale + 1, p)
<1>1. d.advertised[p] \in Stamp /\ d.failed[p] \in Stamp /\ None \notin Nat
  BY TablesFields, NoneIsNoStamp
<1> QED
  BY <1>1 DEF Judged, Stamp

LEMMA AnsweredQuarantine ==
  ASSUME Quarantine, NEW answer \in Answers, Answered(answer)
  PROVE  Quarantine'
<1>1. UNCHANGED <<setup, adverts, burnt>> /\ disc' = Received(disc, answer)
  BY DEF Answered
<1>2. disc' \in Tables
  BY <1>1, AnswersLemma, ReceivedTyped DEF Quarantine
<1>3. adverts.stale \in [Peers -> Nat]
  BY DEF Quarantine, Adverts
<1>4. ASSUME setup.stamped, NEW p \in Peers
      PROVE  Judged(disc', burnt[p], adverts.stale[p], p)
  BY <1>1, <1>3, <1>4, AnswersLemma, ReceivedJudged DEF Quarantine
<1> QED
  BY <1>1, <1>2, <1>4 DEF Quarantine

LEMMA FailureQuarantine ==
  ASSUME Quarantine, NEW p \in Peers, NegotiationFails(p)
  PROVE  Quarantine'
<1> DEFINE stamp == IF disc.advertised[p] = None THEN adverts.newest[p] ELSE disc.advertised[p]
<1>1. UNCHANGED <<setup, adverts>>
  BY DEF NegotiationFails
<1>2. CASE UNCHANGED <<disc, burnt>>
  BY <1>1, <1>2 DEF Quarantine
<1>3. CASE ~UNCHANGED <<disc, burnt>>
  <2>1. /\ disc' = [disc EXCEPT !.failed[p] = stamp, !.active = @ \ {p}]
        /\ burnt' = [burnt EXCEPT ![p] = disc'.failed[p]]
    BY <1>3 DEF NegotiationFails, Quarantined
  <2>2. stamp \in Nat /\ stamp # None /\ adverts.stale[p] \in Nat
    BY TablesFields, NoneIsNoStamp DEF Quarantine, Adverts, Stamp
  <2>3. disc' \in Tables /\ disc'.failed[p] = stamp
    BY <2>1, <2>2 DEF Quarantine, Tables, Stamp
  <2>4. burnt' \in [Peers -> Stamp] /\ burnt'[p] = stamp
        /\ \A q \in Peers \ {p} : burnt'[q] = burnt[q]
    BY <2>1, <2>2, <2>3 DEF Quarantine, Stamp
  <2>5. /\ disc'.known = disc.known /\ disc'.lapsed = disc.lapsed
        /\ disc'.advertised = disc.advertised /\ disc'.active = disc.active \ {p}
        /\ \A q \in Peers \ {p} : disc'.failed[q] = disc.failed[q]
    BY <2>1 DEF Quarantine, Tables
  <2>6. ASSUME setup.stamped, NEW q \in Peers
        PROVE  Judged(disc', burnt'[q], adverts.stale[q], q)
    <3>1. Judged(disc, burnt[q], adverts.stale[q], q)
      BY <2>6 DEF Quarantine
    <3>2. CASE q = p
      BY <2>2, <2>3, <2>4, <2>5, <3>1, <3>2 DEF Judged
    <3>3. CASE q # p
      BY <2>4, <2>5, <3>1, <3>3 DEF Judged
    <3> QED
      BY <3>2, <3>3
  <2> QED
    BY <1>1, <2>3, <2>4, <2>6 DEF Quarantine
<1> QED
  BY <1>2, <1>3

(* A transport that comes up lifts the quarantine; disconnect forgets all.   *)
LEMMA LiftedQuarantine ==
  ASSUME Quarantine, (\E p \in Peers : TransportUp(p)) \/ Disconnect
  PROVE  Quarantine'
<1>1. CASE Disconnect
  <2>1. UNCHANGED <<setup, adverts>> /\ disc' = Empty /\ burnt' = [q \in Peers |-> None]
    BY <1>1 DEF Disconnect, All
  <2>2. disc' \in Tables /\ burnt' \in [Peers -> Stamp]
    BY <2>1 DEF Empty, Tables, Stamp
  <2>3. \A q \in Peers : Judged(disc', burnt'[q], adverts.stale[q], q)
    BY <2>1 DEF Judged, Empty
  <2> QED
    BY <2>1, <2>2, <2>3 DEF Quarantine
<1>2. CASE \E p \in Peers : TransportUp(p)
  <2>1. PICK p \in Peers : TransportUp(p)
    BY <1>2
  <2>2. /\ UNCHANGED <<setup, adverts>> /\ disc' = [disc EXCEPT !.failed[p] = None]
        /\ burnt' = [burnt EXCEPT ![p] = None]
    BY <2>1 DEF TransportUp, Released
  <2>3. disc' \in Tables /\ burnt' \in [Peers -> Stamp]
    BY <2>2 DEF Quarantine, Tables, Stamp
  <2>4. /\ disc'.known = disc.known /\ disc'.lapsed = disc.lapsed
        /\ disc'.advertised = disc.advertised /\ disc'.active = disc.active
        /\ disc'.failed[p] = None /\ burnt'[p] = None
        /\ \A q \in Peers \ {p} : disc'.failed[q] = disc.failed[q] /\ burnt'[q] = burnt[q]
    BY <2>2 DEF Quarantine, Tables
  <2>5. ASSUME setup.stamped, NEW q \in Peers
        PROVE  Judged(disc', burnt'[q], adverts.stale[q], q)
    <3>1. Judged(disc, burnt[q], adverts.stale[q], q)
      BY <2>5 DEF Quarantine
    <3> QED
      BY <2>4, <3>1 DEF Judged
  <2> QED
    BY <2>2, <2>3, <2>5 DEF Quarantine
<1> QED
  BY <1>1, <1>2

LEMMA AnnouncementQuarantine ==
  ASSUME Quarantine, NEW p \in Peers, Advertise(p) \/ Stops(p) \/ Ages(p) \/ Lapses(p)
  PROVE  Quarantine'
<1>1. adverts.newest \in [Peers -> Nat] /\ adverts.stale \in [Peers -> Nat]
  BY DEF Quarantine, Adverts
<1>2. CASE Advertise(p) \/ Stops(p)
  <2>1. UNCHANGED <<setup, disc, burnt>> /\ adverts' \in Adverts /\ adverts'.stale = adverts.stale
    BY <1>1, <1>2 DEF Advertise, Stops, Quarantine, Adverts
  <2> QED
    BY <2>1 DEF Quarantine
<1>3. CASE Ages(p)
  <2>1. UNCHANGED <<setup, disc, burnt>> /\ adverts' \in Adverts
        /\ \A q \in Peers : adverts'.stale[q] = IF q = p THEN adverts.stale[q] + 1 ELSE adverts.stale[q]
    BY <1>1, <1>3 DEF Ages, Quarantine, Adverts
  <2>2. ASSUME setup.stamped, NEW q \in Peers
        PROVE  Judged(disc, burnt[q], adverts'.stale[q], q)
    <3>1. burnt[q] \in Stamp /\ adverts.stale[q] \in Nat /\ disc \in Tables
          /\ Judged(disc, burnt[q], adverts.stale[q], q)
      BY <1>1, <2>2 DEF Quarantine
    <3> QED
      BY <2>1, <3>1, JudgedLater
  <2> QED
    BY <2>1, <2>2 DEF Quarantine
<1>4. CASE Lapses(p)
  <2>1. /\ UNCHANGED <<setup, adverts, burnt>> /\ disc' = [disc EXCEPT !.lapsed = @ \cup {p}]
        /\ p \in disc.known
        /\ disc.advertised[p] # None =>
             /\ disc.advertised[p] <= adverts.stale[p]
             /\ disc.failed[p] # None => disc.failed[p] <= adverts.stale[p]
    BY <1>4 DEF Lapses
  <2>2. disc' \in Tables /\ disc'.known = disc.known /\ disc'.lapsed = disc.lapsed \cup {p}
        /\ disc'.advertised = disc.advertised /\ disc'.active = disc.active
        /\ disc'.failed = disc.failed
    BY <2>1 DEF Quarantine, Tables
  <2>3. ASSUME setup.stamped, NEW q \in Peers
        PROVE  Judged(disc', burnt[q], adverts.stale[q], q)
    <3>1. Judged(disc, burnt[q], adverts.stale[q], q)
      BY <2>3 DEF Quarantine
    <3> QED
      BY <2>1, <2>2, <3>1 DEF Judged
  <2> QED
    BY <2>1, <2>2, <2>3 DEF Quarantine
<1> QED
  BY <1>2, <1>3, <1>4

LEMMA NextQuarantine == Quarantine /\ [Next]_vars => Quarantine'
<1> SUFFICES ASSUME Quarantine, [Next]_vars PROVE Quarantine'
  OBVIOUS
<1>1. setup.peers \subseteq Peers
  BY Assumption DEF Quarantine, SetupOK
<1>2. ASSUME UNCHANGED discovery PROVE Quarantine'
  BY <1>2 DEF discovery, Quarantine
<1>3. CASE Signalling
  <2>1. Connect \/ JoinSession \/ Registered \/ Lose \/ SocketCloses \/ ClientRetries
        \/ ProbeExpires \/ ReconnectThrows \/ HealthCheck \/ InitialCheck \/ Interval
        \/ Hide \/ Show \/ Recover => UNCHANGED discovery
    BY DEF Connect, JoinSession, Registered, Lose, SocketCloses, ClientRetries, ProbeExpires,
           ReconnectThrows, HealthCheck, InitialCheck, Interval, Hide, Show, Recover
  <2>2. ASSUME NEW cb \in Callback, LateCall(cb) PROVE UNCHANGED discovery
    BY <2>2 DEF LateCall
  <2>3. ASSUME NEW r, RelayFails(r) \/ RelayReturns(r) PROVE UNCHANGED discovery
    BY <2>3 DEF RelayFails, RelayReturns
  <2> QED
    BY <1>2, <1>3, <2>1, <2>2, <2>3, AnsweredQuarantine, LiftedQuarantine DEF Signalling
<1>4. CASE Transports
  <2>1. PICK p \in setup.peers :
          \/ Dial(p) \/ Accept(p) \/ TransportUp(p) \/ ChannelOpens(p) \/ ChannelCloses(p)
          \/ \E reason \in BOOLEAN : TransportLost(p, reason)
          \/ LostUnheard(p) \/ NegotiationFails(p) \/ CloseConnection(p) \/ SendFails(p)
    BY <1>4 DEF Transports
  <2>2. Dial(p) \/ Accept(p) \/ ChannelOpens(p) \/ ChannelCloses(p)
        \/ (\E reason \in BOOLEAN : TransportLost(p, reason))
        \/ LostUnheard(p) \/ CloseConnection(p) \/ SendFails(p) => UNCHANGED discovery
    BY DEF Dial, Accept, ChannelOpens, ChannelCloses, TransportLost, LostUnheard,
           CloseConnection, SendFails
  <2> QED
    BY <1>1, <1>2, <2>1, <2>2, FailureQuarantine, LiftedQuarantine
<1>5. CASE Announcements
  BY <1>1, <1>5, AnnouncementQuarantine DEF Announcements
<1>6. CASE UNCHANGED vars
  BY <1>2, <1>6 DEF vars
<1> QED
  BY <1>3, <1>4, <1>5, <1>6 DEF Next

(* A peer whose negotiation failed is dialled again only on an advertisement *)
(* that is newer than all that was known of it then, whatever older ones its *)
(* relays repeat, hold back or leave out for so long that it is forgotten.   *)
THEOREM FailedStaysOut == Spec => []QuarantineHolds
<1>1. Init => Quarantine
  <2> SUFFICES ASSUME Init PROVE Quarantine
    OBVIOUS
  <2>1. disc \in Tables /\ adverts \in Adverts /\ burnt \in [Peers -> Stamp]
    BY DEF Init, Empty, All, Tables, Adverts, Stamp
  <2>2. \A p \in Peers : Judged(disc, burnt[p], adverts.stale[p], p)
    BY DEF Init, Empty, All, Judged
  <2> QED
    BY <2>1, <2>2 DEF Init, Quarantine
<1>2. Quarantine => QuarantineHolds
  <2> SUFFICES ASSUME Quarantine, NEW p \in disc.active, setup.stamped, burnt[p] # None
               PROVE  disc.advertised[p] # None /\ disc.advertised[p] > burnt[p]
    BY DEF QuarantineHolds
  <2>1. p \in Peers
    BY DEF Quarantine, Tables
  <2> QED
    BY <2>1 DEF Quarantine, Judged
<1> QED
  BY <1>1, <1>2, NextQuarantine, PTL DEF Spec

=============================================================================
