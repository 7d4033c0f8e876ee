------------------------------ MODULE Discovery ------------------------------
(* The tables that the adapter keeps of the peers its relays announce        *)
(* (freertc-client-adapter.ts, handleBootstrapCandidates and the quarantine  *)
(* of a peer whose negotiation failed).  Relays are federated: an answer may *)
(* lack a peer, or bring an older advertisement than the answer before it.   *)
EXTENDS Naturals

CONSTANTS Peers, None

(* Stamps of advertisements; a relay may send none.                          *)
Stamp == Nat \cup {None}

(* lapsed: those of knownPeers that no answer of the last                    *)
(* DISCOVERY_ABSENCE_GRACE_MS had; advertised is knownPeerAdvertisedAtMs,    *)
(* failed failedPeerAdvertisementAtMs; active are the peers the mesh takes   *)
(* for active, by the last peers-updated and rtc:negotiation-failed.         *)
Tables == [known: SUBSET Peers, lapsed: SUBSET Peers, advertised: [Peers -> Stamp],
           failed: [Peers -> Stamp], active: SUBSET Peers]

Empty == [known |-> {}, lapsed |-> {}, advertised |-> [p \in Peers |-> None],
          failed |-> [p \in Peers |-> None], active |-> {}]

(* Faulty variant: the advertisement that came last, not the newest one.     *)
LatestFaulty(stamp, other) == IF other = None THEN stamp ELSE other

Latest(stamp, other) ==
  IF stamp = None \/ (other # None /\ other > stamp) THEN other ELSE stamp

(* An answer names the peers of present, with the stamps of their            *)
(* advertisements; fresh are those not older than                            *)
(* DISCOVERY_ACTIVE_MAX_AGE_MS, or without a stamp.                          *)
Active(d, answer) ==
  {p \in answer.present \cap answer.fresh :
     \/ d.failed[p] = None
     \/ answer.stamp[p] # None /\ answer.stamp[p] > d.failed[p]}

(* handleBootstrapCandidates                                                 *)
Received(d, answer) ==
  LET gone == d.lapsed \ answer.present IN
  [known |-> (d.known \ gone) \cup answer.present,
   lapsed |-> {},
   advertised |-> [p \in Peers |->
     IF p \in gone THEN None
     ELSE IF p \in answer.present THEN Latest(d.advertised[p], answer.stamp[p])
     ELSE d.advertised[p]],
   failed |-> [p \in Peers |-> IF p \in gone \cup Active(d, answer) THEN None ELSE d.failed[p]],
   active |-> Active(d, answer)]

(* handleNegotiationFailure; now is the stamp of an advertisement made now.  *)
Quarantined(d, p, now) ==
  [d EXCEPT !.failed[p] = IF d.advertised[p] = None THEN now ELSE d.advertised[p],
            !.active = @ \ {p}]

(* handleConnectionState, connected.                                         *)
Released(d, p) == [d EXCEPT !.failed[p] = None]
=============================================================================
