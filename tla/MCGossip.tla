------------------------------ MODULE MCGossip ------------------------------
(* Instances of Gossip for TLC. *)
EXTENDS Gossip

CONSTANTS m1, m2

SameClock == [p \in Peer |-> 0]
LastPeerAhead == [p \in Peer |-> IF \A q \in Peer : q <= p THEN 1 ELSE 0]

EveryoneLive == [p \in Peer |-> Peer]

\* A line 1 - 2 - ... - N.
Line == {{p, p + 1} : p \in {q \in Peer : q + 1 \in Peer}}
=============================================================================
