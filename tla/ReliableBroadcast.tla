------------------------- MODULE ReliableBroadcast -------------------------
(***************************************************************************)
(* What GossipProtocol promises the application about a broadcast: a       *)
(* message is submitted once, and every peer raises it at most once, never *)
(* before it was submitted and never after the deadline fixed at           *)
(* submission has passed on the peer's own clock.                          *)
(***************************************************************************)
EXTENDS Integers

CONSTANTS Peer, Msg, Skew, SpreadTimeout, None

VARIABLES
    now,        \* real time
    deadline,   \* deadline[m], None before the submission of m
    delivered   \* delivered[p][m]: times p has raised m

vars == <<now, deadline, delivered>>

Init ==
    /\ now = 0
    /\ deadline = [m \in Msg |-> None]
    /\ delivered = [p \in Peer |-> [m \in Msg |-> 0]]

\* The application of p submits m, which p raises itself.
Submit(p, m) ==
    /\ deadline[m] = None
    /\ deadline' = [deadline EXCEPT ![m] = now + Skew[p] + SpreadTimeout]
    /\ delivered' = [delivered EXCEPT ![p][m] = 1]
    /\ UNCHANGED now

\* p raises m for its application.
Deliver(p, m) ==
    /\ deadline[m] # None
    /\ delivered[p][m] = 0
    /\ now + Skew[p] <= deadline[m]
    /\ delivered' = [delivered EXCEPT ![p][m] = 1]
    /\ UNCHANGED <<now, deadline>>

Tick == now' = now + 1 /\ UNCHANGED <<deadline, delivered>>

Next ==
    \/ Tick
    \/ \E p \in Peer, m \in Msg : Submit(p, m) \/ Deliver(p, m)

Spec == Init /\ [][Next]_vars
=============================================================================
