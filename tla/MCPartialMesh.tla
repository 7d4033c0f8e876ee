--------------------------- MODULE MCPartialMesh ---------------------------
(* Three peers around one PartialMesh.                                       *)
EXTENDS PartialMesh

CONSTANTS a, b, c

Of(x, y, z) == [p \in Peers |-> IF p = a THEN x ELSE IF p = b THEN y ELSE z]

View(s, t) == [peers |-> s, active |-> t]

Setup(min, max, tolerant, limits, reachable, preferred, component, live, snapshots,
      capacity) ==
  [minPeers |-> min, maxPeers |-> max, tolerantPeers |-> tolerant, limits |-> limits,
   reachable |-> reachable, preferred |-> preferred, component |-> component,
   neighbours |-> {a}, live |-> live, order |-> Of(1, 2, 3), bucket |-> Of(1, 2, 2),
   distance |-> Of(1, 2, 4), snapshots |-> snapshots, capacity |-> capacity]

(* One slot, and c alone can be reached: the dials to a and b hang.  Two     *)
(* slots, everybody can be reached, in one component or two.  Capacity sets  *)
(* c behind, is that of all peers, or prefers c.                             *)
AllSetups ==
  {Setup(1, 1, 1, {}, {c}, {a, c}, Of(1, 1, 1), {a, b}, {View(Peers, Peers)},
         Of(0, 0, 1)),
   Setup(1, 2, 1, {1, 2}, Peers, {a, b}, Of(1, 1, 2), Peers, {View(Peers, Peers)}, Of(0, 0, 0)),
   Setup(2, 2, 0, {2}, {b, c}, {}, Of(1, 2, 2), Peers, {View(Peers, {a, b}), View({b, c}, {c})},
         Of(1, 1, 0))}

Durations == [grace |-> 1, stalled |-> 2, backoffCap |-> 2, shed |-> 1, trim |-> 1,
              rebalance |-> 1, attempt |-> 1, stable |-> 2]

Doubling == [n \in 1..MaxFailures |-> IF n = 1 THEN 1 ELSE 2]
=============================================================================
