------------------------- MODULE MCDeliveryReceipts -------------------------
EXTENDS DeliveryReceipts

(* A different order of the candidates for every target.                     *)
Order(t, c) == (c + t) % 3

Line == {{0, 1}, {1, 2}}
Fork == {{0, 1}, {0, 2}}

Scenario(members, edges, links, faults, changes, opens, deadline, forgets) ==
  [members |-> members, edges |-> edges, links |-> links, faults |-> faults,
   changes |-> changes, opens |-> opens, deadline |-> deadline, forgets |-> forgets]

(* A stranger whose view changes, and one that connects; a connection that   *)
(* breaks and comes back; late clocks and forgotten deliveries; a lost repair.*)
Some ==
  {Scenario({0, 1}, Fork, {}, 0, 1, 0, {}, {}),
   Scenario({0, 1}, {{0, 1}}, {{1, 2}}, 0, 0, 1, {0, 1}, {1}),
   Scenario({0, 1, 2}, Line, Line, 1, 0, 1, {}, {}),
   Scenario({0, 1, 2}, Line, {}, 0, 0, 0, {0}, {0}),
   Scenario({0, 1, 2}, Fork, {}, 1, 0, 0, {}, {})}

(* A stranger connects to the receiver.                                      *)
Joined == {Scenario({0, 1}, {{0, 1}}, {{1, 2}}, 0, 0, 1, {}, {})}
=============================================================================
