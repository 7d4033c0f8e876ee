----------------------------- MODULE MCConsensus -----------------------------
EXTENDS Consensus

Line == {{0, 1}, {1, 2}, {2, 3}}
Clique == {{p, q} : p, q \in Peers} \ {{p} : p \in Peers}

Scenario(edges, links, members, views, ahead, changes, faults, opens, echoes) ==
  [edges |-> edges, links |-> links, members |-> members, views |-> views,
   ahead |-> ahead, changes |-> changes, faults |-> faults, opens |-> opens,
   echoes |-> echoes]

Even == [p \in Peers |-> 0]
Uneven == [p \in Peers |-> IF p = 1 THEN 3 ELSE 0]

Some ==
  {Scenario(Clique, {}, Peers, {Peers, {0, 1}}, Even, 1, 0, 0, 0),
   Scenario({{0, 1}}, {}, {0, 1}, {{0, 1}, {0, 1, 2}}, Even, 3, 0, 0, 0),
   Scenario(Line, {{0, 1}}, Peers, {Peers, {0, 1}}, Even, 1, 1, 1, 0),
   Scenario(Line, {}, {0, 1, 2}, {{0, 1, 2}}, Uneven, 0, 0, 0, 1)}
=============================================================================
