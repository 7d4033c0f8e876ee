--------------------------- MODULE MCPeerPigeonNode ---------------------------
EXTENDS PeerPigeonNode

CONSTANTS t1, t2

Scenario(crypto, storage, starts, destroys, failures, loads, waits) ==
  [crypto |-> crypto, storage |-> storage, starts |-> starts, destroys |-> destroys,
   failures |-> failures, loads |-> loads, waits |-> waits]

(* One node that is started and destroyed; nodes in tabs that are reloaded   *)
(* and duplicated.                                                           *)
Some ==
  {Scenario(c, s, 3, 2, 1, 0, 1) : c, s \in BOOLEAN}
  \cup {Scenario(FALSE, FALSE, 5, 1, 0, 3, 0)}
=============================================================================
