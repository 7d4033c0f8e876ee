------------------------- MODULE MCSignalingAdapter -------------------------
EXTENDS SignalingAdapter

CONSTANTS p1, p2

Setup(peers, failing, beats, stamped, races) ==
  [peers |-> peers, faults |-> failing, beats |-> beats, stamped |-> stamped, races |-> races]

(* More faults without discovery, fewer with it.                             *)
Some == {Setup({p1, p2}, 2, 0, TRUE, FALSE), Setup({p1}, 2, 0, TRUE, TRUE),
         Setup({p1}, 1, 2, TRUE, FALSE), Setup({p1}, 1, 1, FALSE, FALSE)}
=============================================================================
