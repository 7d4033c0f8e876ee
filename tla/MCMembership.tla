---------------------------- MODULE MCMembership ----------------------------
(* Two peers around one subject.                                             *)
EXTENDS Membership

CONSTANTS a, b, s

Ahead(x, y, z) == [n \in {a, b, s} |-> IF n = a THEN x ELSE IF n = b THEN y ELSE z]

Setup(kind, links, ahead, delays, starts, renewals) ==
  [kind |-> kind, links |-> links, ahead |-> ahead, delays |-> delays,
   starts |-> starts, renewals |-> renewals]

Chain == {<<s, a>>, <<a, b>>}

Triangle == Chain \cup {<<s, b>>}

AllSetups ==
  {Setup("v1", Triangle, Ahead(0, 0, 0), TRUE, 1, 2),
   Setup("legacy", Triangle, Ahead(0, 0, 0), FALSE, 1, 1)} \cup
  {Setup("v1", Chain, Ahead(x, 0, 1 - x), FALSE, 2, 1) : x \in 0..1}

=============================================================================
