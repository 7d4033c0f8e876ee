------------------------------- MODULE FanOut -------------------------------
(***************************************************************************)
(* Neighbour selection of GossipProtocol (src/src/gossip.ts): how many     *)
(* connected peers one round contacts and which ones.  Peers are integers  *)
(* in the order in which the code sorts their identifiers.                 *)
(***************************************************************************)
EXTENDS Integers, FiniteSets

\* Math.ceil(Math.log2(n)) for n >= 1: the powers of two below n.
CeilLog2(n) == Cardinality({k \in 0..n : 2^k < n})

\* cecrFanout: min(connected degree, ceil(log2(live N))).
CecrFanout(degree, liveN) ==
    LET budget == CeilLog2(liveN) IN IF degree < budget THEN degree ELSE budget

\* Position of a peer among the eligible ones, counted from 0.
Position(p, eligible) == Cardinality({q \in eligible : q < p})

\* Faulty variant: the cursor never moves.
StuckWindow(connected, excluded, cursor, liveN) ==
    LET eligible == connected \ excluded
        n == Cardinality(eligible)
        count == CecrFanout(Cardinality(connected), liveN)
    IN  [peers |-> {p \in eligible : Position(p, eligible) < count},
         cursor |-> cursor]

\* selectFanoutPeers: a window of `count' consecutive eligible peers that
\* starts at the channel's cursor and wraps round; the cursor moves past it.
SelectFanoutPeers(connected, excluded, cursor, liveN) ==
    LET eligible == connected \ excluded
        n == Cardinality(eligible)
        budget == CecrFanout(Cardinality(connected), liveN)
        count == IF budget < n THEN budget ELSE n
        start == cursor % n
    IN  IF count = 0
        THEN [peers |-> {}, cursor |-> cursor]
        ELSE [peers |-> {p \in eligible :
                            (Position(p, eligible) + n - start) % n < count},
              cursor |-> (start + count) % n]
=============================================================================
