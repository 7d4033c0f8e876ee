-------------------------- MODULE MCDirectRouting --------------------------
(* Instances of DirectRouting for TLC. *)
EXTENDS DirectRouting

Bit(n, k) == (n \div 2^k) % 2
XorBit(a, b, k) == IF Bit(a, k) = Bit(b, k) THEN 0 ELSE 2^k

\* XOR of three-bit identifiers.
XorDistance ==
    [p \in Peer |-> [q \in Peer |->
        XorBit(p, q, 0) + XorBit(p, q, 1) + XorBit(p, q, 2)]]

\* The undirected graphs on the peers in which all cover their buckets, and
\* of these the ones that lose that with any edge and that join 0 and 4.
Pairs == {{p, q} : p, q \in Peer} \ {{p} : p \in Peer}
Graph(edges) == [p \in Peer |-> {q \in Peer : {p, q} \in edges}]
Covering ==
    {edges \in SUBSET Pairs :
        \A p \in Peer : XorBucketCoverage(p, Peer, Graph(edges)[p])}
SparseOverlays ==
    {Graph(edges) : edges \in {f \in Covering :
        {0, 4} \in f /\ \A e \in f : f \ {e} \notin Covering}}

\* A ring in the order of the identifiers.
Ring ==
    LET n == Cardinality(Peer)
        at(p) == Cardinality({q \in Peer : q < p})
    IN  [p \in Peer |-> {q \in Peer \ {p} : \/ (at(p) + 1) % n = at(q)
                                            \/ (at(q) + 1) % n = at(p)}]

SparseOrRing == SparseOverlays \cup {Ring}
=============================================================================
