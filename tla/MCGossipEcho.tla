----------------------------- MODULE MCGossipEcho -----------------------------
(* Instances of GossipEcho for TLC. *)
EXTENDS GossipEcho

\* The least graph in which copies cross and a path has an inner peer.
Triangle == {{1, 2}, {2, 3}, {1, 3}}
=============================================================================
