---------------------------- MODULE MCNodeTraffic ----------------------------
(* NodeTraffic on one node, where two calls may reset at the same time. *)
EXTENDS NodeTraffic, TLC

CONSTANTS n1, c1, c2
=============================================================================
