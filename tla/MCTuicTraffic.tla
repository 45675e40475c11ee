---------------------------- MODULE MCTuicTraffic ----------------------------
(* TuicTraffic with a client whose credentials change once.                  *)
EXTENDS TuicTraffic, TLC

CONSTANTS c1, u1, u2, b1, b2

Owners == [u \in {u1, u2} |-> c1]
=============================================================================
