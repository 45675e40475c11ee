------------------------- MODULE MCNodeConfigSync -------------------------
(* NodeConfigSync for TLC: its instances are the configurations alone.       *)
EXTENDS NodeConfigSync
===========================================================================
