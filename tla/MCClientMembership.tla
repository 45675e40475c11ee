------------------------- MODULE MCClientMembership -------------------------
(* ClientMembership with two inbounds, of which one holds other clients too. *)
EXTENDS ClientMembership, TLC

CONSTANTS n1, n2

OneNode == 1 :> n1 @@ 2 :> n1
TwoNodes == 1 :> n1 @@ 2 :> n2
=============================================================================
