--------------------------- MODULE MCXrayLifecycle ---------------------------
(* Instances of XrayLifecycle for TLC.                                      *)
EXTENDS XrayLifecycle
=============================================================================
