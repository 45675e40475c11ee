-------------------------- MODULE MCSidecarManager --------------------------
(* SidecarManager with one inbound and one call at a time.                   *)
EXTENDS SidecarManager, TLC

CONSTANTS k1, v1, v2, a1
=============================================================================
