-------------------------- MODULE MCTrafficWriter --------------------------
(* Instances of TrafficWriter for TLC.                                      *)
EXTENDS TrafficWriter

\* The panel starts the writer before it serves or schedules anything
\* (web.go:586), so a running panel submits nothing earlier.
ServeAfterStart == started = 0 => \A w \in Writes : call[w] = call'[w]
PanelSpec == Init /\ [][Next /\ ServeAfterStart]_vars
=============================================================================
