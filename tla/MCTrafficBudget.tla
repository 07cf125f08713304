-------------------------- MODULE MCTrafficBudget --------------------------
(* Small instances of TrafficBudget: 4-bit counters.                        *)
EXTENDS TrafficBudget
=============================================================================
