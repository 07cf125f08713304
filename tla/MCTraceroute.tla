---------------------------- MODULE MCTraceroute ----------------------------
(* Instances of Traceroute: two times to live (MaxTtl = 3) of two probes each. *)
EXTENDS Traceroute
=============================================================================
