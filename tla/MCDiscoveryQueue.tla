-------------------------- MODULE MCDiscoveryQueue --------------------------
(* The instance of DiscoveryQueue that TLC checks. *)
EXTENDS DiscoveryQueue

CONSTANTS e1, e2, j1, j2
=============================================================================
