------------------------- MODULE MCProjectRegistry -------------------------
(* The instance of ProjectRegistry that TLC checks. *)
EXTENDS ProjectRegistry, TLC

CONSTANTS n1, f1, f2, p1, p2, w1, w2

(* n1 is seen under two fingerprints: its date has been put off *)
MCPrintsOf == n1 :> {f1, f2}
=============================================================================
