------------------------ MODULE MCDocumentBackfill ------------------------
(* The instance of DocumentBackfill that TLC checks. *)
EXTENDS DocumentBackfill, TLC

CONSTANTS p1, p2
=============================================================================
