-------------------------- MODULE MCRecrawlRequest --------------------------
(* The instance of RecrawlRequest that TLC checks: k1 is crawled by the dispatcher,
   k2 by agents. *)
EXTENDS RecrawlRequest

CONSTANTS k1, k2, r1, r2
=============================================================================
