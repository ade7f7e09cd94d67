--------------------------- MODULE MCRateLimiter ---------------------------
(* The instance of RateLimiter that TLC checks. *)
EXTENDS RateLimiter

CONSTANTS w1, w2, w3
=============================================================================
