------------------------- MODULE MCCandidateLedger -------------------------
(* The result pages TLC walks.  Three rows on two pages: r1 and r2 are listed
   under different names on page 1 and turn out to be one project; r3 is on
   page 2. *)
EXTENDS CandidateLedger, TLC

CONSTANTS r1, r2, r3

MCPageOf    == (r1 :> 1) @@ (r2 :> 1) @@ (r3 :> 2)
MCKeyOf     == (r1 :> "k1") @@ (r2 :> "k2") @@ (r3 :> "k3")
MCRowKey    == (r1 :> "a") @@ (r2 :> "b") @@ (r3 :> "c")
MCProjectOf == (r1 :> "p") @@ (r2 :> "p") @@ (r3 :> "c")
=============================================================================
