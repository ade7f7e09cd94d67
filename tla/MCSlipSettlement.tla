-------------------------- MODULE MCSlipSettlement --------------------------
(* The instances of SlipSettlement that TLC checks: one slip, one event of the
   provider and one transfer of the console, of which two have to come together
   or the event alone pays what is due. *)
EXTENDS SlipSettlement

CONSTANTS s1, e1, c1, c2
=============================================================================
