--------------------------- MODULE RequestBudget ---------------------------
(* What the limiter promises to the procurement site, whichever worker asks and whatever
   answers the workers report: a request goes out against a full token of a bucket that
   refills one unit per tick, and never while the site is being left alone.

   Abstract specification; RateLimiter is shown to implement it. *)
EXTENDS Naturals

CONSTANTS Workers, Period, Burst

Full == Burst * Period   \* units: a token is worth Period of them

VARIABLES
  level,   \* units in the bucket
  rest,    \* ticks for which the site is to be left alone
  out      \* workers whose request is out

budgetVars == <<level, rest, out>>

Init == level = Full /\ rest = 0 /\ out = {}

Tick ==
  /\ level' = IF level < Full THEN level + 1 ELSE Full
  /\ rest' = IF rest > 0 THEN rest - 1 ELSE 0
  /\ UNCHANGED out

Grant(w) ==
  /\ rest = 0 /\ level >= Period
  /\ level' = level - Period
  /\ out' = out \cup {w}
  /\ UNCHANGED rest

\* The answer of a request may prolong the rest, and never shortens it.
Return(w) ==
  /\ out' = out \ {w}
  /\ rest' \in Nat /\ rest' >= rest
  /\ UNCHANGED level

\* The site need not be sent all it would bear.
Waste ==
  /\ level' \in 0..level
  /\ UNCHANGED <<rest, out>>

\* What was known is lost.
Forget ==
  /\ level' = Full /\ rest' = 0
  /\ \E w \in Workers : out' = out \ {w}

Next ==
  \/ Tick \/ Waste \/ Forget
  \/ \E w \in Workers : Grant(w) \/ Return(w)

Spec == Init /\ [][Next]_budgetVars
=============================================================================
