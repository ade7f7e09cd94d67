------------------------------ MODULE Sublists ------------------------------
(* What a query leaves of a list: SelectSeq, of the elements of a set, as a recursive
   function, whose definition a proof can expand. *)
EXTENDS Naturals, Sequences

Only(s, S) ==
  LET kept[n \in Nat] ==
        IF n = 0 THEN <<>>
        ELSE IF s[n] \in S THEN Append(kept[n - 1], s[n]) ELSE kept[n - 1]
  IN  kept[Len(s)]
=============================================================================
