------------------------ MODULE MCDocumentVersions ------------------------
(* The instance of DocumentVersions that TLC checks. *)
EXTENDS DocumentVersions, TLC

CONSTANTS f1, f2, f3, n1, n2, hearing, final, s1, s2

MCArtifacts == {
  [sha |-> f1, name |-> n1, class |-> hearing],
  [sha |-> f1, name |-> n2, class |-> hearing],    \* the same document under another name
  [sha |-> f2, name |-> n1, class |-> hearing],    \* changed versions
  [sha |-> f3, name |-> n1, class |-> hearing],
  [sha |-> f1, name |-> n2, class |-> final] }     \* the same bytes in the other phase

MCSibling == (hearing :> final) @@ (final :> hearing)
=============================================================================
