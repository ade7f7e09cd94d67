---------------------------- MODULE MCAgentInbox ----------------------------
(* The instances of AgentInbox that TLC checks. *)
EXTENDS AgentInbox, TLC

CONSTANTS j1, j2, p1, p2

MCSymmetry == Permutations({p1, p2})
=============================================================================
