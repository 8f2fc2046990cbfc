-------------------------- MODULE MCAttachedProcess --------------------------
(***************************************************************************)
(* Instance of AttachedProcess for TLC: two callers, as when the user      *)
(* reconnects while an earlier disconnect is still waiting.                *)
(***************************************************************************)
EXTENDS AttachedProcess

CONSTANTS c1, c2

TwoCallers == {c1, c2}
AllFaults == FaultKinds
=============================================================================
