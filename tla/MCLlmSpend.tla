---------------------------- MODULE MCLlmSpend ----------------------------
(* LlmSpend on a small instance: two callers, of which one may act on a   *)
(* sum the other has made stale, and one midnight.                        *)
EXTENDS LlmSpend

MCBudgets == {NoBudget, 0, 1}
=============================================================================
