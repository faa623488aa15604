---------------------------- MODULE MCSafetyJob ----------------------------
(* Two tenants, so that one's failing checks could keep the run from the   *)
(* other's: t1 with a budget of one call, t2 with a budget of zero, whose  *)
(* budget check raises.                                                    *)
EXTENDS SafetyJob, TLC

CONSTANTS t1, t2

MCBudget == t1 :> 10 @@ t2 :> 0
=============================================================================
