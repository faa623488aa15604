--------------------------- MODULE MCTenantScope ---------------------------
(* Any request or job beside a test of an agent, which like a job holds a  *)
(* connection while it waits for another, on a pool of two.                *)
EXTENDS TenantPrograms, TLC

CONSTANTS p, q

MCWork == DOMAIN Programs
MCMay == p :> MCWork @@ q :> {"test_agent"}
=============================================================================
