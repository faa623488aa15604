-------------------------- MODULE MCTenantControl --------------------------
(* TenantControl with two concurrent writers of one tenant's row.          *)
EXTENDS TenantControl
=============================================================================
