------------------------------ MODULE MCTenant ------------------------------
(***************************************************************************)
(* Tenant on two job values (the current one, and a finished one somebody  *)
(* still refers to), three timers (one armed, one that fired late, one in  *)
(* its pass) and a cap that a burst of uploads can reach.                  *)
(***************************************************************************)
EXTENDS Tenant, TLC

TenantSymmetry ==
    Permutations(Timers) \cup Permutations(Sessions) \cup Permutations(Jobs)
        \cup Permutations(Manual)
=============================================================================
