----------------------------- MODULE MCTenancy -----------------------------
(* A small instance of Tenancy for TLC. *)
EXTENDS Tenancy

MCLimits == {-1, 0, 2}

MCPlanDefaults ==
    [p \in TenantPlan |->
        CASE p = "free"       -> [calls |-> 1, tasks |-> 2]
          [] p = "pro"        -> [calls |-> 2, tasks |-> 20]
          [] p = "enterprise" -> [calls |-> -1, tasks |-> -1]]
=============================================================================
