-------------------------- MODULE MCAccessControl --------------------------
(* A small instance of AccessControl for TLC. *)
EXTENDS AccessControl

MCTokens == [user : Users, tenant : Tenants, role : {"tenant_admin", "employee_user"}]

Seeded(key, role) ==
    [k \in Keys |-> IF k = key THEN [role |-> role, by |-> Operator] ELSE NoRole]

MCSeedTables ==
    {[k \in Keys |-> NoRole], Seeded(<<"t", "u1">>, "platform_admin"),
     Seeded(<<"t", "u1">>, "tenant_admin"), Seeded(<<"t", "u1">>, "tenant_operator")}

MCCalls == [key : Keys, role : {"tenant_admin", "employee_user"}]

\* Bodies that compete for high-risk tasks with the built-in denial, of priority 80,
\* and one that catches everything last.
MCBodies ==
    {[conditions |-> {Is("risk_level", "high")}, actions |-> {"execute"},
      resources |-> {"task:*"}, effect |-> "allow", priority |-> p, enabled |-> TRUE]
        : p \in {60, 80, 90}}
    \cup {[conditions |-> {}, actions |-> {}, resources |-> {}, effect |-> "deny",
           priority |-> 0, enabled |-> TRUE]}

MCEndsWith == {<<"task.risk_level", "risk_level">>}

MCMatches ==
    {<<"task:1", "task:*">>, <<"tenant:1", "tenant:*">>,
     <<"task:1", "*">>, <<"tenant:1", "*">>}

Item(k, v) == [key |-> k, value |-> v]

MCChecks ==
    [user : Users, tenant : Tenants, action : {"execute", "write"},
     resource : {"task:1", "tenant:1"},
     attributes : {<<Item("risk_level", "low")>>, <<Item("task.risk_level", "high")>>,
                   <<Item("role", "tenant_admin")>>}]
=============================================================================
