--------------------------- MODULE AccessControl ---------------------------
(***************************************************************************)
(* Roles, policies and permission checks of the governance service:        *)
(* apps/governance/rbac.py, abac.py, middleware.py, models.py and the      *)
(* handlers of main.py that use them.                                      *)
(*                                                                         *)
(* The handlers are coroutines without an await, but the dependencies that *)
(* guard them (require_admin ...) are plain functions, which FastAPI runs  *)
(* in a thread pool before the handler.  A role can therefore be revoked   *)
(* between the check of a call to /roles/assign and the call itself, and   *)
(* several checked calls can be waiting.  The other guarded handlers check *)
(* the token only, which does not change, so they are one step.            *)
(*                                                                         *)
(* All state is in memory.  The role table starts empty, or with roles     *)
(* that a start-up script assigns directly, as the end-to-end tests do:    *)
(* SeedTables.                                                             *)
(***************************************************************************)
EXTENDS Integers, Sequences, FiniteSets

CONSTANTS
    Users, Tenants,
    Tokens,       \* what the tokens that clients hold say
    Calls,        \* the role assignments that clients ask for
    SeedTables,   \* role tables the service may start with
    Operator,     \* the assigned_by of seeded roles
    NoRole, NoCall, NoValue,
    PolicyIds,    \* ids of the policies that clients create
    Bodies,       \* what clients post as a policy
    Matches,      \* <<resource, pattern>>: fnmatch
    EndsWith,     \* <<key, suffix>> of attribute names
    Checks        \* the permission checks that are asked

Role       == {"platform_admin", "tenant_admin", "tenant_operator", "employee_user"}
Permission == {"read", "write", "admin"}
ABACAction == {"create", "read", "update", "delete", "execute"}
Keys       == Tenants \X Users   \* the "<tenant>:<user>" keys of _user_roles

UserRole    == [role : Role, by : Users \cup {Operator}]
AuthContext == [user : Users, tenant : Tenants, role : Role]
AssignCall  == [key : Keys, role : Role]

ASSUME AccessAssumption ==
    /\ Tokens \subseteq AuthContext
    /\ Calls \subseteq AssignCall
    /\ SeedTables \subseteq [Keys -> UserRole \cup {NoRole}]
    /\ \A table \in SeedTables, key \in Keys :
           table[key] # NoRole => table[key].by = Operator
    /\ NoRole \notin UserRole
    /\ NoCall \notin AssignCall
    /\ Operator \notin Users
    /\ \A body \in Bodies : body.priority \in Int

VARIABLES
    roles,      \* _user_roles
    policies,   \* _policies, in the order they were inserted
    calls,      \* calls[u]: u's call to /roles/assign between its check and its handler
    seed,       \* history: the role table at the start
    admins      \* history: everyone who has had ADMIN in some tenant

vars == <<roles, policies, calls, seed, admins>>

-----------------------------------------------------------------------------
(* RBAC. *)

Grants == [r \in Role |->
    CASE r = "platform_admin"  -> {"read", "write", "admin"}
      [] r = "tenant_admin"    -> {"read", "write", "admin"}
      [] r = "tenant_operator" -> {"read", "write"}
      [] r = "employee_user"   -> {"read"}]

InheritsFrom == [r \in Role |->
    CASE r = "tenant_admin"    -> {"tenant_operator"}
      [] r = "tenant_operator" -> {"employee_user"}
      [] OTHER                 -> {}]

EffectivePermissions[r \in Role] ==
    Grants[r] \cup UNION {EffectivePermissions[q] : q \in InheritsFrom[r]}

\* has_permission, on what the table has for the key it looks up.
HasPermission(assignment, permission) ==
    /\ assignment # NoRole
    /\ \/ assignment.role = "platform_admin"
       \/ permission \in EffectivePermissions[assignment.role]

Level == [r \in Role |->
    CASE r = "platform_admin"  -> 4
      [] r = "tenant_admin"    -> 3
      [] r = "tenant_operator" -> 2
      [] r = "employee_user"   -> 1]

RequireTenantAdmin(ctx) == Level[ctx.role] >= 3

AdminsOf(table) == {u \in Users : \E t \in Tenants : HasPermission(table[<<t, u>>], "admin")}

-----------------------------------------------------------------------------
(* ABAC.  A condition holds the values that satisfy it: one, those of a    *)
(* list, or those a glob matches, NoValue among them when it matches       *)
(* str(None).                                                              *)

Policy(id, conditions, actions, resources, effect, priority, enabled) ==
    [id |-> id, conditions |-> conditions, actions |-> actions,
     resources |-> resources, effect |-> effect, priority |-> priority,
     enabled |-> enabled]

\* The policy that a client's request body makes.
Posted(id, body) ==
    Policy(id, body.conditions, body.actions, body.resources, body.effect,
           body.priority, body.enabled)

Is(key, value) == [key |-> key, values |-> {value}]

BuiltinPolicies ==
    << Policy("deny-all-platform-admin-write", {Is("role", "platform_admin")},
              {"read"}, {"*"}, "allow", 100, FALSE),
       Policy("allow-employee-low-risk-tasks", {Is("risk_level", "low")},
              {"execute"}, {"task:*"}, "allow", 50, TRUE),
       Policy("deny-employee-high-risk-tasks", {Is("risk_level", "high")},
              {"execute"}, {"task:*"}, "deny", 80, TRUE),
       Policy("allow-tenant-admin-all-tenant-resources", {Is("role", "tenant_admin")},
              ABACAction, {"tenant:*"}, "allow", 70, TRUE) >>

\* All that the policy table can hold.
PolicySet ==
    {BuiltinPolicies[i] : i \in 1..4}
        \cup {Posted(id, body) : id \in PolicyIds, body \in Bodies}

\* dict[key] = value on a context, the sequence of its items.
Put(ctx, key, value) ==
    LET item == [key |-> key, value |-> value]
    IN  IF \E i \in DOMAIN ctx : ctx[i].key = key
        THEN [i \in DOMAIN ctx |-> IF ctx[i].key = key THEN item ELSE ctx[i]]
        ELSE Append(ctx, item)

\* The attributes of a check under what the role assignment says.
Context(q) ==
    LET a == roles[<<q.tenant, q.user>>]
    IN  IF a = NoRole THEN q.attributes
        ELSE Put(Put(Put(q.attributes, "role", a.role), "tenant_id", q.tenant),
                 "user_id", q.user)

\* An attribute by its name, or else the first whose name ends with it.
Attribute(ctx, key) ==
    LET exact == {i \in DOMAIN ctx : ctx[i].key = key}
        alike == {i \in DOMAIN ctx : <<ctx[i].key, key>> \in EndsWith}
        First(S) == ctx[CHOOSE i \in S : \A k \in S : i <= k].value
    IN  IF exact # {} THEN First(exact)
        ELSE IF alike # {} THEN First(alike) ELSE NoValue

\* An action that the enumeration does not have counts as "read".
Coerce(action, enumeration) == IF action \in enumeration THEN action ELSE "read"

Applies(p, q) ==
    /\ p.enabled
    /\ p.actions = {} \/ Coerce(q.action, ABACAction) \in p.actions
    /\ p.resources = {} \/ \E r \in p.resources : <<q.resource, r>> \in Matches
    /\ \A c \in p.conditions : Attribute(Context(q), c.key) \in c.values

\* Mutant of Foremost: the sort puts the newest of equal priorities first.
ForemostNewest(pols, S) ==
    {i \in S : \A k \in S : \/ pols[i].priority > pols[k].priority
                            \/ pols[i].priority = pols[k].priority /\ i >= k}

\* Mutant of Foremost: the sort is ascending.
ForemostAscending(pols, S) ==
    {i \in S : \A k \in S : \/ pols[i].priority < pols[k].priority
                            \/ pols[i].priority = pols[k].priority /\ i <= k}

\* The index of S that list_policies, a stable sort, puts first.
Foremost(pols, S) ==
    {i \in S : \A k \in S : \/ pols[i].priority > pols[k].priority
                            \/ pols[i].priority = pols[k].priority /\ i <= k}

\* evaluate: the policy that decides a check, if there is one.
Decider(q) == Foremost(policies, {i \in DOMAIN policies : Applies(policies[i], q)})

Evaluate(q) == \E i \in Decider(q) : policies[i].effect = "allow"

\* check_permission.  Its read of the role and its two checks are one step.
CheckPermission(q) ==
    /\ HasPermission(roles[<<q.tenant, q.user>>], Coerce(q.action, Permission))
    /\ Evaluate(q)

-----------------------------------------------------------------------------
(* Handlers. *)

\* lifespan: the built-in policies; the role definitions never change.
Init ==
    /\ seed \in SeedTables
    /\ roles = seed
    /\ policies = BuiltinPolicies
    /\ calls = [u \in Users |-> NoCall]
    /\ admins = AdminsOf(seed)

\* Mutant of RequireAdmin: any role in the tenant of the token will do.
RequireSomeRole(ctx, call) ==
    /\ calls[ctx.user] = NoCall
    /\ roles[<<ctx.tenant, ctx.user>>] # NoRole
    /\ calls' = [calls EXCEPT ![ctx.user] = call]
    /\ UNCHANGED <<roles, policies, seed, admins>>

\* require_admin lets a call to /roles/assign through.  Bound: one call per user waits.
RequireAdmin(ctx, call) ==
    /\ calls[ctx.user] = NoCall
    /\ HasPermission(roles[<<ctx.tenant, ctx.user>>], "admin")
    /\ calls' = [calls EXCEPT ![ctx.user] = call]
    /\ UNCHANGED <<roles, policies, seed, admins>>

\* Mutant of AssignUserRole: the test for an existing assignment is missing.
AssignOverwrites(u) ==
    /\ calls[u] # NoCall
    /\ roles' = [roles EXCEPT ![calls[u].key] = [role |-> calls[u].role, by |-> u]]
    /\ calls' = [calls EXCEPT ![u] = NoCall]
    /\ admins' = admins \cup AdminsOf(roles')
    /\ UNCHANGED <<policies, seed>>

\* assign_user_role and assign_role: the second of two assignments fails.
AssignUserRole(u) ==
    /\ calls[u] # NoCall
    /\ roles' = IF roles[calls[u].key] = NoRole
                THEN [roles EXCEPT ![calls[u].key] = [role |-> calls[u].role, by |-> u]]
                ELSE roles
    /\ calls' = [calls EXCEPT ![u] = NoCall]
    /\ admins' = admins \cup AdminsOf(roles')
    /\ UNCHANGED <<policies, seed>>

\* revoke_user_role: any tenant administrator's token will do, for every tenant.
RevokeUserRole(key) ==
    /\ \E ctx \in Tokens : RequireTenantAdmin(ctx)
    /\ roles[key] # NoRole
    /\ roles' = [roles EXCEPT ![key] = NoRole]
    /\ UNCHANGED <<policies, calls, seed, admins>>

\* create_policy.  register_policy stores the policy and then fails in its log call
\* (effect is a plain string, which has no .value), so the client is told of an error.
CreatePolicy(id, body) ==
    /\ \E ctx \in Tokens : RequireTenantAdmin(ctx)
    /\ \A i \in DOMAIN policies : policies[i].id # id
    /\ policies' = Append(policies, Posted(id, body))
    /\ UNCHANGED <<roles, calls, seed, admins>>

Next ==
    \/ \E ctx \in Tokens, call \in Calls : RequireAdmin(ctx, call)
    \/ \E u \in Users : AssignUserRole(u)
    \/ \E key \in Keys : RevokeUserRole(key)
    \/ \E id \in PolicyIds, body \in Bodies : CreatePolicy(id, body)

Spec == Init /\ [][Next]_vars

-----------------------------------------------------------------------------
(* Properties. *)

\* The tables keep their types and a policy id is used once.
TypeOK ==
    /\ seed \in SeedTables
    /\ roles \in [Keys -> UserRole \cup {NoRole}]
    /\ calls \in [Users -> AssignCall \cup {NoCall}]
    /\ admins \subseteq Users
    /\ policies \in Seq(PolicySet)
    /\ \A i, k \in DOMAIN policies : policies[i].id = policies[k].id => i = k

\* Whoever assign_role names as the assigner of a role has been an administrator,
\* even when he lost that role while his call waited between check and handler.
GrantsTraceToAdmins ==
    \A key \in Keys : roles[key] # NoRole => roles[key].by \in admins \cup {Operator}

\* require_admin needs a live ADMIN assignment: a service that starts without one
\* never gets one, however its clients assign and revoke.
NoAdminFromNothing == AdminsOf(seed) = {} => AdminsOf(roles) = {}

\* A role that a user has in a tenant is replaced only after a revocation, also
\* when several checked calls for the same user are waiting.
RolesAreNotOverwritten ==
    [][\A key \in Keys : roles[key] # NoRole => roles'[key] \in {roles[key], NoRole}]_vars

\* No check passes the policies against a denial of higher priority that applies.
HigherDenialWins ==
    \A q \in Checks : CheckPermission(q) =>
        \E i \in DOMAIN policies :
            /\ Applies(policies[i], q) /\ policies[i].effect = "allow"
            /\ \A k \in DOMAIN policies :
                   Applies(policies[k], q) /\ policies[k].effect = "deny"
                       => policies[k].priority <= policies[i].priority

\* A new policy takes over a check only from policies of lower priority: among equals
\* the one that was there first goes on deciding.
NewPolicyYields ==
    [][policies' # policies =>
           \A q \in Checks :
               Decider(q) # {} =>
                   \/ Decider(q)' = Decider(q)
                   \/ \A i \in Decider(q), k \in Decider(q)' :
                          policies'[k].priority > policies[i].priority]_vars

-----------------------------------------------------------------------------
(* The inductive invariant. *)

\* The history has every administrator of the moment, and everyone whose call has
\* passed its check.
AdminsAreRemembered ==
    /\ AdminsOf(roles) \subseteq admins
    /\ \A u \in Users : calls[u] # NoCall => u \in admins

\* Without an administrator at the start there has never been one.
NeverAnAdmin == AdminsOf(seed) = {} => admins = {}

AccessInv == TypeOK /\ AdminsAreRemembered /\ NeverAnAdmin /\ GrantsTraceToAdmins
=============================================================================
