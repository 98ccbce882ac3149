-------------------------- MODULE GovernanceProofs --------------------------
(***************************************************************************)
(* Proofs about the governance service: roles and policies, for any users, *)
(* tenants, tokens, calls and policy bodies, and then tenants and quotas,  *)
(* for any tenants, plans and limits.  What a role grants stays opaque:    *)
(* nothing below expands EffectivePermissions.                             *)
(***************************************************************************)
EXTENDS AccessControl, Tenancy, TLAPS

\* A change that only revokes makes nobody an administrator.
LEMMA RevokingMakesNoAdmin ==
  ASSUME NEW table, NEW after,
         \A key \in Keys : after[key] \in {table[key], NoRole}
  PROVE  AdminsOf(after) \subseteq AdminsOf(table)
  BY DEF AdminsOf, HasPermission, Keys

\* The built-in policies are in the policy set, their ids differ and their
\* priorities are numbers.
LEMMA BuiltinsAreTyped ==
  /\ BuiltinPolicies \in Seq(PolicySet)
  /\ \A i, k \in DOMAIN BuiltinPolicies :
         BuiltinPolicies[i].id = BuiltinPolicies[k].id => i = k
  <1>1. Len(BuiltinPolicies) = 4 /\ DOMAIN BuiltinPolicies = 1..4
    BY DEF BuiltinPolicies
  <1>2. \A i \in 1..4 : BuiltinPolicies[i] \in PolicySet
    BY DEF PolicySet
  <1>3. BuiltinPolicies \in Seq(PolicySet)
    <2> DEFINE S == {BuiltinPolicies[i] : i \in 1..4}
    <2>1. BuiltinPolicies \in Seq(S)
      <3> SUFFICES <<BuiltinPolicies[1], BuiltinPolicies[2],
                     BuiltinPolicies[3], BuiltinPolicies[4]>> \in Seq(S)
        BY DEF BuiltinPolicies
      <3>1. \A i \in 1..4 : BuiltinPolicies[i] \in S
        OBVIOUS
      <3> HIDE DEF S
      <3> QED
        BY <3>1
    <2> QED
      BY <2>1 DEF PolicySet
  <1>4. /\ BuiltinPolicies[1].id = "deny-all-platform-admin-write"
        /\ BuiltinPolicies[2].id = "allow-employee-low-risk-tasks"
        /\ BuiltinPolicies[3].id = "deny-employee-high-risk-tasks"
        /\ BuiltinPolicies[4].id = "allow-tenant-admin-all-tenant-resources"
    BY DEF BuiltinPolicies, Policy
  <1>5. \A i, k \in 1..4 : BuiltinPolicies[i].id = BuiltinPolicies[k].id => i = k
    BY <1>4
  <1> QED
    BY <1>1, <1>3, <1>5

\* Every policy that the table can hold has a number as its priority.
LEMMA PrioritiesAreNumbers ==
  ASSUME NEW p \in PolicySet
  PROVE  p.priority \in Int
  <1>1. ASSUME NEW i \in 1..4, p = BuiltinPolicies[i]
        PROVE  p.priority \in Int
    BY <1>1 DEF BuiltinPolicies, Policy
  <1>2. ASSUME NEW id \in PolicyIds, NEW body \in Bodies, p = Posted(id, body)
        PROVE  p.priority \in Int
    BY <1>2, AccessAssumption DEF Posted, Policy
  <1> QED
    BY <1>1, <1>2 DEF PolicySet

-----------------------------------------------------------------------------
(* The inductive invariant. *)

\* The service starts with the seeded roles and nobody waiting.
LEMMA AccessInitInv == Init => AccessInv
  <1> SUFFICES ASSUME Init
               PROVE  AccessInv
    OBVIOUS
  <1>1. TypeOK
    BY BuiltinsAreTyped, AccessAssumption DEF Init, TypeOK, AdminsOf
  <1>2. AdminsAreRemembered /\ NeverAnAdmin
    BY DEF Init, AdminsAreRemembered, NeverAnAdmin
  <1>3. GrantsTraceToAdmins
    BY AccessAssumption DEF Init, GrantsTraceToAdmins
  <1> QED
    BY <1>1, <1>2, <1>3 DEF AccessInv

\* A call that passes its check is an administrator's.
LEMMA RequireAdminKeeps ==
  ASSUME AccessInv, NEW ctx \in Tokens, NEW call \in Calls, RequireAdmin(ctx, call)
  PROVE  AccessInv'
  <1>1. ctx.user \in Users /\ ctx.tenant \in Tenants /\ call \in AssignCall
    BY AccessAssumption DEF AuthContext
  <1>2. UNCHANGED <<roles, policies, seed, admins>>
    BY DEF RequireAdmin
  <1>3. calls \in [Users -> AssignCall \cup {NoCall}]
    BY DEF AccessInv, TypeOK
  <1>4. TypeOK'
    BY <1>1, <1>2, <1>3 DEF RequireAdmin, AccessInv, TypeOK
  <1>5. ctx.user \in admins
    BY <1>1 DEF RequireAdmin, AccessInv, AdminsAreRemembered, AdminsOf
  <1>6. AdminsAreRemembered'
    BY <1>2, <1>3, <1>5 DEF RequireAdmin, AccessInv, AdminsAreRemembered, AdminsOf
  <1>7. NeverAnAdmin' /\ GrantsTraceToAdmins'
    BY <1>2 DEF AccessInv, NeverAnAdmin, GrantsTraceToAdmins, AdminsOf
  <1> QED
    BY <1>4, <1>6, <1>7 DEF AccessInv

\* An assignment is its caller's, who has been an administrator: without one at
\* the start no call ever waits.
LEMMA AssignUserRoleKeeps ==
  ASSUME AccessInv, NEW u \in Users, AssignUserRole(u)
  PROVE  AccessInv'
  <1> DEFINE key == calls[u].key
             new == [role |-> calls[u].role, by |-> u]
  <1>1. /\ roles \in [Keys -> UserRole \cup {NoRole}]
        /\ calls \in [Users -> AssignCall \cup {NoCall}]
        /\ admins \subseteq Users
    BY DEF AccessInv, TypeOK
  <1>2. calls[u] \in AssignCall
    BY <1>1 DEF AssignUserRole
  <1>3. key \in Keys /\ new \in UserRole /\ new.by = u
    BY <1>2 DEF AssignCall, UserRole
  <1>4. u \in admins
    BY DEF AssignUserRole, AccessInv, AdminsAreRemembered
  <1>5. \/ roles' = [roles EXCEPT ![key] = new]
        \/ roles' = roles
    BY DEF AssignUserRole
  <1>6. /\ calls' = [calls EXCEPT ![u] = NoCall]
        /\ admins' = admins \cup AdminsOf(roles')
        /\ UNCHANGED <<policies, seed>>
    BY DEF AssignUserRole
  <1>7. AdminsOf(roles') \subseteq Users
    BY DEF AdminsOf
  <1> HIDE DEF key, new
  <1>8. TypeOK'
    <2>1. roles' \in [Keys -> UserRole \cup {NoRole}]
      BY <1>1, <1>3, <1>5
    <2> QED
      BY <2>1, <1>1, <1>6, <1>7 DEF AccessInv, TypeOK
  <1>9. AdminsAreRemembered'
    <2>1. AdminsOf(roles)' = AdminsOf(roles')
      BY DEF AdminsOf
    <2> QED
      BY <2>1, <1>1, <1>6 DEF AccessInv, AdminsAreRemembered
  <1>10. NeverAnAdmin'
    <2>1. AdminsOf(seed)' = AdminsOf(seed)
      BY <1>6 DEF AdminsOf
    <2>2. AdminsOf(seed) # {}
      BY <1>4 DEF AccessInv, NeverAnAdmin
    <2> QED
      BY <2>1, <2>2 DEF NeverAnAdmin
  <1>11. GrantsTraceToAdmins'
    BY <1>1, <1>3, <1>4, <1>5, <1>6 DEF AccessInv, GrantsTraceToAdmins
  <1> QED
    BY <1>8, <1>9, <1>10, <1>11 DEF AccessInv

\* A revocation only takes away.
LEMMA RevokeUserRoleKeeps ==
  ASSUME AccessInv, NEW key \in Keys, RevokeUserRole(key)
  PROVE  AccessInv'
  <1>1. roles \in [Keys -> UserRole \cup {NoRole}]
    BY DEF AccessInv, TypeOK
  <1>2. roles' = [roles EXCEPT ![key] = NoRole] /\ UNCHANGED <<policies, calls, seed, admins>>
    BY DEF RevokeUserRole
  <1>3. TypeOK'
    BY <1>1, <1>2 DEF AccessInv, TypeOK
  <1>4. AdminsOf(roles') \subseteq AdminsOf(roles)
    <2>1. \A k \in Keys : roles'[k] \in {roles[k], NoRole}
      BY <1>1, <1>2
    <2> QED
      BY <2>1, RevokingMakesNoAdmin
  <1>5. AdminsOf(roles)' = AdminsOf(roles') /\ AdminsOf(seed)' = AdminsOf(seed)
    BY <1>2 DEF AdminsOf
  <1>6. AdminsAreRemembered' /\ NeverAnAdmin'
    BY <1>2, <1>4, <1>5 DEF AccessInv, AdminsAreRemembered, NeverAnAdmin
  <1>7. GrantsTraceToAdmins'
    BY <1>1, <1>2 DEF AccessInv, GrantsTraceToAdmins
  <1> QED
    BY <1>3, <1>6, <1>7 DEF AccessInv

\* A policy with a new id joins the table at its end.
LEMMA CreatePolicyKeeps ==
  ASSUME AccessInv, NEW id \in PolicyIds, NEW body \in Bodies, CreatePolicy(id, body)
  PROVE  AccessInv'
  <1> DEFINE new == Posted(id, body)
  <1>1. policies \in Seq(PolicySet)
    BY DEF AccessInv, TypeOK
  <1>2. new \in PolicySet
    BY DEF PolicySet
  <1>3. new.id = id
    BY DEF Posted, Policy
  <1>4. policies' = Append(policies, new) /\ UNCHANGED <<roles, calls, seed, admins>>
    BY DEF CreatePolicy
  <1>5. \A i \in DOMAIN policies : policies[i].id # id
    BY DEF CreatePolicy
  <1> HIDE DEF new
  <1>6. TypeOK'
    <2>1. policies' \in Seq(PolicySet)
      BY <1>1, <1>2, <1>4
    <2>2. /\ DOMAIN policies = 1..Len(policies) /\ Len(policies) \in Nat
          /\ DOMAIN policies' = 1..(Len(policies) + 1)
          /\ policies'[Len(policies) + 1] = new
          /\ \A i \in DOMAIN policies : policies'[i] = policies[i]
      BY <1>1, <1>4
    <2>3. \A i, k \in DOMAIN policies' : policies'[i].id = policies'[k].id => i = k
      <3> SUFFICES ASSUME NEW i \in DOMAIN policies', NEW k \in DOMAIN policies',
                          policies'[i].id = policies'[k].id
                   PROVE  i = k
        OBVIOUS
      <3>1. CASE i \in DOMAIN policies /\ k \in DOMAIN policies
        BY <3>1, <2>2 DEF AccessInv, TypeOK
      <3>2. CASE i = Len(policies) + 1 \/ k = Len(policies) + 1
        BY <3>2, <2>2, <1>3, <1>5
      <3> QED
        BY <3>1, <3>2, <2>2
    <2> QED
      BY <2>1, <2>3, <1>4 DEF AccessInv, TypeOK
  <1>7. AdminsAreRemembered' /\ NeverAnAdmin' /\ GrantsTraceToAdmins'
    BY <1>4 DEF AccessInv, AdminsAreRemembered, NeverAnAdmin, GrantsTraceToAdmins, AdminsOf
  <1> QED
    BY <1>6, <1>7 DEF AccessInv

\* Every handler keeps the invariant.
LEMMA AccessNextInv == AccessInv /\ [Next]_vars => AccessInv'
  <1> SUFFICES ASSUME AccessInv, [Next]_vars
               PROVE  AccessInv'
    OBVIOUS
  <1>1. CASE UNCHANGED vars
    BY <1>1 DEF vars, AccessInv, TypeOK, AdminsAreRemembered, NeverAnAdmin,
                GrantsTraceToAdmins, AdminsOf
  <1> QED
    BY <1>1, RequireAdminKeeps, AssignUserRoleKeeps, RevokeUserRoleKeeps,
       CreatePolicyKeeps DEF Next

\* The invariant holds in every behaviour.
THEOREM AccessInvariant == Spec => []AccessInv
  BY AccessInitInv, AccessNextInv, PTL DEF Spec

\* The tables keep their types and a policy id is used once.
THEOREM AccessTypeCorrect == Spec => []TypeOK
  <1>1. AccessInv => TypeOK
    BY DEF AccessInv
  <1> QED
    BY <1>1, AccessInvariant, PTL

\* Every role that is assigned names somebody who has been an administrator,
\* whatever was revoked while the call waited.
THEOREM GrantsAreTraceable == Spec => []GrantsTraceToAdmins
  <1>1. AccessInv => GrantsTraceToAdmins
    BY DEF AccessInv
  <1> QED
    BY <1>1, AccessInvariant, PTL

\* A service without an administrator never gets one through its interface.
THEOREM AdminsComeFromAdmins == Spec => []NoAdminFromNothing
  <1>1. AccessInv => NoAdminFromNothing
    BY DEF AccessInv, AdminsAreRemembered, NeverAnAdmin, NoAdminFromNothing
  <1> QED
    BY <1>1, AccessInvariant, PTL

\* The second of two assignments that were both let through fails.
THEOREM AssignmentsStay == Spec => RolesAreNotOverwritten
  <1>1. ASSUME TypeOK, [Next]_vars, NEW key \in Keys, roles[key] # NoRole
        PROVE  roles'[key] \in {roles[key], NoRole}
    <2>1. roles \in [Keys -> UserRole \cup {NoRole}]
      BY <1>1 DEF TypeOK
    <2>2. ASSUME NEW u \in Users, AssignUserRole(u)
          PROVE  roles'[key] \in {roles[key], NoRole}
      BY <1>1, <2>1, <2>2 DEF AssignUserRole
    <2>3. ASSUME NEW k \in Keys, RevokeUserRole(k)
          PROVE  roles'[key] \in {roles[key], NoRole}
      BY <1>1, <2>1, <2>3 DEF RevokeUserRole
    <2>4. ASSUME \/ \E ctx \in Tokens, call \in Calls : RequireAdmin(ctx, call)
                 \/ \E id \in PolicyIds, body \in Bodies : CreatePolicy(id, body)
                 \/ UNCHANGED vars
          PROVE  roles'[key] \in {roles[key], NoRole}
      BY <2>4 DEF RequireAdmin, CreatePolicy, vars
    <2> QED
      BY <1>1, <2>2, <2>3, <2>4 DEF Next
  <1>2. TypeOK /\ [Next]_vars =>
            \A key \in Keys : roles[key] # NoRole => roles'[key] \in {roles[key], NoRole}
    BY <1>1
  <1> QED
    BY <1>2, AccessTypeCorrect, PTL DEF Spec, RolesAreNotOverwritten

-----------------------------------------------------------------------------
(* The order of policies. *)

\* A check that passes was decided by a policy that allows it, and no denial of
\* higher priority applied.
THEOREM DenialsOfHigherPriorityWin == Spec => []HigherDenialWins
  <1>1. ASSUME TypeOK, NEW q \in Checks, CheckPermission(q)
        PROVE  \E i \in DOMAIN policies :
                   /\ Applies(policies[i], q) /\ policies[i].effect = "allow"
                   /\ \A k \in DOMAIN policies :
                          Applies(policies[k], q) /\ policies[k].effect = "deny"
                              => policies[k].priority <= policies[i].priority
    <2>1. PICK i \in Decider(q) : policies[i].effect = "allow"
      BY <1>1 DEF CheckPermission, Evaluate
    <2>2. \A k \in DOMAIN policies : policies[k].priority \in Int
      BY <1>1, PrioritiesAreNumbers DEF TypeOK
    <2>3. /\ i \in DOMAIN policies /\ Applies(policies[i], q)
          /\ \A k \in DOMAIN policies : Applies(policies[k], q) =>
                 \/ policies[i].priority > policies[k].priority
                 \/ policies[i].priority = policies[k].priority /\ i <= k
      BY <2>1 DEF Decider, Foremost
    <2> QED
      BY <2>1, <2>2, <2>3
  <1>2. TypeOK => HigherDenialWins
    BY <1>1 DEF HigherDenialWins
  <1> QED
    BY <1>2, AccessTypeCorrect, PTL

\* Where a policy joins at the end, the policy that decided goes on deciding
\* unless the new one applies and has a higher priority.
LEMMA AppendedYields ==
  ASSUME NEW pols, NEW after, NEW n \in Nat, NEW S \in SUBSET (1..n), NEW T,
         T = S \/ T = S \cup {n + 1},
         \A i \in 1..n : pols[i].priority \in Int /\ after[i] = pols[i],
         after[n + 1].priority \in Int,
         Foremost(pols, S) # {}
  PROVE  \/ Foremost(after, T) = Foremost(pols, S)
         \/ \A i \in Foremost(pols, S), k \in Foremost(after, T) :
                after[k].priority > pols[i].priority
  <1>1. PICK i \in S : i \in Foremost(pols, S)
    BY DEF Foremost
  <1>2. \A k \in S : \/ pols[i].priority > pols[k].priority
                     \/ pols[i].priority = pols[k].priority /\ i <= k
    BY <1>1 DEF Foremost
  <1>3. ASSUME NEW k \in Foremost(pols, S)
        PROVE  pols[k].priority = pols[i].priority
    <2>1. k \in S /\ (\/ pols[k].priority > pols[i].priority
                      \/ pols[k].priority = pols[i].priority)
      BY <1>1, <1>3 DEF Foremost
    <2>2. \/ pols[i].priority > pols[k].priority
          \/ pols[i].priority = pols[k].priority
      BY <1>2, <2>1
    <2>3. pols[i].priority \in Int /\ pols[k].priority \in Int
      BY <1>1, <2>1
    <2> QED
      BY <2>1, <2>2, <2>3
  <1>4. CASE T = S
    <2>1. \A m \in S : after[m] = pols[m]
      OBVIOUS
    <2>2. Foremost(after, S) = Foremost(pols, S)
      BY <2>1, Zenon DEF Foremost
    <2> QED
      BY <1>4, <2>2
  <1>5. CASE T = S \cup {n + 1} /\ after[n + 1].priority > pols[i].priority
    <2>1. ASSUME NEW k \in Foremost(after, T)
          PROVE  after[k].priority > pols[i].priority
      <3>1. k \in T /\ (\/ after[k].priority > after[n + 1].priority
                        \/ after[k].priority = after[n + 1].priority)
        BY <1>5, <2>1 DEF Foremost
      <3>2. after[k].priority \in Int
        BY <1>5, <3>1
      <3> QED
        BY <1>5, <3>1, <3>2
    <2> QED
      BY <1>3, <2>1
  <1>6. CASE T = S \cup {n + 1} /\ ~(after[n + 1].priority > pols[i].priority)
    <2>1. Foremost(pols, S) \subseteq Foremost(after, T)
      <3> SUFFICES ASSUME NEW k \in Foremost(pols, S), NEW m \in T
                   PROVE  \/ after[k].priority > after[m].priority
                          \/ after[k].priority = after[m].priority /\ k <= m
        BY <1>6 DEF Foremost
      <3>1. k \in S /\ after[k] = pols[k] /\ pols[k].priority = pols[i].priority
        BY <1>3 DEF Foremost
      <3>2. CASE m \in S
        BY <3>1, <3>2 DEF Foremost
      <3>3. CASE m = n + 1
        BY <1>6, <3>1, <3>3
      <3> QED
        BY <1>6, <3>2, <3>3
    <2>2. ASSUME NEW k \in Foremost(after, T)
          PROVE  k \in Foremost(pols, S)
      <3>1. k \in T /\ \A m \in T : \/ after[k].priority > after[m].priority
                                    \/ after[k].priority = after[m].priority /\ k <= m
        BY <2>2 DEF Foremost
      <3>2. k # n + 1
        <4> SUFFICES ASSUME k = n + 1
                     PROVE  FALSE
          OBVIOUS
        <4>1. i \in T /\ i \in 1..n /\ after[i] = pols[i]
          BY <1>6
        <4> QED
          BY <1>6, <3>1, <4>1
      <3>3. k \in S
        BY <1>6, <3>1, <3>2
      <3> QED
        BY <1>6, <3>1, <3>3 DEF Foremost
    <2> QED
      BY <2>1, <2>2
  <1> QED
    BY <1>4, <1>5, <1>6

\* A policy that is posted takes a check over only from a policy of lower
\* priority: a client cannot overrule a policy by posting a second one of its rank.
THEOREM PostedPoliciesYield == Spec => NewPolicyYields
  <1>1. ASSUME TypeOK, NEW id \in PolicyIds, NEW body \in Bodies, CreatePolicy(id, body),
               NEW q \in Checks, Decider(q) # {}
        PROVE  \/ Decider(q)' = Decider(q)
               \/ \A i \in Decider(q), k \in Decider(q)' :
                      policies'[k].priority > policies[i].priority
    <2> DEFINE new == Posted(id, body)
               S == {i \in DOMAIN policies : Applies(policies[i], q)}
    <2>1. new \in PolicySet /\ policies \in Seq(PolicySet)
      BY <1>1 DEF PolicySet, TypeOK
    <2>2. policies' = Append(policies, new) /\ roles' = roles
      BY <1>1 DEF CreatePolicy
    <2> HIDE DEF new
    <2>3. PICK n \in Nat : n = Len(policies)
      BY <2>1
    <2>4. /\ DOMAIN policies = 1..n /\ DOMAIN policies' = 1..(n + 1)
          /\ policies'[n + 1] = new
          /\ \A i \in 1..n : policies'[i] = policies[i] /\ policies[i] \in PolicySet
      BY <2>1, <2>2, <2>3
    <2>5. /\ \A i \in 1..n : policies[i].priority \in Int
          /\ policies'[n + 1].priority \in Int
      BY <2>1, <2>4, PrioritiesAreNumbers
    <2>6. \A p : Applies(p, q)' = Applies(p, q)
      BY <2>2 DEF Applies, Context
    <2> DEFINE T == {i \in DOMAIN policies' : Applies(policies'[i], q)}
    <2>7. Decider(q) = Foremost(policies, S) /\ Decider(q)' = Foremost(policies', T)
      BY <2>2 DEF Decider, Foremost, Applies, Context
    <2>8. S \in SUBSET (1..n) /\ (T = S \/ T = S \cup {n + 1})
      BY <2>4
    <2> HIDE DEF S, T
    <2> QED
      BY <1>1, <2>4, <2>5, <2>7, <2>8, AppendedYields
  <1>2. ASSUME TypeOK, [Next]_vars, policies' # policies, NEW q \in Checks, Decider(q) # {}
        PROVE  \/ Decider(q)' = Decider(q)
               \/ \A i \in Decider(q), k \in Decider(q)' :
                      policies'[k].priority > policies[i].priority
    <2>1. PICK id \in PolicyIds, body \in Bodies : CreatePolicy(id, body)
      BY <1>2 DEF Next, vars, RequireAdmin, AssignUserRole, RevokeUserRole
    <2> QED
      BY <1>1, <1>2, <2>1
  <1>3. TypeOK /\ [Next]_vars =>
            (policies' # policies =>
                \A q \in Checks :
                    Decider(q) # {} =>
                        \/ Decider(q)' = Decider(q)
                        \/ \A i \in Decider(q), k \in Decider(q)' :
                               policies'[k].priority > policies[i].priority)
    BY <1>2
  <1> QED
    BY <1>3, AccessTypeCorrect, PTL DEF Spec, NewPolicyYields

-----------------------------------------------------------------------------
(* Tenants and quotas.  QuotaIsRemembered carries the proof: the current   *)
(* quota never exceeds the remembered one.                                 *)

\* A bound that is widened by a limit stays a bound, and covers the limit.
LEMMA WidenCovers ==
  ASSUME NEW bound \in Nat \cup {NoLimit}, NEW limit \in Int \cup {NoLimit}
  PROVE  LET wide == Widen(bound, limit)
         IN  /\ wide \in Nat \cup {NoLimit}
             /\ \/ wide = NoLimit
                \/ limit = NoLimit
                \/ ~Unlimited(limit) /\ limit <= wide
             /\ wide = NoLimit \/ (bound # NoLimit /\ bound <= wide)
  BY TenancyAssumption DEF Widen, Unlimited

\* The quotas of the plans are numbers.
LEMMA PlanTypes ==
  ASSUME NEW plan \in TenantPlan
  PROVE  PlanDefaults[plan] \in Quota /\ PlanDefaults[plan].calls \in Int
  BY TenancyAssumption DEF Quota

\* The seeded platform tenant is unlimited.
LEMMA TenancyInitInv == TenancyInit => TenancyInv
  <1>1. PlanDefaults["enterprise"] \in Quota
    BY PlanTypes DEF TenantPlan
  <1> QED
    BY <1>1, TenancyAssumption
    DEF TenancyInit, TenancyInv, TenancyTypeOK, QuotaIsRemembered, CallsWithinLargestQuota

\* Every handler keeps the invariant.
LEMMA TenancyNextInv == TenancyInv /\ [TenancyNext]_tenancyVars => TenancyInv'
  <1> SUFFICES ASSUME TenancyInv, [TenancyNext]_tenancyVars
               PROVE  TenancyInv'
    OBVIOUS
  <1> USE TenancyAssumption
      DEF TenancyInv, TenancyTypeOK, QuotaIsRemembered, CallsWithinLargestQuota
  <1>1. ASSUME NEW t \in TenantIds, NEW plan \in TenantPlan, CreateTenant(t, plan)
        PROVE  TenancyInv'
    <2> DEFINE wide == Widen(0, PlanDefaults[plan].calls)
    <2>1. PlanDefaults[plan] \in Quota /\ PlanDefaults[plan].calls \in Int
      BY PlanTypes
    <2>2. /\ wide \in Nat \cup {NoLimit}
          /\ wide = NoLimit \/ (~Unlimited(PlanDefaults[plan].calls)
                                /\ PlanDefaults[plan].calls <= wide)
      BY <2>1, WidenCovers
    <2>3. allowed' = [allowed EXCEPT ![t] = wide]
      BY <1>1 DEF CreateTenant
    <2> HIDE DEF wide
    <2> QED
      BY <1>1, <2>1, <2>2, <2>3 DEF CreateTenant
  <1>2. ASSUME NEW t \in TenantIds, NEW s \in {"unset", "suspended", "deleted"},
               NEW limit \in Limits \cup {NoLimit}, NEW tasks \in Limits \cup {NoLimit},
               NEW others \in BOOLEAN, PatchTenant(t, s, limit, tasks, others)
        PROVE  TenancyInv'
    <2>1. status' \in [TenantIds -> {"absent", "active", "suspended", "deleted"}]
      BY <1>2 DEF PatchTenant, SetStatus
    <2>2. CASE UNCHANGED <<quota, allowed>>
      BY <1>2, <2>1, <2>2 DEF PatchTenant
    <2>3. CASE /\ quota' = [quota EXCEPT ![t] = [calls |-> limit, tasks |-> tasks]]
               /\ allowed' = [allowed EXCEPT ![t] = Widen(@, limit)]
      <3> DEFINE new == [calls |-> limit, tasks |-> tasks]
                 wide == Widen(allowed[t], limit)
      <3>1. limit \in Int \cup {NoLimit} /\ tasks \in Int \cup {NoLimit}
        OBVIOUS
      <3>2. new \in Quota /\ new.calls = limit
        BY <3>1 DEF Quota
      <3>3. /\ wide \in Nat \cup {NoLimit}
            /\ \/ wide = NoLimit
               \/ limit = NoLimit
               \/ ~Unlimited(limit) /\ limit <= wide
            /\ wide = NoLimit \/ (allowed[t] # NoLimit /\ allowed[t] <= wide)
        BY <3>1, WidenCovers
      <3>4. quota' = [quota EXCEPT ![t] = new] /\ allowed' = [allowed EXCEPT ![t] = wide]
        BY <2>3
      <3>5. usage' = usage
        BY <1>2 DEF PatchTenant
      <3> HIDE DEF new, wide
      <3>6. TenancyTypeOK' /\ QuotaIsRemembered'
        BY <2>1, <3>2, <3>3, <3>4, <3>5
      <3>7. CallsWithinLargestQuota'
        BY <3>3, <3>4, <3>5
      <3> QED
        BY <3>6, <3>7
    <2> QED
      BY <1>2, <2>2, <2>3 DEF PatchTenant
  <1>3. ASSUME NEW t \in TenantIds, RecordApiCall(t)
        PROVE  TenancyInv'
    <2>1. quota[t].calls \in Int \cup {NoLimit}
      BY DEF Quota
    <2>2. \/ Unlimited(quota[t].calls)
          \/ quota[t].calls # NoLimit /\ usage[t] < quota[t].calls
      BY <1>3 DEF RecordApiCall, CheckQuota, WithinLimit
    <2>3. allowed[t] = NoLimit \/ usage[t] + 1 <= allowed[t]
      BY <2>1, <2>2 DEF Unlimited
    <2>4. usage[t] + 1 \in 0..MaxCalls
      BY <1>3 DEF RecordApiCall
    <2> QED
      BY <1>3, <2>3, <2>4 DEF RecordApiCall
  <1>4. ASSUME NEW t \in TenantIds, ResetUsage(t)
        PROVE  TenancyInv'
    <2> DEFINE wide == Widen(0, quota[t].calls)
    <2>1. quota[t].calls \in Int \cup {NoLimit}
      BY DEF Quota
    <2>2. /\ wide \in Nat \cup {NoLimit}
          /\ \/ wide = NoLimit
             \/ quota[t].calls = NoLimit
             \/ ~Unlimited(quota[t].calls) /\ quota[t].calls <= wide
      BY <2>1, WidenCovers
    <2>3. allowed' = [allowed EXCEPT ![t] = wide]
      BY <1>4 DEF ResetUsage
    <2> HIDE DEF wide
    <2> QED
      BY <1>4, <2>2, <2>3 DEF ResetUsage
  <1>5. CASE UNCHANGED tenancyVars
    BY <1>5 DEF tenancyVars
  <1> QED
    BY <1>1, <1>2, <1>3, <1>4, <1>5 DEF TenancyNext

\* The invariant holds in every behaviour.
THEOREM TenancyInvariant == TenancySpec => []TenancyInv
  BY TenancyInitInv, TenancyNextInv, PTL DEF TenancySpec

\* Status, quota, counter and history keep their types.
THEOREM TenancyTypeCorrect == TenancySpec => []TenancyTypeOK
  <1>1. TenancyInv => TenancyTypeOK
    BY DEF TenancyInv
  <1> QED
    BY <1>1, TenancyInvariant, PTL

\* No interleaving of patches, resets and calls counts a tenant past the
\* largest quota it has had since its last reset.
THEOREM CallsStayWithinQuota == TenancySpec => []CallsWithinLargestQuota
  <1>1. TenancyInv => CallsWithinLargestQuota
    BY DEF TenancyInv
  <1> QED
    BY <1>1, TenancyInvariant, PTL

\* check_quota looks at the status first and no patch sets it to active, so a
\* suspended or deleted tenant is never counted again.
THEOREM InactiveTenantsStaySo == TenancySpec => InactiveForGood
  <1> DEFINE Gone == {"suspended", "deleted"}
  <1>1. ASSUME TenancyTypeOK, [TenancyNext]_tenancyVars, NEW u \in TenantIds, status[u] \in Gone
        PROVE  status'[u] \in Gone /\ usage'[u] \in {usage[u], 0}
    <2>0. /\ status \in [TenantIds -> {"absent", "active", "suspended", "deleted"}]
          /\ usage \in [TenantIds -> 0..MaxCalls]
      BY <1>1 DEF TenancyTypeOK
    <2>1. ASSUME NEW t \in TenantIds, NEW plan \in TenantPlan, CreateTenant(t, plan)
          PROVE  status'[u] \in Gone /\ usage'[u] \in {usage[u], 0}
      BY <1>1, <2>0, <2>1 DEF CreateTenant
    <2>2. ASSUME NEW t \in TenantIds, NEW s \in {"unset", "suspended", "deleted"},
                 NEW limit \in Limits \cup {NoLimit}, NEW tasks \in Limits \cup {NoLimit},
                 NEW others \in BOOLEAN, PatchTenant(t, s, limit, tasks, others)
          PROVE  status'[u] \in Gone /\ usage'[u] \in {usage[u], 0}
      BY <1>1, <2>0, <2>2 DEF PatchTenant, SetStatus
    <2>3. ASSUME NEW t \in TenantIds, RecordApiCall(t) \/ ResetUsage(t)
          PROVE  status'[u] \in Gone /\ usage'[u] \in {usage[u], 0}
      BY <1>1, <2>0, <2>3 DEF RecordApiCall, ResetUsage, CheckQuota
    <2>4. CASE UNCHANGED tenancyVars
      BY <1>1, <2>4 DEF tenancyVars
    <2> HIDE DEF Gone
    <2> QED
      BY <1>1, <2>1, <2>2, <2>3, <2>4 DEF TenancyNext
  <1>2. TenancyTypeOK /\ [TenancyNext]_tenancyVars =>
          [\A t \in TenantIds : status[t] \in {"suspended", "deleted"} =>
              /\ status'[t] \in {"suspended", "deleted"}
              /\ usage'[t] \in {usage[t], 0}]_tenancyVars
    BY <1>1
  <1> QED
    BY <1>2, TenancyTypeCorrect, PTL DEF TenancySpec, InactiveForGood
=============================================================================
