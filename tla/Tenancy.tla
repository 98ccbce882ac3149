------------------------------ MODULE Tenancy ------------------------------
(***************************************************************************)
(* Tenants, quotas and usage counters of the governance service:           *)
(* apps/governance/tenant.py and the tenant handlers of main.py.           *)
(*                                                                         *)
(* A handler has no await after its token is checked, so each is one step; *)
(* patches, resets and counted calls of different clients come in any      *)
(* order.  A quota of -1 is unlimited.  max_users and max_storage_mb are   *)
(* kept but never compared with anything, and nothing changes the number   *)
(* of concurrent tasks from 0, so both are left out.                       *)
(***************************************************************************)
EXTENDS Integers

CONSTANTS
    TenantIds,       \* the ids that register_tenant draws, and "platform"
    PlanDefaults,  \* PlanDefaults[p]: the quota of a new tenant on plan p
    Limits,        \* the numbers that patches set a quota to
    NoLimit,       \* None
    MaxCalls       \* bound on api_calls_today

TenantPlan == {"free", "pro", "enterprise"}

\* TenantQuota: max_api_calls_per_day and max_concurrent_tasks.
Quota == [calls : Int \cup {NoLimit}, tasks : Int \cup {NoLimit}]

ASSUME TenancyAssumption ==
    /\ "platform" \in TenantIds
    /\ PlanDefaults \in [TenantPlan -> [calls : Int, tasks : Int]]
    /\ PlanDefaults["enterprise"] = [calls |-> -1, tasks |-> -1]
    /\ Limits \subseteq Int
    /\ NoLimit \notin Int
    /\ MaxCalls \in Nat

VARIABLES
    status,   \* of each tenant; "absent" if the id is not registered
    quota,
    usage,    \* api_calls_today
    allowed   \* history: the largest number of calls the quotas since the last
              \* reset allowed, NoLimit if one of them was unlimited

tenancyVars == <<status, quota, usage, allowed>>

\* is_unlimited.
Unlimited(limit) == limit = -1

\* The history variable after a tenant has had limit for a while.  None limits
\* nothing, as no call is counted under it.
Widen(bound, limit) ==
    IF bound = NoLimit \/ Unlimited(limit) THEN NoLimit
    ELSE IF limit # NoLimit /\ limit > bound THEN limit ELSE bound

\* _auto_seed.
TenancyInit ==
    /\ status = [t \in TenantIds |-> IF t = "platform" THEN "active" ELSE "absent"]
    /\ quota = [t \in TenantIds |-> PlanDefaults["enterprise"]]
    /\ usage = [t \in TenantIds |-> 0]
    /\ allowed = [t \in TenantIds |-> NoLimit]

\* create_tenant and register_tenant.
CreateTenant(t, plan) ==
    /\ status[t] = "absent"
    /\ status' = [status EXCEPT ![t] = "active"]
    /\ quota' = [quota EXCEPT ![t] = PlanDefaults[plan]]
    /\ usage' = [usage EXCEPT ![t] = 0]
    /\ allowed' = [allowed EXCEPT ![t] = Widen(0, PlanDefaults[plan].calls)]

\* What patch_tenant makes of a status that it accepts; "deleted" is only a mark.
SetStatus(old, s) == IF s = "unset" THEN old ELSE s

\* patch_tenant: the status first, then the quota, unless the request names no field
\* of it (others: max_users or max_storage_mb).  update_quota is given every field, None
\* for the ones left out, and sets them all.  A request with any other status changes
\* nothing.
PatchTenant(t, s, calls, tasks, others) ==
    /\ status[t] # "absent"
    /\ status' = [status EXCEPT ![t] = SetStatus(@, s)]
    /\ IF calls = NoLimit /\ tasks = NoLimit /\ ~others
       THEN UNCHANGED <<quota, allowed>>
       ELSE /\ quota' = [quota EXCEPT ![t] = [calls |-> calls, tasks |-> tasks]]
            /\ allowed' = [allowed EXCEPT ![t] = Widen(@, calls)]
    /\ UNCHANGED usage

\* Mutant of WithinLimit: one call too many.
WithinLimitInclusive(used, limit) == Unlimited(limit) \/ (limit # NoLimit /\ used <= limit)

\* One comparison of check_quota.  With None it is a TypeError: the call fails.
WithinLimit(used, limit) == Unlimited(limit) \/ (limit # NoLimit /\ used < limit)

\* Mutant of CheckQuota: the status is not looked at.
CheckQuotaOfAny(t) ==
    /\ WithinLimit(usage[t], quota[t].calls)
    /\ WithinLimit(0, quota[t].tasks)

CheckQuota(t) ==
    /\ status[t] = "active"
    /\ WithinLimit(usage[t], quota[t].calls)
    /\ WithinLimit(0, quota[t].tasks)

\* record_api_call.  A call that check_quota refuses (429), or fails on, counts nothing.
RecordApiCall(t) ==
    /\ status[t] # "absent"
    /\ CheckQuota(t)
    /\ usage[t] < MaxCalls
    /\ usage' = [usage EXCEPT ![t] = @ + 1]
    /\ UNCHANGED <<status, quota, allowed>>

\* reset_usage: of any tenant that has counters, deleted ones included.
ResetUsage(t) ==
    /\ status[t] # "absent"
    /\ usage' = [usage EXCEPT ![t] = 0]
    /\ allowed' = [allowed EXCEPT ![t] = Widen(0, quota[t].calls)]
    /\ UNCHANGED <<status, quota>>

TenancyNext ==
    \E t \in TenantIds :
        \/ \E plan \in TenantPlan : CreateTenant(t, plan)
        \/ \E s \in {"unset", "suspended", "deleted"}, calls, tasks \in Limits \cup {NoLimit},
              others \in BOOLEAN : PatchTenant(t, s, calls, tasks, others)
        \/ RecordApiCall(t)
        \/ ResetUsage(t)

TenancySpec == TenancyInit /\ [][TenancyNext]_tenancyVars

-----------------------------------------------------------------------------
(* Properties. *)

TenancyTypeOK ==
    /\ status \in [TenantIds -> {"absent", "active", "suspended", "deleted"}]
    /\ quota \in [TenantIds -> Quota]
    /\ usage \in [TenantIds -> 0..MaxCalls]
    /\ allowed \in [TenantIds -> Nat \cup {NoLimit}]

\* However patches, resets and calls interleave, the counter of a tenant never passes
\* the largest quota it has had since the counter was last reset.
CallsWithinLargestQuota ==
    \A t \in TenantIds : allowed[t] = NoLimit \/ usage[t] <= allowed[t]

\* A tenant that was suspended or deleted is never served again: no request makes
\* it active and its counter only goes back to 0.
InactiveForGood ==
    [][\A t \in TenantIds : status[t] \in {"suspended", "deleted"} =>
           /\ status'[t] \in {"suspended", "deleted"}
           /\ usage'[t] \in {usage[t], 0}]_tenancyVars

\* The fields of TenantQuota are declared int.
QuotasAreNumbers == \A t \in TenantIds : quota[t] \in [calls : Int, tasks : Int]

\* The inductive invariant: the quota of the moment is within the history's bound.
QuotaIsRemembered ==
    \A t \in TenantIds :
        \/ allowed[t] = NoLimit
        \/ quota[t].calls = NoLimit
        \/ ~Unlimited(quota[t].calls) /\ quota[t].calls <= allowed[t]

TenancyInv == TenancyTypeOK /\ QuotaIsRemembered /\ CallsWithinLargestQuota
=============================================================================
