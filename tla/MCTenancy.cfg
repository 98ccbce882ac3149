CONSTANTS
    TenantIds = {"platform", "a"}
    PlanDefaults <- MCPlanDefaults
    Limits <- MCLimits
    NoLimit = NoLimit
    MaxCalls = 3
SPECIFICATION TenancySpec
INVARIANTS
    CallsWithinLargestQuota
PROPERTIES
    InactiveForGood
