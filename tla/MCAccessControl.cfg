CONSTANTS
    Users = {"u1", "u2"}
    Tenants = {"t"}
    Tokens <- MCTokens
    Calls <- MCCalls
    SeedTables <- MCSeedTables
    Operator = Operator
    NoRole = NoRole
    NoCall = NoCall
    NoValue = NoValue
    PolicyIds = {"p", "allow-employee-low-risk-tasks"}
    Bodies <- MCBodies
    Matches <- MCMatches
    EndsWith <- MCEndsWith
    Checks <- MCChecks
SPECIFICATION Spec
CHECK_DEADLOCK FALSE
INVARIANTS
    GrantsTraceToAdmins
    HigherDenialWins
PROPERTIES
    RolesAreNotOverwritten
    NewPolicyYields
