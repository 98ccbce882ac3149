CONSTANTS
    r1 = r1
    r2 = r2
    p1 = p1
    p2 = p2
    Workflows = {"w"}
    NoWorkflow = NoWorkflow
    Definitions <- MCDefinitions
    Builtin <- MCBuiltin
    NoDefinition = NoDefinition
    StepIds = {"a", "b", "c", "a-escalated"}
    NoStep = NoStep
    EscalatedId <- MCEscalatedId
    Requests = {r1}
    Approvers = {"lead", "manager"}
    People = {p1, p2}
    Fields = {"amount"}
    Values = {1, 2}
    NoValue = NoValue
    Substring = {}
    MaxDecisions = 4
SPECIFICATION Spec
SYMMETRY Symmetry
INVARIANTS
    OneOpenStep
    ApprovedIsEarned
    ApprovalsCounted
    StableIsDecidable
    NoLevelSkipped
