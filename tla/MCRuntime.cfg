CONSTANTS
    t1 = t1
    t2 = t2
    j1 = j1
    j2 = j2
    e1 = e1
    e2 = e2
    e3 = e3
    Tasks = {t1, t2}
    Jobs = {j1, j2}
    Employees = {e1, e2, e3}
    Blank = {e3}
    Agents = {"chat"}
    DefaultAgent = "chat"
    NoTask = NoTask
    NoEmployee = NoEmployee
    NoJob = NoJob
    MaxSteps = 2
    MaxRetries = 1
    EnableEscalation = TRUE
SPECIFICATION FairSpec
INVARIANTS
    ResultsStayWithEmployee
    CallBudget
    StepsInPlanOrder
PROPERTIES
    ImplementsLifecycle
    RecordsSettle
