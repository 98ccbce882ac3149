CONSTANTS
    t1 = t1
    t2 = t2
    j1 = j1
    j2 = j2
    e1 = e1
    e2 = e2
    e3 = e3
    Tasks = {t1, t2}
    Jobs = {j1, j2}
    Employees = {e1}
    Blank = {}
    Agents = {"chat"}
    DefaultAgent = "chat"
    NoTask = NoTask
    NoEmployee = NoEmployee
    NoJob = NoJob
    MaxSteps = 2
    MaxRetries = 1
    EnableEscalation = TRUE
SPECIFICATION Spec
INVARIANTS
    AnswerIsOwn
