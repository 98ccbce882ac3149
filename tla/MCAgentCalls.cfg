CONSTANTS
    TaskRuns = {t1}
    Planners = {p1, p2, p3}
    Connectors = {k1}
    Workers = 3
    CallTimeout = 1
    TaskTimeout = 5
    MaxCalls = 6
SPECIFICATION FairCalls
INVARIANTS
    AtMostTwoProcesses
    ProcessesEndInTime
PROPERTIES
    Quiesces
