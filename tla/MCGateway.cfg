CONSTANTS
    t1 = t1
    t2 = t2
    j1 = j1
    j2 = j2
    j3 = j3
    Tasks = {t1, t2}
    Jobs = {j1, j2, j3}
    NoTask = NoTask
    Limit = 2
SPECIFICATION FairSpec
INVARIANTS
    OpenRecordHasRequest
    CrashIsSafeToRepeat
PROPERTIES
    ClosedRecordIsFinal
    DispatchesAreAnswered
