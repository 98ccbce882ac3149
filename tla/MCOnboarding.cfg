CONSTANTS
    Threads = {t1, t2}
    MaxSecond = 1
    SeedVersions <- MCSeedVersions
    SeedUsed = 4
    Traffic = {100}
    MinReplicas = 1
    Fields = {"soul", "user"}
    Contents = {"x"}
    Puts <- MCPuts
    BodyIds = {1}
    MaxRequests = 4
    Empty = Empty
    Default = Default
    NoFile = NoFile
    NoRow = NoRow
    NoDir = NoDir
    Rewritten = {}
    Idle = Idle
SPECIFICATION Spec
CHECK_DEADLOCK FALSE
SYMMETRY Symmetry
INVARIANTS
    RowHasDirectory
    
    LeaksAreExplained
PROPERTIES
    DeprecationUndoneUnseen
