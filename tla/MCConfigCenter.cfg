CONSTANTS
    Namespaces = {"flags", "models"}
    Names = {"x"}
    Values = {0}
    NoValue = NoValue
    Services = {"runtime"}
    NoService = NoService
    Tasks = {1, 2}
    NoJob = NoJob
    NoItem = NoItem
    NotSubscribed = NotSubscribed
    Seed <- MCSeed
    MaxChanges <- MCMaxChanges
SPECIFICATION FairSpec
INVARIANTS
    HistoryIsLinear
    AuditMatchesHistory
    PushesHaveHistory
PROPERTIES
    LoopIsFreed
