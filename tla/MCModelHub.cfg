SPECIFICATION FairHub
CONSTANTS
    Chats = {c1, c2}
    s1 = s1
    s2 = s2
    e1 = e1
    Sessions = {s1, s2}
    NoSession = NoSession
    Employees = {e1}
    Unknown = Unknown
    Requests <- MCRequests
    KnownModels <- MCKnownModels
    Offers <- MCOffers
    MaxSessions = 1
    ReportDays = 2
    MonthDays = 3
    Months = 2
    MaxStops = 1
    NoModel = NoModel
CHECK_DEADLOCK FALSE
INVARIANTS
    PoolWithinBound
    OneAgentAtATime
    MonthIsReported
PROPERTIES
    ChatsEnd
