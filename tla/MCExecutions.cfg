CONSTANTS
    Runners = {t1, t2}
    Blueprints = {"b"}
    Tokens = {5}
    Baseline <- MCBaseline
    SeedDetail <- MCSeedDetail
    KeepDays = 2
    MaxDay = 2
    MaxExecutions = 3
    NoRun = NoRun
SPECIFICATION ExecutionsSpec
CHECK_DEADLOCK FALSE
INVARIANTS
    FiguresAgree
    ChartCountsEnough
