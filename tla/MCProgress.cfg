SPECIFICATION ProgressSpec

CONSTANTS
    m1 = m1
    r1 = r1
    r2 = r2
    o1 = o1
    Events = {e1}
    Versions = {v1}
    Dispatchers = {d1, d2}
    RetryWorkers = {w1}
    Actions = 2
    MaxAttempts = 2
    StoreMayFail = TRUE
    MayCrash = TRUE
    None = None

INVARIANTS
    EngineRecordsAgree
PROPERTIES
    StepsRunOnce
    EveryExecutionSettles
    ChatsSettle
