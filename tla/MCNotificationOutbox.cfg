SPECIFICATION FairSpec
CONSTANTS
    j1 = j1
    j2 = j2
    w1 = w1
    w2 = w2
    Jobs = {j1, j2}
    Linked = {j1}
    Workers = {w1, w2}
    MaxAttempts = 2
    ClaimBound = 2
    FailingQueries = {"INVALID", "RETRYABLE"}
    MayCrash = TRUE
    NoWorker = NoWorker
INVARIANTS
    DeliveredOnce
PROPERTIES
    TerminalJobIsFinal
    EveryJobSettles
CHECK_DEADLOCK FALSE
