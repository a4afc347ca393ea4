SPECIFICATION Spec
CONSTANTS
    j1 = j1
    j2 = j2
    w1 = w1
    w2 = w2
    Jobs = {j1, j2}
    Linked = {j1, j2}
    Workers = {w1, w2}
    MaxAttempts = 2
    ClaimBound = 3
    FailingQueries = {"INVALID", "DELIVERED", "UNCERTAIN", "RETRYABLE", "PERMANENT", "CATCH"}
    MayCrash = TRUE
    NoWorker = NoWorker
SYMMETRY Symmetry
INVARIANTS
    NoBlindRetry
CHECK_DEADLOCK FALSE
