SPECIFICATION ServicesSpec
CONSTANTS
    h1 = h1
    h2 = h2
    k1 = k1
    i1 = i1
    i2 = i2
    o1 = o1
    o2 = o2
    q1 = q1
    q2 = q2
    Orders = {o1, o2}
    Requests = {h1, h2}
    Snapshots = {q1, q2}
    NotPayable = NotPayable
    NoOrder = NoOrder
    Visits = {h1, h2}
    IdempotencyKeys = {k1}
    MaxIssued = 4
    MaxAttempts = 2
    Inferences = {h1, h2}
    Routes = 2
    Estimate = 2
    MaxPerRequest = 3
    MaxPerDay = 5
    Costs = {1, 3, 4}
    FailureThreshold = 2
    LastDay = 1
    Staff = {h1, h2}
    Issues = {i1, i2}
    MaxRuns = 2
    MaxChanges = 2
    Jobs = {h1, h2}
    Workers = {k1}
    NoWorker = NoWorker
SYMMETRY Symmetry
INVARIANTS
    AskedOnce
    CollectedOnce
    CentralSeparation
    PortalKeepsItsWord
    GatewayHoldsItsLimits
    CommunicationIsTrue
    OfficeRecordsAgree
PROPERTIES
    ConfirmationIsKept
    BarredStaysBarred
CHECK_DEADLOCK FALSE
