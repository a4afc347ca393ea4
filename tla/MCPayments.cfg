SPECIFICATION PaymentsSpec
CONSTANTS
    o1 = o1
    o2 = o2
    b1 = b1
    r1 = r1
    r2 = r2
    o3 = o3
    b3 = b3
    r3 = r3
    Orders = {o1, o2}
    Obligations = {b1}
    Requests = {r1, r2}
    ProductionPayments = FALSE
    NoOrder = NoOrder
    NoObligation = NoObligation
    Contents = {0, 1, 2}
    MaxBackups = 3
    LastPublished = 1
    MaxBuilds = 2
    LastDeployed = 2
    MaxInstalled = 2
    LastCertificate = 1
    MaxStrays = 1
SYMMETRY Symmetry
INVARIANTS
    LedgerAgrees
    OutcomeIsBolds
    NoSecondCollection
    OneReusableOrder
    SurroundingsHold
PROPERTIES
    TerminalOrderIsFinal
    RefundsStand
CHECK_DEADLOCK FALSE
