SPECIFICATION RefundSpec
CONSTANTS
    o1 = o1
    b1 = b1
    r1 = r1
    f1 = f1
    f2 = f2
    u1 = u1
    u2 = u2
    Orders = {o1}
    Obligations = {b1}
    Requests = {r1}
    ProductionPayments = FALSE
    NoOrder = NoOrder
    NoObligation = NoObligation
    RefundIds = {f1, f2}
    Staff = {u1, u2}
    OrderAmount = 2
    MaxTaken = 2
    NoRefund = NoRefund
INVARIANTS
    RefundsWithinAmount
CHECK_DEADLOCK FALSE
