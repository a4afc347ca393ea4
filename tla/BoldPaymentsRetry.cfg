SPECIFICATION Spec
CONSTANTS
    o1 = o1
    o2 = o2
    b1 = b1
    r1 = r1
    r2 = r2
    Orders = {o1, o2}
    Obligations = {b1}
    Requests = {r1, r2}
    ProductionPayments = FALSE
    NoOrder = NoOrder
    NoObligation = NoObligation
PROPERTIES
    BoldAskedOnce
CHECK_DEADLOCK FALSE
