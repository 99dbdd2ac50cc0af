\* One checkout and one transfer, and a shelf whose oldest item is still in
\* the unique index of the orders (see ReleasedItem.cfg).
SPECIFICATION PaymentSpec
CONSTANTS
    Customers = {"ann"}
    Requests = {1}
    Transfers = {t1}
    Fulfillers = {f1}
    None = none
    Owner <- SoleOwner1
    Quantity <- One
    Couponed = {}
    UnitPrice = 2
    Opening = 0
    Shelf = 1
    Limit = 0
    Deposits = {1}
    Received = {2}
    Adjustments = {1}
    MayJam = TRUE
    MayStall = FALSE
    MaxDocuments = 2
    MaxIncidents = 1
    Terms <- CouponTerms
CHECK_DEADLOCK FALSE
INVARIANT
    AnsweredIsCredited
