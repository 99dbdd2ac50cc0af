\* Two requests of one customer, two transfers, one fulfiller.
SPECIFICATION FairPayments
CONSTANTS
    Customers = {"ann"}
    Requests = {1, 2}
    Transfers = {t1, t2}
    Fulfillers = {f1}
    None = none
    Owner <- SoleOwner
    Quantity <- OneAndTwo
    Couponed = {1, 2}
    UnitPrice = 2
    Opening = 0
    Shelf = 3
    Limit = 0
    Deposits = {1}
    Received = {1}
    Adjustments = {1}
    MayJam = FALSE
    MayStall = FALSE
    MaxDocuments = 3
    MaxIncidents = 1
    Terms <- CouponTerms
\* Every request may be settled and every transfer credited.
CHECK_DEADLOCK FALSE
INVARIANTS
    PaymentTypeOK
    AnsweredIsCredited
    CheckoutMatchesOrders
    CouponBooks
PROPERTIES
    OnlyTimelyMoneyBuys
    OwnLimitKept
    HonoursTill
    TransferArrives
    ApprovedCheckoutEnds
