\* A worker dies while it reports a failed QR checkout; QStash.
SPECIFICATION FairSpec
CONSTANTS
    Users = {"ann"}
    Orders = {1, 2}
    Items = {1, 2}
    NoItem = 0
    Buyer <- CheckoutBuyer
    BatchOf <- CheckoutBatch
    Quick = {1, 2}
    Opening <- CheckoutOpening
    Prices = {2}
    Discounts = {1}
    Limit = 0
    Workers = {w1}
    NoOrder = 0
    Singles = {}
    Runtime = "serverless"
    MayExhaust = FALSE
    Repeatable = {}
    Removable = {}
    Suspendable = {}
    MaxFaults = 2
\* A stuck checkout waits and nothing else happens.
CHECK_DEADLOCK FALSE
PROPERTIES
    AmbiguousReachesAdmin
