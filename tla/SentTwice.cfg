\* A task of a QR checkout comes twice and a worker dies reporting it; QStash.
SPECIFICATION Spec
CONSTANTS
    Users = {"ann"}
    Orders = {1, 2}
    Items = {1, 2}
    NoItem = 0
    Buyer <- CheckoutBuyer
    BatchOf <- CheckoutBatch
    Quick = {1, 2}
    Opening <- CheckoutOpening
    Prices = {2}
    Discounts = {1}
    Limit = 0
    Workers = {w1, w2}
    NoOrder = 0
    Singles = {}
    Runtime = "serverless"
    MayExhaust = FALSE
    Repeatable = {}
    Removable = {}
    Suspendable = {}
    MaxFaults = 2
\* Both orders may be over, or stuck, with nothing left to do.
CHECK_DEADLOCK FALSE
SYMMETRY WorkerSymmetry
INVARIANTS
    NeverSendTwiceAutomatically
