\* Two purchases of a product limited to one per customer; QStash.
SPECIFICATION Spec
CONSTANTS
    Users = {"ann"}
    Orders = {1, 2}
    Items = {1, 2}
    NoItem = 0
    Buyer <- ResaleBuyer
    BatchOf <- Alone
    Quick = {}
    Opening <- ResaleOpening
    Prices = {2}
    Discounts = {1}
    Limit = 1
    Workers = {w1, w2}
    NoOrder = 0
    Singles = {1, 2}
    Runtime = "serverless"
    MayExhaust = TRUE
    Repeatable = {1, 2}
    Removable = {1}
    Suspendable = {"ann"}
    MaxFaults = 2
SYMMETRY WorkerSymmetry
INVARIANTS
    GoodsFollowOrders
    OneOrderPerSecret
    WithinPurchaseLimit
    NeverSendTwiceAutomatically
    ShelfSafeBeforeRecovery
