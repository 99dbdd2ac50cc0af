\* One QR checkout of two orders, one of them free; two workers; BullMQ.
SPECIFICATION Spec
CONSTANTS
    Users = {"ann"}
    Orders = {1, 2}
    Items = {1, 2, 3}
    NoItem = 0
    Buyer <- CheckoutBuyer
    BatchOf <- CheckoutBatch
    Quick = {1, 2}
    Opening <- CheckoutOpening
    Prices = {2}
    Discounts = {3}
    Limit = 0
    Workers = {w1, w2}
    NoOrder = 0
    Singles = {}
    Runtime = "server"
    MayExhaust = TRUE
    Repeatable = {1}
    Removable = {}
    Suspendable = {}
    MaxFaults = 1
\* Both orders may be over, or stuck, with nothing left to do.
CHECK_DEADLOCK FALSE
SYMMETRY WorkerSymmetry
INVARIANTS
    SaleInvariant
    MoneyOrGoods
    BalanceMatchesLedger
PROPERTIES
    SettledIsFinal
    KeepsPromise
