\* A resent delivery whose reservation runs out.
SPECIFICATION Spec
CONSTANTS
    Users = {"ann"}
    Orders = {1, 2}
    Items = {1, 2}
    NoItem = 0
    Buyer <- ResaleBuyer
    BatchOf <- Alone
    Quick = {}
    Opening <- ResaleOpening
    Prices = {2}
    Discounts = {1}
    Limit = 0
    Workers = {w1, w2}
    NoOrder = 0
    Singles = {1, 2}
    Runtime = "server"
    MayExhaust = TRUE
    Repeatable = {}
    Removable = {}
    Suspendable = {"ann"}
    MaxFaults = 2
SYMMETRY WorkerSymmetry
INVARIANTS
    DisclosedNeverForSale
