\* Two wallet purchases compete for two workers; QStash and its maintenance run.
SPECIFICATION FairSpec
CONSTANTS
    Users = {"ann", "bob"}
    Orders = {1, 2}
    Items = {1, 2}
    NoItem = 0
    Buyer <- RivalBuyer
    BatchOf <- Alone
    Quick = {}
    Opening <- RivalOpening
    Prices = {2}
    Discounts = {1}
    Limit = 0
    Workers = {w1, w2}
    NoOrder = 0
    Singles = {1, 2}
    Runtime = "serverless"
    MayExhaust = TRUE
    Repeatable = {1}
    Removable = {}
    Suspendable = {}
    MaxFaults = 1
\* Once both orders are over the shop may have nothing left to do.
CHECK_DEADLOCK FALSE
PROPERTIES
    OutboxDrains
