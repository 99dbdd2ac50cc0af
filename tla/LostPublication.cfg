\* Publications lost under BullMQ, where no maintenance runs.
SPECIFICATION FairSpec
CONSTANTS
    Users = {"ann"}
    Orders = {1}
    Items = {1, 2}
    NoItem = 0
    Buyer <- SoloBuyer
    BatchOf <- SoloBatch
    Quick = {}
    Opening <- ResaleOpening
    Prices = {2}
    Discounts = {1}
    Limit = 0
    Workers = {w1}
    NoOrder = 0
    Singles = {1}
    Runtime = "server"
    MayExhaust = FALSE
    Repeatable = {}
    Removable = {}
    Suspendable = {}
    MaxFaults = 1
\* The lost order waits and nothing else happens.
CHECK_DEADLOCK FALSE
PROPERTIES
    OutboxDrains
