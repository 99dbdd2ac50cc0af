------------------------------- MODULE Store -------------------------------
(***************************************************************************)
(* The collections a sale touches (orders, inventory_items, users,         *)
(* wallet_transactions) and the MongoDB transactions of the API over them: *)
(* buying, releasing expired reservations, and the admin's recovery of a   *)
(* failed delivery.                                                        *)
(*                                                                         *)
(* A transaction is one step.  MongoDB gives it snapshot isolation and     *)
(* re-runs it on a write conflict; every check-then-write below also       *)
(* writes a document it read (the buyer's lock version, the order or the   *)
(* item), so a committed transaction saw what it would see running alone.  *)
(* A unique-index violation aborts: it is a guard.                         *)
(*                                                                         *)
(* One product is modelled; its items are numbered in createdAt order, and *)
(* so are the orders.  An order is named by its idempotency key, so        *)
(* `status[o] = "NONE"' says that no order with that key was stored.       *)
(***************************************************************************)
EXTENDS Integers, FiniteSets

CONSTANTS
    Users,      \* the customers
    Orders,     \* the orders that may be placed, one per idempotency key
    Items,      \* the rows of inventory_items of the product
    NoItem,     \* the inventoryItemId of an order that does not exist
    Buyer,      \* Buyer[o]: the user whose request places o
    BatchOf,    \* BatchOf[o]: the orders placed by the request that places o
    Quick,      \* orders with metadata.paymentRequestId (QR checkout)
    Opening,    \* Opening[u]: the wallet balance before any order
    Prices,     \* the unit prices the product may have
    Discounts,  \* the coupon discounts a batch may get
    Limit       \* product.purchaseLimitPerUser, 0 for none

VARIABLES
    status,      \* status[o]: order.status
    goods,       \* goods[o]: order.inventoryItemId
    total,       \* total[o]: order.totalAmount
    recovery,    \* recovery[o]: order.metadata.recoveryAction
    stock,       \* stock[i]: item.status, "DELETED" when deletedAt is set
    reservedFor, \* reservedFor[o]: the items whose reservedOrderId is o
    balance,     \* balance[u]: user.walletBalance
    active,      \* the users whose status is ACTIVE
    ledger       \* ledger[k][o]: amount of the wallet transaction whose
                 \* idempotency key is k with o, 0 when there is none

storeVars == <<status, goods, total, recovery, stock, reservedFor, balance,
               active, ledger>>

OrderStatus == {"NONE", "PENDING_DELIVERY", "DELIVERING", "DELIVERED",
                "DELIVERY_FAILED", "CANCELLED", "REFUNDED"}
ItemStatus == {"AVAILABLE", "RESERVED", "SOLD", "DISABLED", "DELETED"}
RecoveryAction == {"NONE", "RESEND", "REPLACE", "REFUND"}

(* The idempotency keys the order flows write: `purchase:<key>',           *)
(* `reservation-expired:<order>' and `delivery-refund:<order>'.            *)
LedgerKey == {"purchase", "reservation-expired", "delivery-refund"}

(* Orders still on their way to the customer, and orders that hold goods.  *)
Open == {"PENDING_DELIVERY", "DELIVERING"}
Live == Open \cup {"DELIVERY_FAILED"}

ASSUME KeysAreNumbers ==
    /\ Orders \subseteq Nat /\ IsFiniteSet(Orders)
    /\ Items \subseteq Nat /\ IsFiniteSet(Items)
    /\ NoItem \notin Items

ASSUME BatchesPartitionOrders ==
    /\ Buyer \in [Orders -> Users]
    /\ BatchOf \in [Orders -> SUBSET Orders]
    /\ \A o \in Orders : o \in BatchOf[o]
    /\ \A o \in Orders : \A p \in BatchOf[o] :
          /\ BatchOf[p] = BatchOf[o]
          /\ Buyer[p] = Buyer[o]
          /\ (p \in Quick) = (o \in Quick)

ASSUME AmountsAreNaturals ==
    /\ Opening \in [Users -> Nat]
    /\ Prices \subseteq Nat
    /\ Discounts \subseteq Nat
    /\ Limit \in Nat

StoreTypeOK ==
    /\ status \in [Orders -> OrderStatus]
    /\ goods \in [Orders -> Items \cup {NoItem}]
    /\ total \in [Orders -> Nat]
    /\ recovery \in [Orders -> RecoveryAction]
    /\ stock \in [Items -> ItemStatus]
    /\ reservedFor \in [Orders -> SUBSET Items]
    /\ balance \in [Users -> Int]
    /\ active \in SUBSET Users
    /\ ledger \in [LedgerKey -> [Orders -> Int]]

StoreInit ==
    /\ status = [o \in Orders |-> "NONE"]
    /\ goods = [o \in Orders |-> NoItem]
    /\ total = [o \in Orders |-> 0]
    /\ recovery = [o \in Orders |-> "NONE"]
    /\ stock = [i \in Items |-> "AVAILABLE"]
    /\ reservedFor = [o \in Orders |-> {}]
    /\ balance = Opening
    /\ active = Users
    /\ ledger = [k \in LedgerKey |-> [o \in Orders |-> 0]]

-----------------------------------------------------------------------------
(* Buying.                                                                 *)

Shelf == {i \in Items : stock[i] = "AVAILABLE"}

(* The position of o among the orders of its batch, from 0.                *)
IndexIn(o, b) == Cardinality({p \in b : p < o})

(* The share of a batch's discount that falls to the order at `index'.     *)
DiscountShare(discount, quantity, index) ==
    (discount \div quantity) + (IF index < discount % quantity THEN 1 ELSE 0)

(* Mutated: the remainder is dropped; every order gets the whole discount. *)
TotalsFloor(b, unit, discount) ==
    [o \in b |-> unit - discount \div Cardinality(b)]
TotalsWhole(b, unit, discount) == [o \in b |-> unit - discount]

(* totalAmount of each order of a batch of unit price `unit'.              *)
Totals(b, unit, discount) ==
    [o \in b |-> unit - DiscountShare(discount, Cardinality(b), IndexIn(o, b))]

(* The assignment of items that reserving one after the other in createdAt *)
(* order gives the orders of a batch.                                      *)
OldestFirst(pick) ==
    /\ \A o, p \in DOMAIN pick : o < p => pick[o] < pick[p]
    /\ \A i \in Shelf : (\E o \in DOMAIN pick : pick[o] = i)
                        \/ (\A o \in DOMAIN pick : pick[o] < i)

(* Mutated: the orders collection has no such index.                       *)
IndexAdmitsAny(i) == TRUE

(* The unique index { inventoryItemId: 1 } of the orders collection admits *)
(* an order for item i.                                                    *)
IndexAdmits(i) == \A o \in Orders : goods[o] # i

(* Mutated: only orders already delivered count.                           *)
WithinLimitDelivered(u, quantity) ==
    \/ Limit = 0
    \/ Cardinality({o \in Orders : Buyer[o] = u /\ status[o] = "DELIVERED"})
         + quantity <= Limit

WithinLimit(u, quantity) ==
    \/ Limit = 0
    \/ Cardinality({o \in Orders : /\ Buyer[o] = u
                                   /\ status[o] \notin {"NONE", "CANCELLED",
                                                        "REFUNDED"}})
         + quantity <= Limit

(* Reserve, store the orders, debit the wallet and write the ledger.       *)
PlaceOrders(b, u, tot, charge) ==
    /\ \A o \in b : status[o] = "NONE"
    /\ u \in active
    /\ balance[u] >= charge
    /\ WithinLimit(u, Cardinality(b))
    /\ \E pick \in [b -> Shelf] :
          /\ OldestFirst(pick)
          /\ \A o \in b : IndexAdmits(pick[o])
          /\ goods' = [o \in Orders |-> IF o \in b THEN pick[o] ELSE goods[o]]
          /\ stock' = [i \in Items |-> IF \E o \in b : pick[o] = i
                                       THEN "RESERVED" ELSE stock[i]]
          /\ reservedFor' = [o \in Orders |->
                IF o \in b THEN reservedFor[o] \cup {pick[o]}
                          ELSE reservedFor[o]]
    /\ status' = [o \in Orders |-> IF o \in b THEN "PENDING_DELIVERY"
                                              ELSE status[o]]
    /\ total' = [o \in Orders |-> IF o \in b THEN tot[o] ELSE total[o]]
    /\ balance' = [balance EXCEPT ![u] = @ - charge]
    /\ ledger' = [ledger EXCEPT !["purchase"] =
                     [o \in Orders |-> IF o \in b THEN -tot[o]
                                       ELSE ledger["purchase"][o]]]
    /\ UNCHANGED <<recovery, active>>

(* purchase(): one order at the full price.  A ledger row of amount 0 is   *)
(* refused by the schema, so a free product cannot be bought this way.     *)
BuyOne(o) ==
    \E unit \in Prices \ {0} :
        PlaceOrders({o}, Buyer[o], [p \in {o} |-> unit], unit)

(* createBatch(): the orders of one request, a coupon spread over them.    *)
BuyBatch(b, u) ==
    \E unit \in Prices \ {0}, discount \in Discounts :
        LET subtotal == unit * Cardinality(b) IN
        /\ discount <= subtotal
        /\ PlaceOrders(b, u, Totals(b, unit, discount), subtotal - discount)

-----------------------------------------------------------------------------
(* Giving goods and money back.                                            *)

(* users.credit() and the ledger row it is recorded by.                    *)
Credit(key, o) ==
    /\ Buyer[o] \in active
    /\ balance' = [balance EXCEPT ![Buyer[o]] = @ + total[o]]
    /\ ledger' = [ledger EXCEPT ![key][o] = total[o]]

(* Mutated: a failed or running delivery does not protect the item.        *)
ReleasableLate(o) == status[o] \in Live

(* releaseExpired() leaves an order alone once its delivery has begun.     *)
Releasable(o) == status[o] = "PENDING_DELIVERY"

(* One round of releaseExpired().  Time is not modelled: the reservation   *)
(* of an item may be found past its reservationExpiresAt whenever it is    *)
(* looked at, however often the maintenance run extends it.                *)
ReleaseReservation(i, o) ==
    /\ stock[i] = "RESERVED" /\ i \in reservedFor[o]
    /\ Releasable(o)
    /\ stock' = [stock EXCEPT ![i] = "AVAILABLE"]
    /\ reservedFor' = [reservedFor EXCEPT ![o] = @ \ {i}]
    /\ status' = [status EXCEPT ![o] = "CANCELLED"]
    /\ \/ total[o] = 0 /\ UNCHANGED <<balance, ledger>>
       \/ /\ total[o] > 0
          /\ ledger["reservation-expired"][o] = 0
          /\ Credit("reservation-expired", o)
    /\ UNCHANGED <<goods, total, recovery, active>>

(* Mutated: a refunded order may be recovered once more.                   *)
RecoverableTwice(o) == status[o] \in {"DELIVERY_FAILED", "REFUNDED"}

(* resend(), replace() and refund() take only a failed delivery.           *)
Recoverable(o) == status[o] = "DELIVERY_FAILED"

(* The update of resend(): back to the queue with the same item, and with  *)
(* the reservation window it already had.                                  *)
MarkResend(o) ==
    /\ Recoverable(o)
    /\ status' = [status EXCEPT ![o] = "PENDING_DELIVERY"]
    /\ recovery' = [recovery EXCEPT ![o] = "RESEND"]
    /\ UNCHANGED <<goods, total, stock, reservedFor, balance, active, ledger>>

(* The transaction of replace(): the old item is withdrawn, the oldest     *)
(* available one takes its place.                                          *)
MarkReplace(o) ==
    /\ Recoverable(o)
    /\ \E i \in Shelf :
          /\ \A j \in Shelf : i <= j
          /\ IndexAdmits(i)
          /\ stock' = [j \in Items |->
                IF j = i THEN "RESERVED"
                ELSE IF /\ j = goods[o] /\ j \in reservedFor[o]
                        /\ stock[j] = "RESERVED"
                THEN "DISABLED" ELSE stock[j]]
          /\ reservedFor' = [reservedFor EXCEPT ![o] = @ \cup {i}]
          /\ goods' = [goods EXCEPT ![o] = i]
    /\ status' = [status EXCEPT ![o] = "PENDING_DELIVERY"]
    /\ recovery' = [recovery EXCEPT ![o] = "REPLACE"]
    /\ UNCHANGED <<total, balance, active, ledger>>

(* refund(): wallet.credit() returns a row that is already there instead   *)
(* of crediting again; the item is withdrawn, never put back on the shelf. *)
Refund(o) ==
    /\ Recoverable(o)
    /\ \/ /\ total[o] = 0 \/ ledger["delivery-refund"][o] # 0
          /\ UNCHANGED <<balance, ledger>>
       \/ /\ total[o] > 0 /\ ledger["delivery-refund"][o] = 0
          /\ Credit("delivery-refund", o)
    /\ stock' = [i \in Items |-> IF i = goods[o] /\ stock[i] = "RESERVED"
                                 THEN "DISABLED" ELSE stock[i]]
    /\ status' = [status EXCEPT ![o] = "REFUNDED"]
    /\ recovery' = [recovery EXCEPT ![o] = "REFUND"]
    /\ UNCHANGED <<goods, total, reservedFor, active>>

-----------------------------------------------------------------------------
(* Administration.                                                         *)

(* removeItem(), and removeBatch() item by item: only what is available.   *)
RemoveItem(i) ==
    /\ stock[i] = "AVAILABLE"
    /\ stock' = [stock EXCEPT ![i] = "DELETED"]
    /\ UNCHANGED <<status, goods, total, recovery, reservedFor, balance,
                   active, ledger>>

(* An operator suspends a customer or lifts the suspension.                *)
ToggleUser(u) ==
    /\ active' = IF u \in active THEN active \ {u} ELSE active \cup {u}
    /\ UNCHANGED <<status, goods, total, recovery, stock, reservedFor, balance,
                   ledger>>
=============================================================================
