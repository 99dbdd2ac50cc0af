------------------------------- MODULE Payment -------------------------------
(***************************************************************************)
(* Requests for a bank transfer (payment_requests), from the QR code to    *)
(* the wallet and, for a quick checkout, to the orders it buys.  The bank  *)
(* reports a transfer at least once, by callback or when a history check   *)
(* asks for it; an administrator may approve a request by hand; a checkout *)
(* that was approved without orders is fulfilled under a lease.            *)
(*                                                                         *)
(* A database transaction is one step (see Store); the find before it in   *)
(* processBankTransaction(), and the steps of fulfilQuickCheckout(), are   *)
(* steps of their own.  One bank and one product are modelled, and the     *)
(* checkouts of today, which hold no stock (reservationMode SOFT).         *)
(***************************************************************************)
EXTENDS Coupon

CONSTANTS
    Customers, Requests, Transfers, Fulfillers,
    None,          \* no transfer, no request, no fulfiller
    Owner,         \* Owner[r]: the customer who asks for r
    Quantity,      \* Quantity[r]: how many items r buys, if it is a checkout
    Couponed,      \* checkouts made with the coupon
    UnitPrice, Opening, Shelf, Limit,
    Deposits,      \* the amounts a deposit may ask for
    Received,      \* the amounts a transfer may have
    Adjustments,   \* the amounts an administrator may add or take
    MayJam,        \* whether the shelf may hold an item no order can take
    MayStall,      \* whether a fulfiller may stand still for a minute
    MaxDocuments,  \* bound: requests and transfers in all
    MaxIncidents   \* bound: changes of the world around the payments, and
                   \* processes that stop or fail

VARIABLES
    request,    \* request[r]: the document
    wire,       \* wire[t]: the request a transfer names, and its amount
    handling,   \* transfers being processed, with the branch they are in
    answered,   \* transfers whose processing ended without an error
    work,       \* work[f]: the checkout fulfiller f is at, and how far
    bought,     \* the checkouts whose orders exist
    balance,    \* balance[u]: user.walletBalance
    ledger,     \* ledger[k]: the wallet transaction of key k, 0 for none
    active,     \* the users whose status is ACTIVE
    product,    \* product.status, DELETED when deletedAt is set
    stock,      \* the available items
    jammed,     \* the oldest of them is still in orders.inventoryItemId
    incidents   \* the changes and faults so far

docVars == <<request, wire, handling, answered>>
walletVars == <<balance, ledger>>
shopVars == <<active, product, stock, jammed>>
saleVars == <<shopVars, couponVars, bought>>
payVars == <<docVars, walletVars, saleVars, work, incidents>>

ASSUME PaymentConstants ==
    /\ Owner \in [Requests -> Customers]
    /\ Quantity \in [Requests -> Nat \ {0}]
    /\ Couponed \subseteq Requests
    /\ {UnitPrice, Opening, Shelf, Limit} \subseteq Nat
    /\ {MaxDocuments, MaxIncidents} \subseteq Nat
    /\ UnitPrice > 0 /\ {MayJam, MayStall} \subseteq BOOLEAN
    /\ Deposits \subseteq Nat \ {0} /\ Received \subseteq Nat \ {0}
    /\ Adjustments \subseteq Int \ {0}
    /\ None \notin Requests \cup Transfers \cup Fulfillers

RequestStatus == {"NONE", "PENDING", "EXPIRED", "APPROVED"}
CartStatus == {"NONE", "PENDING_PAYMENT", "PROCESSING", "FULFILLED", "FAILED"}
Branch == {"approve", "mismatch", "supplement", "fallback"}

(* The idempotency keys: deposit:bank:<transfer>, deposit:<admin key>,     *)
(* purchase:quickpay:<code>, a purchase by wallet, admin-wallet:<key>.     *)
Keys == ({"bank"} \X Transfers) \cup ({"hand", "purchase"} \X Requests)
        \cup ({"other", "admin"} \X Customers)

KeyOwner(k) == CASE k[1] = "bank" -> Owner[wire[k[2]].code]
                 [] k[1] \in {"hand", "purchase"} -> Owner[k[2]]
                 [] OTHER -> k[2]

Blank == [status |-> "NONE", amount |-> 0, reference |-> None, cart |-> "NONE",
          late |-> FALSE, cancelled |-> FALSE, holder |-> None, aged |-> FALSE]
NoWire == [code |-> None, amount |-> 0]
Rest == [on |-> None, step |-> "idle"]

(* Every variable has its type, a balance is never negative, and a lease   *)
(* has a holder (payment.service.ts:673-682).                              *)
PaymentTypeOK ==
    /\ request \in [Requests -> [status: RequestStatus, amount: Nat,
          reference: Transfers \cup {None}, cart: CartStatus, late: BOOLEAN,
          cancelled: BOOLEAN, holder: Fulfillers \cup {None}, aged: BOOLEAN]]
    /\ wire \in [Transfers -> [code: Requests \cup {None}, amount: Nat]]
    /\ handling \subseteq Transfers \X Branch /\ answered \subseteq Transfers
    /\ work \in [Fulfillers -> [on: Requests \cup {None},
                                step: {"idle", "buy", "done", "failed"}]]
    /\ bought \subseteq Requests
    /\ balance \in [Customers -> Nat] /\ ledger \in [Keys -> Int]
    /\ active \subseteq Customers /\ jammed \in BOOLEAN /\ stock \in Nat
    /\ product \in {"ACTIVE", "PAUSED", "DELETED"}
    /\ \A r \in Requests : request[r].cart = "PROCESSING"
                           => request[r].holder \in Fulfillers

PaymentInit ==
    /\ CouponInit
    /\ request = [r \in Requests |-> Blank]
    /\ wire = [t \in Transfers |-> NoWire]
    /\ handling = {} /\ answered = {} /\ bought = {}
    /\ work = [f \in Fulfillers |-> Rest]
    /\ balance = [u \in Customers |-> Opening]
    /\ ledger = [k \in Keys |-> 0]
    /\ active = Customers /\ product = "ACTIVE" /\ stock = Shelf
    /\ jammed = FALSE /\ incidents = 0

-----------------------------------------------------------------------------
(* The wallet.                                                             *)

Incident == incidents < MaxIncidents /\ incidents' = incidents + 1

(* Mutated: the balance is not looked at.                                  *)
PostOverdrawn(key, u, amount, allowInactive) ==
    /\ ledger[key] = 0 /\ (allowInactive \/ u \in active)
    /\ balance' = [balance EXCEPT ![u] = @ + amount]
    /\ ledger' = [ledger EXCEPT ![key] = amount]

(* applyChange(): a row that is there already is returned as it is.        *)
Post(key, u, amount, allowInactive) ==
    \/ ledger[key] # 0 /\ UNCHANGED walletVars
    \/ /\ ledger[key] = 0
       /\ allowInactive \/ u \in active
       /\ balance[u] + amount >= 0
       /\ balance' = [balance EXCEPT ![u] = @ + amount]
       /\ ledger' = [ledger EXCEPT ![key] = amount]

(* adminAdjust(): also for a suspended customer.                           *)
AdjustWallet(u) ==
    /\ Incident
    /\ \E a \in Adjustments : Post(<<"admin", u>>, u, a, TRUE)
    /\ UNCHANGED <<docVars, saleVars, work>>

-----------------------------------------------------------------------------
(* What a checkout buys.                                                   *)

IsCart(r) == request[r].cart # "NONE"
Subtotal(r) == UnitPrice * Quantity[r]

(* The orders a customer has: those of checkouts, and one bought by wallet.*)
OrdersOf(u) ==
    UNION {{r} \X (1..Quantity[r]) : r \in {q \in bought : Owner[q] = u}}
    \cup {k \in {<<None, 1>>} : ledger[<<"other", u>>] # 0}

WithinLimit(u, quantity) ==
    Limit = 0 \/ Cardinality(OrdersOf(u)) + quantity <= Limit

(* softCheckoutAvailability(): the quoted price is honoured when the       *)
(* product was paused meanwhile, not when it was deleted.                  *)
Available(r) ==
    /\ Owner[r] \in active
    /\ product # "DELETED"
    /\ WithinLimit(Owner[r], Quantity[r])
    /\ stock >= Quantity[r]

(* quoteBatchForPayment(): the price with the coupon, at this moment.      *)
Quote(r) == IF r \in Couponed
            THEN Subtotal(r) - Discount(terms, Subtotal(r)) ELSE Subtotal(r)

(* redeem() of createBatch(), at the total that the customer confirmed.    *)
CouponStands(r) ==
    r \in Couponed => CanRedeem(Owner[r], Subtotal(r), request[r].amount)

TakeCoupon(r) == IF r \in Couponed THEN Redeem(Owner[r], r)
                                   ELSE UNCHANGED couponVars

-----------------------------------------------------------------------------
(* Requests and their end without money.                                   *)

RequestOnly == UNCHANGED <<wire, handling, answered, walletVars, saleVars,
                           work, incidents>>

RoomForDocument ==
    Cardinality({r \in Requests : request[r].status # "NONE"})
      + Cardinality({t \in Transfers : wire[t] # NoWire}) < MaxDocuments

CreateDeposit(r) ==
    /\ request[r].status = "NONE" /\ RoomForDocument
    /\ \E a \in Deposits :
          request' = [request EXCEPT ![r].status = "PENDING", ![r].amount = a]
    /\ RequestOnly

(* One unexpired quick checkout per customer.                              *)
NoActiveQr(u) ==
    \A r \in Requests : Owner[r] = u /\ IsCart(r) =>
        request[r].status # "PENDING" \/ request[r].late

(* createBankCheckout(): a quote, and no stock taken.                      *)
CreateCheckout(r) ==
    /\ request[r].status = "NONE" /\ RoomForDocument
    /\ product = "ACTIVE" /\ Available(r)
    /\ r \in Couponed => Applies(Owner[r], Subtotal(r))
    /\ Quote(r) >= 1
    /\ NoActiveQr(Owner[r])
    /\ request' = [request EXCEPT ![r].status = "PENDING",
                                  ![r].amount = Quote(r),
                                  ![r].cart = "PENDING_PAYMENT"]
    /\ RequestOnly

(* cancelBankCheckout(): nothing once the request is not pending.          *)
Cancel(r) ==
    /\ request[r].status = "PENDING" /\ IsCart(r)
    /\ request' = [request EXCEPT ![r].status = "EXPIRED",
                                  ![r].cancelled = TRUE, ![r].cart = "FAILED"]
    /\ RequestOnly

(* metadata.expiresAt passes ...                                           *)
Lapse(r) ==
    /\ request[r].status = "PENDING" /\ ~request[r].late
    /\ request' = [request EXCEPT ![r].late = TRUE]
    /\ RequestOnly

(* ... and expireBankTopups() notices, some time later.                    *)
ExpireBankTopup(r) ==
    /\ request[r].status = "PENDING" /\ request[r].late
    /\ request' = [request EXCEPT ![r].status = "EXPIRED"]
    /\ RequestOnly

-----------------------------------------------------------------------------
(* Transfers.                                                              *)

(* A customer pays to the code of a request, the right amount or not.      *)
Transfer(t) ==
    /\ wire[t] = NoWire /\ RoomForDocument
    /\ \E r \in Requests : \E a \in Received \cup {request[r].amount} :
          /\ request[r].status # "NONE"
          /\ wire' = [wire EXCEPT ![t] = [code |-> r, amount |-> a]]
    /\ UNCHANGED <<request, handling, answered, walletVars, saleVars, work,
                   incidents>>

(* Mutated: the received amount is not compared with the request's.        *)
BranchOfAnyAmount(t) ==
    LET r == request[wire[t].code] IN
    IF r.status = "APPROVED" /\ r.reference # t THEN "supplement"
    ELSE "approve"

(* What processBankTransaction() decides on the request it found.          *)
BranchOf(t) ==
    LET r == request[wire[t].code] IN
    CASE r.amount # wire[t].amount -> "mismatch"
      [] r.amount = wire[t].amount /\ r.status = "APPROVED"
         /\ r.reference # t -> "supplement"
      [] OTHER -> "approve"

(* A callback of the bank, or a history check that lists the transfer.     *)
Find(t) ==
    /\ wire[t] # NoWire
    /\ handling' = handling \cup {<<t, BranchOf(t)>>}
    /\ UNCHANGED <<request, wire, answered, walletVars, saleVars, work,
                   incidents>>

Leave(t, branch) == handling' = handling \ {<<t, branch>>}
Answer(t, branch) == Leave(t, branch) /\ answered' = answered \cup {t}

(* creditReceivedFunds(), under the key of the transfer.                   *)
Bank(t, amount) ==
    Post(<<"bank", t>>, Owner[wire[t].code], amount, TRUE)

(* creditSupplementalBankTransfer(): on what was read before.              *)
Supplement(t) ==
    /\ <<t, "supplement">> \in handling
    /\ Bank(t, wire[t].amount) /\ Answer(t, "supplement")
    /\ UNCHANGED <<request, wire, saleVars, work, incidents>>

(* Mutated: an expired request takes no money.                             *)
UnpaidOpen(r) == request[r].status = "PENDING"

Unpaid(r) == request[r].status \in {"PENDING", "EXPIRED"}

(* The request becomes that of transfer t; a cart ends as `cart'.          *)
Claim(r, t, cart) ==
    request' = [request EXCEPT ![r].status = "APPROVED", ![r].reference = t,
                               ![r].cart = IF IsCart(r) THEN cart ELSE "NONE"]

(* reconcileMismatchedBankTransfer(): whatever came is credited.           *)
Mismatch(t) ==
    LET r == wire[t].code IN
    /\ <<t, "mismatch">> \in handling
    /\ Answer(t, "mismatch")
    /\ \/ /\ request[r].reference = t
          /\ UNCHANGED <<request, walletVars>>
       \/ /\ request[r].status = "APPROVED" /\ request[r].reference # t
          /\ Bank(t, wire[t].amount) /\ UNCHANGED request
       \/ /\ Unpaid(r)
          /\ Claim(r, t, "FAILED") /\ Bank(t, wire[t].amount)
    /\ UNCHANGED <<wire, saleVars, work, incidents>>

(* Mutated: the expiry is left to the maintenance to notice.               *)
InTimeBySweep(r) == request[r].status = "PENDING"

(* Not expired, not cancelled, and not past the deadline right now.        *)
InTime(r) == request[r].status = "PENDING" /\ ~request[r].late

(* approveBankRequest() when the request was approved before.              *)
ApproveAgain(t) ==
    LET r == wire[t].code IN
    /\ <<t, "approve">> \in handling /\ request[r].status = "APPROVED"
    /\ IF request[r].reference = t THEN UNCHANGED walletVars
                                   ELSE Bank(t, request[r].amount)
    /\ Answer(t, "approve")
    /\ UNCHANGED <<request, wire, saleVars, work, incidents>>

(* approveBankRequest(), money without a sale: a deposit, or a checkout    *)
(* that is late, cancelled or no longer available.                         *)
ApproveMoney(t) ==
    LET r == wire[t].code IN
    /\ <<t, "approve">> \in handling /\ Unpaid(r)
    /\ ~(IsCart(r) /\ InTime(r) /\ Available(r))
    /\ Claim(r, t, "FAILED") /\ Bank(t, request[r].amount)
    /\ Answer(t, "approve")
    /\ UNCHANGED <<wire, saleVars, work, incidents>>

(* The orders of r, paid from the wallet (createBatch()).                  *)
Sell(r) ==
    /\ stock' = stock - Quantity[r]
    /\ bought' = bought \cup {r}
    /\ TakeCoupon(r)

(* approveBankRequest(), money and sale in one transaction.  The total of  *)
(* the orders is what came in, so that the balance stays.                  *)
ApproveSale(t) ==
    LET r == wire[t].code IN
    /\ <<t, "approve">> \in handling /\ Unpaid(r)
    /\ IsCart(r) /\ InTime(r) /\ Available(r) /\ CouponStands(r) /\ ~jammed
    /\ Claim(r, t, "FULFILLED")
    /\ Sell(r)
    /\ ledger' = [ledger EXCEPT ![<<"bank", t>>] = request[r].amount,
                                ![<<"purchase", r>>] = -request[r].amount]
    /\ Answer(t, "approve")
    /\ UNCHANGED <<wire, balance, active, product, jammed, work, incidents>>

(* COUPON_UNAVAILABLE aborts the transaction and the money is credited in  *)
(* another one; a duplicate key aborts it and nothing follows.             *)
ApproveAborts(t) ==
    LET r == wire[t].code IN
    /\ <<t, "approve">> \in handling /\ Unpaid(r)
    /\ IsCart(r) /\ InTime(r) /\ Available(r)
    /\ \/ /\ ~CouponStands(r)
          /\ handling' = (handling \ {<<t, "approve">>})
                         \cup {<<t, "fallback">>}
          /\ UNCHANGED answered
       \/ CouponStands(r) /\ jammed /\ Answer(t, "approve")
    /\ UNCHANGED <<request, wire, walletVars, saleVars, work, incidents>>

(* reconcileFailedSoftCheckout(); when another transfer was faster the     *)
(* error surfaces and the bank tries again.                                *)
Fallback(t) ==
    LET r == wire[t].code IN
    /\ <<t, "fallback">> \in handling
    /\ \/ /\ Unpaid(r) /\ Claim(r, t, "FAILED") /\ Bank(t, request[r].amount)
          /\ Answer(t, "fallback")
       \/ /\ request[r].reference = t /\ UNCHANGED <<request, walletVars>>
          /\ Answer(t, "fallback")
       \/ /\ request[r].status = "APPROVED" /\ request[r].reference # t
          /\ UNCHANGED <<request, walletVars, answered>>
          /\ Leave(t, "fallback")
    /\ UNCHANGED <<wire, saleVars, work, incidents>>

(* The process stops, or the database fails, before the transaction.       *)
CallbackFails(t) ==
    /\ Incident
    /\ \E b \in Branch : <<t, b>> \in handling /\ Leave(t, b)
    /\ UNCHANGED <<request, wire, answered, walletVars, saleVars, work>>

(* approveAs(): by hand, and without a transfer.                           *)
ApproveByHand(r) ==
    /\ request[r].status = "PENDING"
    /\ request' = [request EXCEPT ![r].status = "APPROVED"]
    /\ Post(<<"hand", r>>, Owner[r], request[r].amount, FALSE)
    /\ UNCHANGED <<wire, handling, answered, saleVars, work, incidents>>

-----------------------------------------------------------------------------
(* fulfillQuickCheckout(): after a check of the customer, a repeated       *)
(* callback or a round of the maintenance.                                 *)

(* Mutated: nobody takes over what a stopped process left.                 *)
LeasableOnce(r) == request[r].status = "APPROVED"
                   /\ request[r].cart = "PENDING_PAYMENT"

(* Approved, not begun, or begun more than a minute ago.                   *)
Leasable(r) ==
    /\ request[r].status = "APPROVED"
    /\ \/ request[r].cart = "PENDING_PAYMENT"
       \/ request[r].cart = "PROCESSING" /\ request[r].aged

TakeLease(f, r) ==
    /\ work[f] = Rest /\ Leasable(r)
    /\ request' = [request EXCEPT ![r].cart = "PROCESSING", ![r].holder = f,
                                  ![r].aged = FALSE]
    /\ work' = [work EXCEPT ![f] = [on |-> r, step |-> "buy"]]
    /\ UNCHANGED <<wire, handling, answered, walletVars, saleVars, incidents>>

(* A minute passes.  A function is stopped after 60 seconds (maxDuration   *)
(* of the routes and vercel.json), so that a holder is gone by then; only  *)
(* a server that stalls could still be at it (MayStall).                   *)
LeaseAges(r) ==
    /\ request[r].cart = "PROCESSING" /\ ~request[r].aged
    /\ MayStall \/ work[request[r].holder].on # r
    /\ request' = [request EXCEPT ![r].aged = TRUE]
    /\ RequestOnly

Step(f, s) == work' = [work EXCEPT ![f].step = s]

(* Mutated: orders that exist already are bought again.                    *)
KnownBatchNever(r) == FALSE

(* purchaseBatch() finds the orders of the checkout by their keys.         *)
KnownBatch(r) == r \in bought

(* purchaseBatch(): the orders that exist, new ones, or an error.          *)
Purchase(f) ==
    LET r == work[f].on
        sold == /\ Available(r) /\ CouponStands(r) /\ ~jammed
                /\ balance[Owner[r]] >= request[r].amount IN
    /\ work[f].step = "buy"
    /\ \/ KnownBatch(r) /\ Step(f, "done")
          /\ UNCHANGED <<walletVars, stock, bought, couponVars>>
       \/ /\ ~KnownBatch(r) /\ sold /\ Step(f, "done")
          /\ Sell(r)
          /\ balance' = [balance EXCEPT ![Owner[r]] = @ - request[r].amount]
          /\ ledger' = [ledger EXCEPT ![<<"purchase", r>>] =
                                          @ - request[r].amount]
       \/ ~KnownBatch(r) /\ ~sold /\ Step(f, "failed")
          /\ UNCHANGED <<walletVars, stock, bought, couponVars>>
    /\ UNCHANGED <<docVars, active, product, jammed, incidents>>

HoldsLease(f, r) == request[r].cart = "PROCESSING" /\ request[r].holder = f

(* finishQuickCheckoutLease(): only while the lease is still its own.      *)
FinishLease(f) ==
    LET r == work[f].on IN
    /\ work[f].step \in {"done", "failed"}
    /\ IF HoldsLease(f, r)
       THEN request' = [request EXCEPT ![r].cart =
               IF work[f].step = "done" THEN "FULFILLED" ELSE "FAILED"]
       ELSE UNCHANGED request
    /\ work' = [work EXCEPT ![f] = Rest]
    /\ UNCHANGED <<wire, handling, answered, walletVars, saleVars, incidents>>

(* The process dies, before or after the orders are stored.                *)
FulfillerStops(f) ==
    /\ work[f] # Rest
    /\ Incident
    /\ work' = [work EXCEPT ![f] = Rest]
    /\ UNCHANGED <<docVars, walletVars, saleVars>>

-----------------------------------------------------------------------------
(* What else goes on: the customer buys by wallet, an operator suspends    *)
(* the customer or withdraws the product, items are added or sold, the     *)
(* coupon is edited.                                                       *)

BuyByWallet(u) ==
    /\ u \in active /\ product = "ACTIVE" /\ WithinLimit(u, 1)
    /\ stock > 0 /\ ~jammed
    /\ ledger[<<"other", u>>] = 0
    /\ Post(<<"other", u>>, u, -UnitPrice, FALSE)
    /\ stock' = stock - 1
    /\ UNCHANGED <<active, product, jammed, couponVars>>

Surroundings ==
    /\ \/ /\ \E u \in Customers : active' = (active \ {u}) \cup ({u} \ active)
          /\ UNCHANGED <<product, stock, jammed, couponVars>>
       \/ /\ product' \in {"ACTIVE", "PAUSED", "DELETED"} \ {product}
          /\ product # "DELETED"
          /\ UNCHANGED <<active, stock, jammed, couponVars>>
       \/ /\ stock' \in {stock - 1, stock + 1} \cap Nat
          /\ UNCHANGED <<active, product, jammed, couponVars>>
       \/ /\ MayJam /\ ~jammed /\ jammed' = TRUE /\ stock' = stock + 1
          /\ UNCHANGED <<active, product, couponVars>>
       \/ /\ \E c \in Terms : EditCoupon(c)
          /\ UNCHANGED shopVars
    /\ UNCHANGED walletVars

ElsewhereInTheShop ==
    /\ Incident
    /\ Surroundings \/ \E u \in Customers : BuyByWallet(u)
    /\ UNCHANGED <<docVars, work, bought>>

-----------------------------------------------------------------------------
Ask == \E r \in Requests : \/ CreateDeposit(r) \/ CreateCheckout(r)
                           \/ Cancel(r) \/ Lapse(r) \/ ExpireBankTopup(r)
                           \/ ApproveByHand(r) \/ LeaseAges(r)

Approve(t) == \/ ApproveAgain(t) \/ ApproveMoney(t) \/ ApproveSale(t)
              \/ ApproveAborts(t)

Process(t) == Approve(t) \/ Supplement(t) \/ Mismatch(t) \/ Fallback(t)

Report == \E t \in Transfers : \/ Transfer(t) \/ Find(t) \/ Process(t)
                               \/ CallbackFails(t)

Fulfill == \E f \in Fulfillers : \/ \E r \in Requests : TakeLease(f, r)
                                 \/ Purchase(f) \/ FinishLease(f)
                                 \/ FulfillerStops(f)

PaymentNext == \/ Ask \/ Report \/ Fulfill \/ ElsewhereInTheShop
               \/ \E u \in Customers : AdjustWallet(u)

PaymentSpec == PaymentInit /\ [][PaymentNext]_payVars

(* Nothing is assumed of customers or administrators.  The bank repeats a  *)
(* transfer until it is answered ("Cake delivers at least once and retries *)
(* non-2xx responses"), a process that is not stopped goes on, a minute    *)
(* passes, and the maintenance looks for approved checkouts again and      *)
(* again (recoverApprovedQuickCheckouts()).                                *)
PaymentFairness ==
    /\ \A t \in Transfers :
          /\ WF_payVars(t \notin answered /\ Find(t))
          /\ WF_payVars(Approve(t)) /\ WF_payVars(Supplement(t))
          /\ WF_payVars(Mismatch(t)) /\ WF_payVars(Fallback(t))
    /\ \A f \in Fulfillers : WF_payVars(Purchase(f) \/ FinishLease(f))
    /\ \A r \in Requests :
          /\ WF_payVars(LeaseAges(r))
          /\ WF_payVars(\E f \in Fulfillers : TakeLease(f, r))

FairPayments == PaymentSpec /\ PaymentFairness

-----------------------------------------------------------------------------
(* What the wallet keeps under the key of a transfer.                      *)
CreditOf(t) == ledger[<<"bank", t>>]

-----------------------------------------------------------------------------
(* Safety.                                                                 *)

(* "Preserve every dong in the customer's wallet. Unexpected database      *)
(* failures still surface so Cake retries" (payment.service.ts:486-489):   *)
(* a transfer that was answered without an error is in the wallet with the *)
(* amount that arrived, whatever became of the request, and no transfer is *)
(* there with another amount.                                              *)
AnsweredIsCredited ==
    \A t \in Transfers :
        /\ t \in answered => CreditOf(t) = wire[t].amount
        /\ CreditOf(t) \in {0, wire[t].amount}

(* A checkout paid by a transfer has its orders or has the money back, and *)
(* is never half way: the transaction of approveBankRequest() writes all   *)
(* of it.  One that was approved by hand is FULFILLED only with orders,    *)
(* FAILED only without ("FAILED checkouts have already released their      *)
(* stock", payment.service.ts:666), and pays for them once.                *)
CheckoutMatchesOrders ==
    \A r \in Requests :
        /\ request[r].cart = "FULFILLED" => r \in bought
        /\ request[r].cart \in {"NONE", "PENDING_PAYMENT", "FAILED"}
           => r \notin bought
        /\ request[r].reference # None =>
              request[r].cart \in {"NONE", "FULFILLED", "FAILED"}
        /\ ledger[<<"purchase", r>>] =
              IF r \in bought THEN -request[r].amount ELSE 0

(* "A cancellation that wins turns the QR into a late payment, so any      *)
(* later transfer is credited to the wallet without buying"                *)
(* (payment.service.ts:183-185): a transfer sells only what was open, in   *)
(* time and asked for with this very amount, and a checkout that failed or *)
(* was cancelled never sells anything again.                               *)
OnlyTimelyMoneyBuys ==
    [][/\ \A r \in bought' \ bought :
            /\ request[r].cart # "FAILED" /\ ~request[r].cancelled
            /\ request[r].status = "PENDING" =>
                  /\ ~request[r].late
                  /\ wire[request'[r].reference].amount = request[r].amount
       /\ bought \subseteq bought']_payVars

(* "The coupon write serializes all redemptions" (coupons.service.ts:163): *)
(* the counter is the number of redemptions, a redemption has its orders,  *)
(* and the limit of the coupon (usageLimit) is exceeded neither by a race  *)
(* of checkouts nor by an edit in between.                                 *)
CouponBooks ==
    /\ uses = Cardinality(redeemed) /\ uses <= terms.limit
    /\ redeemed = {<<Owner[r], r>> : r \in bought \cap Couponed}

(* "...all redemptions, including per-user counts" (coupons.service.ts:163 *)
(* and 152): whoever redeems the coupon once more is then still within the *)
(* number of uses that the terms in force give each customer (the property *)
(* speaks of the redemption, because an edit may lower perUserLimit below  *)
(* what a customer has used already).                                      *)
OwnLimitKept ==
    [][\A u \in Customers :
          UsesOf(u)' > UsesOf(u) => UsesOf(u)' <= terms'.perUser]_payVars

(* What the till promises of transfers and requests.                       *)
FateOf(r) ==
    CASE r \in bought -> "sold"
      [] r \notin bought /\ request[r].status = "APPROVED" /\ IsCart(r)
         /\ request[r].cart # "FAILED" -> "vouched"
      [] r \notin bought /\ request[r].status = "APPROVED"
         /\ (~IsCart(r) \/ request[r].cart = "FAILED") -> "kept"
      [] OTHER -> "open"

Promise == INSTANCE Till WITH
    arrived <- [t \in Transfers |-> wire[t].amount],
    credited <- [t \in Transfers |-> CreditOf(t)],
    fate <- [r \in Requests |-> FateOf(r)]

HonoursTill == Promise!TillSpec

-----------------------------------------------------------------------------
(* Liveness.                                                               *)

(* A transfer the bank reports is in the wallet some day.                  *)
TransferArrives ==
    \A t \in Transfers : wire[t] # NoWire ~> CreditOf(t) # 0

(* A checkout that was approved by hand does not stay approved without     *)
(* orders: it is fulfilled, or fails with the money in the wallet.         *)
ApprovedCheckoutEnds ==
    \A r \in Requests :
        request[r].status = "APPROVED" /\ IsCart(r)
        ~> request[r].cart \in {"FULFILLED", "FAILED"}
=============================================================================
