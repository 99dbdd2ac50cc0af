----------------------------- MODULE SaleProofs ------------------------------
(***************************************************************************)
(* A checkout and its orders agree, and payments keep what module Till     *)
(* promises, for any number of customers, requests, transfers and          *)
(* fulfillers, when no fulfiller outlives its lease.  The lease makes its  *)
(* holder the only one at work on a checkout; a request that is not        *)
(* approved has neither money nor orders; and a transfer is in the wallet  *)
(* only after its request was approved.                                    *)
(***************************************************************************)
EXTENDS PaymentProofs, FiniteSetTheorems

CartOK(r) ==
    /\ request[r].status # "APPROVED"
       => /\ request[r].reference = None
          /\ request[r].cart \notin {"PROCESSING", "FULFILLED"}
    /\ request[r].cart = "FULFILLED" => r \in bought
    /\ r \in bought => request[r].cart \in {"PROCESSING", "FULFILLED"}
    /\ request[r].reference # None
       => request[r].cart \in {"NONE", "FULFILLED", "FAILED"}
    /\ ledger[<<"purchase", r>>] =
          IF r \in bought THEN -request[r].amount ELSE 0

(* Who is at work holds a lease that has not run out.                      *)
WorkOK(f) ==
    work[f].step # "idle" =>
        /\ request[work[f].on].cart = "PROCESSING"
        /\ request[work[f].on].holder = f
        /\ ~request[work[f].on].aged
        /\ work[f].step = "done" => work[f].on \in bought
        /\ work[f].step = "failed" => work[f].on \notin bought

CartInvariant == /\ MoneyInvariant /\ \A r \in Requests : CartOK(r)
                 /\ \A f \in Fulfillers : WorkOK(f)

-----------------------------------------------------------------------------
LEMMA PurchaseKeys ==
    ASSUME NEW r \in Requests
    PROVE  /\ <<"purchase", r>> \in Keys
           /\ \A q \in Requests : q # r
                 => <<"purchase", q>> # <<"purchase", r>>
           /\ \A x : /\ <<"hand", x>> # <<"purchase", r>>
                     /\ <<"bank", x>> # <<"purchase", r>>
                     /\ <<"other", x>> # <<"purchase", r>>
                     /\ <<"admin", x>> # <<"purchase", r>>
BY DEF Keys

(* A step on request r that leaves other checkouts alone.                  *)
LEMMA OneCart ==
    ASSUME CartInvariant, MoneyInvariant', NEW r \in Requests, Others(r),
           CartOK(r)', UNCHANGED work,
           \A q \in Requests \ {r} :
              /\ q \in bought' <=> q \in bought
              /\ ledger'[<<"purchase", q>>] = ledger[<<"purchase", q>>],
           \A f \in Fulfillers :
              work[f].step # "idle" /\ work[f].on = r => WorkOK(f)'
    PROVE  CartInvariant'
<1>1. ASSUME NEW q \in Requests PROVE CartOK(q)'
  <2>1. CASE q = r
    BY <2>1
  <2>2. CASE q # r
    BY <2>2 DEF CartInvariant, CartOK, Others
  <2>. QED  BY <2>1, <2>2
<1>2. ASSUME NEW f \in Fulfillers PROVE WorkOK(f)'
  <2>1. CASE work[f].step # "idle" /\ work[f].on # r
    <3>1. work[f].on \in Requests \ {r} /\ WorkOK(f)
      BY <2>1 DEF CartInvariant, MoneyInvariant, BuysForRequest
    <3>2. /\ request'[work[f].on] = request[work[f].on]
          /\ work[f].on \in bought' <=> work[f].on \in bought
      BY <3>1 DEF Others
    <3>. QED  BY <3>1, <3>2 DEF WorkOK
  <2>2. CASE work[f].step = "idle"
    BY <2>2 DEF WorkOK
  <2>. QED  BY <2>1, <2>2
<1>. QED  BY <1>1, <1>2 DEF CartInvariant

(* A step that changes no request and no checkout.                         *)
LEMMA NoCart ==
    ASSUME CartInvariant, MoneyInvariant',
           UNCHANGED <<request, work, bought>>,
           \A q \in Requests :
              ledger'[<<"purchase", q>>] = ledger[<<"purchase", q>>]
    PROVE  CartInvariant'
BY DEF CartInvariant, CartOK, WorkOK

LEMMA CartsBegin == PaymentInit => CartInvariant
<1>. SUFFICES ASSUME PaymentInit PROVE CartInvariant
  OBVIOUS
<1>1. ASSUME NEW r \in Requests PROVE CartOK(r)
  BY PurchaseKeys DEF PaymentInit, CartOK, Blank
<1>2. ASSUME NEW f \in Fulfillers PROVE WorkOK(f)
  BY DEF PaymentInit, WorkOK, Rest
<1>. QED  BY <1>1, <1>2, MoneyBegins DEF CartInvariant

(* Nobody is at work on a request that is not approved.                    *)
LEMMA NobodyAtWork ==
    ASSUME CartInvariant, NEW r \in Requests,
           request[r].status # "APPROVED" \/ request[r].cart # "PROCESSING",
           NEW f \in Fulfillers, work[f].step # "idle"
    PROVE  work[f].on # r
<1>1. request[work[f].on].cart = "PROCESSING"
  BY DEF CartInvariant, WorkOK
<1>2. request[r].cart # "PROCESSING"
  BY DEF CartInvariant, CartOK
<1>. QED  BY <1>1, <1>2

LEMMA AskKeepsCarts ==
    ASSUME CartInvariant, MoneyInvariant', NEW r \in Requests,
           \/ CreateDeposit(r) \/ CreateCheckout(r) \/ Cancel(r) \/ Lapse(r)
           \/ ExpireBankTopup(r)
    PROVE  CartInvariant'
<1>1. /\ request[r].status # "APPROVED"
      /\ request \in [Requests -> Documents]
      /\ CartOK(r) /\ r \notin bought
  BY DEF CreateDeposit, CreateCheckout, Cancel, Lapse, ExpireBankTopup,
         CartInvariant, CartOK, MoneyInvariant, PaymentTypeOK, Documents
<1>2. Others(r) /\ RequestOnly
  BY AskIsOfRequest DEF CartInvariant, MoneyInvariant
<1>3. /\ request'[r].status # "APPROVED"
      /\ request'[r].reference = request[r].reference
      /\ request'[r].cart \notin {"PROCESSING", "FULFILLED"}
  <2>1. CASE CreateDeposit(r)
    <3>1. PICK a \in Deposits : request' = [request EXCEPT
              ![r] = [request[r] EXCEPT !.status = "PENDING", !.amount = a]]
      BY <1>1, <2>1 DEF CreateDeposit, Documents
    <3>2. /\ request'[r].status = "PENDING"
          /\ request'[r].reference = request[r].reference
          /\ request'[r].cart = request[r].cart
      BY <1>1, <3>1 DEF Documents
    <3>. QED  BY <1>1, <3>2 DEF CartOK
  <2>2. CASE CreateCheckout(r)
    BY <1>1, <2>2 DEF CreateCheckout, Documents, CartOK
  <2>3. CASE Cancel(r)
    BY <1>1, <2>3 DEF Cancel, Documents, CartOK
  <2>4. CASE Lapse(r)
    BY <1>1, <2>4 DEF Lapse, Documents, CartOK
  <2>5. CASE ExpireBankTopup(r)
    BY <1>1, <2>5 DEF ExpireBankTopup, Documents, CartOK
  <2>. QED  BY <2>1, <2>2, <2>3, <2>4, <2>5
<1>4. CartOK(r)'
  BY <1>1, <1>2, <1>3 DEF CartOK, RequestOnly, walletVars, saleVars
<1>. QED
  BY <1>1, <1>2, <1>4, NobodyAtWork, OneCart
  DEF RequestOnly, walletVars, saleVars

LEMMA AgesKeepsCarts ==
    ASSUME ~MayStall, CartInvariant, MoneyInvariant', NEW r \in Requests,
           LeaseAges(r)
    PROVE  CartInvariant'
<1>1. Others(r) /\ RequestOnly
  BY AskIsOfRequest DEF CartInvariant, MoneyInvariant
<1>2. request[r].cart = "PROCESSING" /\ request \in [Requests -> Documents]
  BY DEF LeaseAges, CartInvariant, MoneyInvariant, PaymentTypeOK, Documents
<1>3. /\ request'[r].status = request[r].status
      /\ request'[r].reference = request[r].reference
      /\ request'[r].cart = request[r].cart
      /\ request'[r].amount = request[r].amount
  BY <1>2 DEF LeaseAges, Documents
<1>4. CartOK(r)'
  BY <1>1, <1>3 DEF CartInvariant, CartOK, RequestOnly, walletVars, saleVars
<1>5. ASSUME NEW f \in Fulfillers, work[f].step # "idle"
      PROVE  work[f].on # r
  BY <1>5 DEF LeaseAges, CartInvariant, WorkOK
<1>. QED
  BY <1>1, <1>4, <1>5, OneCart DEF RequestOnly, walletVars, saleVars

LEMMA ByHandKeepsCarts ==
    ASSUME CartInvariant, MoneyInvariant', NEW r \in Requests,
           ApproveByHand(r)
    PROVE  CartInvariant'
<1>1. request \in [Requests -> Documents] /\ ledger \in [Keys -> Int]
  BY DEF CartInvariant, MoneyInvariant, PaymentTypeOK, Documents
<1>2. /\ Others(r)
      /\ request'[r].reference = request[r].reference
      /\ request'[r].cart = request[r].cart
      /\ request'[r].amount = request[r].amount
      /\ request'[r].status = "APPROVED"
  BY <1>1 DEF ApproveByHand, Documents, Others
<1>3. \A q \in Requests :
        ledger'[<<"purchase", q>>] = ledger[<<"purchase", q>>]
  <2>1. <<"hand", r>> \in Keys /\ request[r].amount \in Int
    BY <1>1 DEF Keys, Documents
  <2>. QED  BY <1>1, <2>1, PurchaseKeys, PostKeepsRows DEF ApproveByHand
<1>4. CartOK(r)'
  BY <1>2, <1>3
  DEF CartInvariant, CartOK, ApproveByHand, saleVars
<1>. QED
  BY <1>2, <1>3, <1>4, NobodyAtWork, OneCart DEF ApproveByHand, saleVars

-----------------------------------------------------------------------------
(* Transactions of transfers.                                              *)

LEMMA BankKeepsPurchases ==
    ASSUME CartInvariant, NEW t \in Transfers, NEW amount \in Int,
           Bank(t, amount), NEW q \in Requests
    PROVE  ledger'[<<"purchase", q>>] = ledger[<<"purchase", q>>]
<1>1. ledger \in [Keys -> Int]
  BY DEF CartInvariant, MoneyInvariant, PaymentTypeOK
<1>. QED  BY <1>1, KeysDiffer, PurchaseKeys, PostKeepsRows DEF Bank

(* A request that is claimed without a sale.                               *)
LEMMA ClaimKeepsCarts ==
    ASSUME CartInvariant, MoneyInvariant', NEW t \in Transfers,
           NEW r \in Requests, Unpaid(r), Claim(r, t, "FAILED"),
           UNCHANGED <<work, bought>>,
           \A q \in Requests :
              ledger'[<<"purchase", q>>] = ledger[<<"purchase", q>>]
    PROVE  CartInvariant'
<1>1. /\ request[r].status # "APPROVED" /\ CartOK(r) /\ r \notin bought
      /\ request \in [Requests -> Documents]
  BY DEF Unpaid, CartInvariant, CartOK, MoneyInvariant, PaymentTypeOK,
         Documents
<1>2. /\ request'[r].status = "APPROVED" /\ Others(r)
      /\ request'[r].cart \in {"FAILED", "NONE"}
  BY <1>1, ClaimIsOfRequest
  DEF Claim, CartInvariant, MoneyInvariant, Documents
<1>3. CartOK(r)'
  BY <1>1, <1>2 DEF CartOK
<1>. QED  BY <1>1, <1>2, <1>3, NobodyAtWork, OneCart

LEMMA HandledRequest ==
    ASSUME CartInvariant, NEW t \in Transfers, NEW b \in Branch,
           <<t, b>> \in handling
    PROVE  \E r \in Requests :
              /\ r = wire[t].code /\ wire[t].amount \in Int
              /\ request[r].amount \in Int
<1>1. wire[t].code \in Requests
  BY DEF CartInvariant, MoneyInvariant, Books, HandledIsWired
<1>2. /\ request \in [Requests -> Documents]
      /\ wire[t].amount \in Nat
  BY DEF CartInvariant, MoneyInvariant, PaymentTypeOK, Documents
<1>3. request[wire[t].code].amount \in Int
  BY <1>1, <1>2 DEF Documents
<1>. QED  BY <1>1, <1>2, <1>3

LEMMA CreditKeepsCarts ==
    ASSUME CartInvariant, MoneyInvariant', NEW t \in Transfers,
           \/ Supplement(t) \/ Mismatch(t) \/ ApproveAgain(t)
           \/ ApproveMoney(t) \/ ApproveAborts(t) \/ Fallback(t)
           \/ CallbackFails(t)
    PROVE  CartInvariant'
<1>1. UNCHANGED <<work, bought>>
  BY DEF Supplement, Mismatch, ApproveAgain, ApproveMoney, ApproveAborts,
         Fallback, CallbackFails, saleVars
<1>. \E b \in Branch : <<t, b>> \in handling
  BY DEF Supplement, Mismatch, ApproveAgain, ApproveMoney, ApproveAborts,
         Fallback, CallbackFails, Branch
<1>. PICK r \in Requests : /\ r = wire[t].code /\ wire[t].amount \in Int
                           /\ request[r].amount \in Int
  BY HandledRequest
<1>. DEFINE Quiet == UNCHANGED walletVars \/ Bank(t, wire[t].amount)
                     \/ Bank(t, request[r].amount)
<1>2. Quiet /\ (UNCHANGED request \/ (Unpaid(r) /\ Claim(r, t, "FAILED")))
  <2>1. CASE Supplement(t)
    BY <2>1 DEF Supplement
  <2>2. CASE Mismatch(t)
    BY <2>2 DEF Mismatch
  <2>3. CASE ApproveAgain(t)
    BY <2>3 DEF ApproveAgain
  <2>4. CASE ApproveMoney(t)
    BY <2>4 DEF ApproveMoney
  <2>5. CASE ApproveAborts(t) \/ CallbackFails(t)
    BY <2>5 DEF ApproveAborts, CallbackFails
  <2>6. CASE Fallback(t)
    BY <2>6 DEF Fallback
  <2>. QED  BY <2>1, <2>2, <2>3, <2>4, <2>5, <2>6
<1>3. \A q \in Requests :
        ledger'[<<"purchase", q>>] = ledger[<<"purchase", q>>]
  BY <1>1, <1>2, BankKeepsPurchases DEF walletVars
<1>. QED  BY <1>1, <1>2, <1>3, NoCart, ClaimKeepsCarts

LEMMA SaleKeepsCarts ==
    ASSUME CartInvariant, MoneyInvariant', NEW t \in Transfers,
           ApproveSale(t)
    PROVE  CartInvariant'
<1>. \E b \in Branch : <<t, b>> \in handling
  BY DEF ApproveSale, Branch
<1>. PICK r \in Requests : /\ r = wire[t].code /\ wire[t].amount \in Int
                           /\ request[r].amount \in Int
  BY HandledRequest
<1>1. /\ CartOK(r) /\ request[r].status # "APPROVED"
      /\ ledger \in [Keys -> Int]
  BY DEF ApproveSale, Unpaid, CartInvariant, MoneyInvariant, PaymentTypeOK
<1>2. /\ request'[r].status = "APPROVED" /\ Others(r)
      /\ request'[r].amount = request[r].amount
      /\ request'[r].cart = "FULFILLED"
  <2>1. Claim(r, t, "FULFILLED") /\ IsCart(r)
    BY DEF ApproveSale
  <2>2. request \in [Requests -> Documents]
    BY DEF CartInvariant, MoneyInvariant, PaymentTypeOK, Documents
  <2>. QED
    BY <1>1, <2>1, <2>2, ClaimIsOfRequest
    DEF Claim, CartInvariant, MoneyInvariant, Documents
<1>3. bought' = bought \cup {r} /\ UNCHANGED work
  BY DEF ApproveSale, Sell
<1>4. ledger' = [ledger EXCEPT ![<<"bank", t>>] = request[r].amount,
                               ![<<"purchase", r>>] = -request[r].amount]
  BY DEF ApproveSale
<1>5. /\ ledger'[<<"purchase", r>>] = -request[r].amount
      /\ \A q \in Requests \ {r} :
            ledger'[<<"purchase", q>>] = ledger[<<"purchase", q>>]
  BY <1>1, <1>4, KeysDiffer, PurchaseKeys
<1>6. CartOK(r)'
  BY <1>1, <1>2, <1>3, <1>5 DEF CartOK
<1>. QED  BY <1>1, <1>2, <1>3, <1>5, <1>6, NobodyAtWork, OneCart

-----------------------------------------------------------------------------
(* Fulfillers.                                                             *)

(* Only one is at work on a checkout.                                      *)
LEMMA OneAtWork ==
    ASSUME CartInvariant, NEW f \in Fulfillers, NEW g \in Fulfillers, f # g,
           work[f].step # "idle", work[g].step # "idle"
    PROVE  work[f].on # work[g].on
BY DEF CartInvariant, WorkOK

(* A step of fulfiller f on checkout r; nobody else is at work on it.      *)
LEMMA WorkKeepsCarts ==
    ASSUME CartInvariant, MoneyInvariant', NEW f \in Fulfillers,
           NEW r \in Requests, Others(r), CartOK(r)', WorkOK(f)',
           \A g \in Fulfillers \ {f} :
              /\ work'[g] = work[g]
              /\ work[g].step # "idle" => work[g].on # r,
           \A q \in Requests \ {r} :
              /\ q \in bought' <=> q \in bought
              /\ ledger'[<<"purchase", q>>] = ledger[<<"purchase", q>>]
    PROVE  CartInvariant'
<1>1. ASSUME NEW q \in Requests PROVE CartOK(q)'
  <2>1. CASE q = r
    BY <2>1
  <2>2. CASE q # r
    BY <2>2 DEF CartInvariant, CartOK, Others
  <2>. QED  BY <2>1, <2>2
<1>2. ASSUME NEW g \in Fulfillers \ {f} PROVE WorkOK(g)'
  <2>1. CASE work[g].step # "idle"
    <3>1. work[g].on \in Requests \ {r} /\ WorkOK(g) /\ work'[g] = work[g]
      BY <2>1 DEF CartInvariant, MoneyInvariant, BuysForRequest
    <3>2. /\ request'[work[g].on] = request[work[g].on]
          /\ work[g].on \in bought' <=> work[g].on \in bought
      BY <3>1 DEF Others
    <3>. QED  BY <3>1, <3>2 DEF WorkOK
  <2>2. CASE work[g].step = "idle"
    BY <2>2 DEF WorkOK
  <2>. QED  BY <2>1, <2>2
<1>. QED  BY <1>1, <1>2 DEF CartInvariant

LEMMA TakeKeepsCarts ==
    ASSUME CartInvariant, MoneyInvariant', NEW f \in Fulfillers,
           NEW r \in Requests, TakeLease(f, r)
    PROVE  CartInvariant'
<1>1. /\ request \in [Requests -> Documents]
      /\ work \in [Fulfillers -> [on: Requests \cup {None},
                                  step: {"idle", "buy", "done", "failed"}]]
      /\ CartOK(r)
  BY DEF CartInvariant, MoneyInvariant, PaymentTypeOK, Documents
<1>2. request' = [request EXCEPT ![r] =
          [request[r] EXCEPT !.cart = "PROCESSING", !.holder = f,
                             !.aged = FALSE]]
  BY <1>1 DEF TakeLease
<1>3. /\ Others(r)
      /\ request'[r].status = "APPROVED"
      /\ request'[r].reference = request[r].reference
      /\ request'[r].amount = request[r].amount
      /\ request'[r].cart = "PROCESSING"
      /\ request'[r].holder = f /\ ~request'[r].aged
  BY <1>1, <1>2 DEF TakeLease, Leasable, Documents, Others
<1>4. work'[f] = [on |-> r, step |-> "buy"]
      /\ \A g \in Fulfillers \ {f} : work'[g] = work[g]
  BY <1>1 DEF TakeLease
<1>5. WorkOK(f)'
  BY <1>3, <1>4 DEF WorkOK
<1>6. ASSUME NEW g \in Fulfillers, work[g].step # "idle"
      PROVE  work[g].on # r
  BY <1>6 DEF TakeLease, Leasable, CartInvariant, WorkOK
<1>7. UNCHANGED <<bought, ledger>>
  BY DEF TakeLease, saleVars, walletVars
<1>8. CartOK(r)'
  BY <1>1, <1>3, <1>7 DEF CartOK, TakeLease, Leasable
<1>. QED  BY <1>3, <1>4, <1>5, <1>6, <1>7, <1>8, WorkKeepsCarts

LEMMA FinishKeepsCarts ==
    ASSUME CartInvariant, MoneyInvariant', NEW f \in Fulfillers,
           FinishLease(f)
    PROVE  CartInvariant'
<1>. \E r \in Requests : r = work[f].on
  BY DEF FinishLease, Purchase, CartInvariant, MoneyInvariant, BuysForRequest
<1>. PICK r \in Requests : r = work[f].on
  OBVIOUS
<1>1. /\ WorkOK(f) /\ CartOK(r)
      /\ work[f].step \in {"done", "failed"}
      /\ request \in [Requests -> Documents]
      /\ work \in [Fulfillers -> [on: Requests \cup {None},
                                  step: {"idle", "buy", "done", "failed"}]]
  BY DEF FinishLease, CartInvariant, MoneyInvariant, PaymentTypeOK,
         BuysForRequest, Documents
<1>2. request' = [request EXCEPT ![r].cart =
          IF work[f].step = "done" THEN "FULFILLED" ELSE "FAILED"]
  BY <1>1 DEF FinishLease, HoldsLease, WorkOK
<1>3. /\ Others(r)
      /\ request'[r].status = request[r].status
      /\ request'[r].reference = request[r].reference
      /\ request'[r].amount = request[r].amount
      /\ request'[r].cart =
            IF work[f].step = "done" THEN "FULFILLED" ELSE "FAILED"
  BY <1>1, <1>2 DEF Documents, Others
<1>4. work'[f] = Rest /\ \A g \in Fulfillers \ {f} : work'[g] = work[g]
  BY <1>1 DEF FinishLease
<1>5. WorkOK(f)'
  BY <1>4 DEF WorkOK, Rest
<1>6. \A g \in Fulfillers \ {f} : work[g].step # "idle" => work[g].on # r
  BY <1>1, OneAtWork
<1>7. UNCHANGED <<bought, ledger>>
  BY DEF FinishLease, saleVars, walletVars
<1>8. CartOK(r)'
  BY <1>1, <1>3, <1>7 DEF CartOK, WorkOK
<1>. QED  BY <1>1, <1>3, <1>4, <1>5, <1>6, <1>7, <1>8, WorkKeepsCarts

LEMMA StopsKeepsCarts ==
    ASSUME CartInvariant, MoneyInvariant', NEW f \in Fulfillers,
           FulfillerStops(f)
    PROVE  CartInvariant'
<1>1. UNCHANGED <<request, bought, ledger>>
  BY DEF FulfillerStops, docVars, saleVars, walletVars
<1>2. /\ work'[f] = Rest
      /\ \A g \in Fulfillers \ {f} : work'[g] = work[g]
  BY DEF FulfillerStops, CartInvariant, MoneyInvariant, PaymentTypeOK
<1>3. \A r \in Requests : CartOK(r)'
  BY <1>1 DEF CartInvariant, CartOK
<1>4. ASSUME NEW g \in Fulfillers PROVE WorkOK(g)'
  BY <1>1, <1>2 DEF CartInvariant, WorkOK, Rest
<1>. QED  BY <1>3, <1>4 DEF CartInvariant

LEMMA PurchaseKeepsCarts ==
    ASSUME CartInvariant, MoneyInvariant', NEW f \in Fulfillers, Purchase(f)
    PROVE  CartInvariant'
<1>. \E r \in Requests : r = work[f].on
  BY DEF FinishLease, Purchase, CartInvariant, MoneyInvariant, BuysForRequest
<1>. PICK r \in Requests : r = work[f].on
  OBVIOUS
<1>1. /\ WorkOK(f) /\ CartOK(r) /\ work[f].step = "buy"
      /\ request[r].amount \in Int /\ ledger \in [Keys -> Int]
      /\ work \in [Fulfillers -> [on: Requests \cup {None},
                                  step: {"idle", "buy", "done", "failed"}]]
  BY DEF Purchase, CartInvariant, MoneyInvariant, PaymentTypeOK,
         BuysForRequest
<1>2. UNCHANGED request /\ Others(r)
  BY DEF Purchase, docVars, Others
<1>3. \A g \in Fulfillers \ {f} : work[g].step # "idle" => work[g].on # r
  BY <1>1, OneAtWork
<1>4. ASSUME NEW s \in {"done", "failed"}, Step(f, s)
      PROVE  /\ work'[f].step = s /\ work'[f].on = r
             /\ \A g \in Fulfillers \ {f} : work'[g] = work[g]
  BY <1>1, <1>4 DEF Step
<1>5. CASE /\ (KnownBatch(r) /\ Step(f, "done"))
              \/ (~KnownBatch(r) /\ Step(f, "failed"))
           /\ UNCHANGED <<walletVars, bought>>
  <2>1. CartOK(r)'
    BY <1>1, <1>2, <1>5 DEF CartOK, walletVars
  <2>2. WorkOK(f)'
    BY <1>1, <1>2, <1>4, <1>5 DEF WorkOK, KnownBatch
  <2>. QED
    BY <1>1, <1>2, <1>3, <1>4, <1>5, <2>1, <2>2, WorkKeepsCarts
    DEF walletVars
<1>6. CASE /\ ~KnownBatch(r) /\ Step(f, "done") /\ Sell(r)
           /\ ledger' = [ledger EXCEPT ![<<"purchase", r>>] =
                                           @ - request[r].amount]
  <2>1. /\ bought' = bought \cup {r} /\ r \notin bought
        /\ ledger'[<<"purchase", r>>] = -request[r].amount
        /\ \A q \in Requests \ {r} :
              ledger'[<<"purchase", q>>] = ledger[<<"purchase", q>>]
    BY <1>1, <1>6, PurchaseKeys DEF Sell, KnownBatch, CartOK
  <2>2. CartOK(r)'
    BY <1>1, <1>2, <2>1 DEF CartOK, WorkOK
  <2>3. WorkOK(f)'
    BY <1>1, <1>2, <1>4, <1>6, <2>1 DEF WorkOK
  <2>. QED
    BY <1>1, <1>2, <1>3, <1>4, <1>6, <2>1, <2>2, <2>3, WorkKeepsCarts
<1>. QED  BY <1>5, <1>6 DEF Purchase

LEMMA ShopKeepsCarts ==
    ASSUME CartInvariant, MoneyInvariant',
           ElsewhereInTheShop \/ \E u \in Customers : AdjustWallet(u)
    PROVE  CartInvariant'
<1>1. UNCHANGED <<request, work, bought>>
  BY DEF ElsewhereInTheShop, AdjustWallet, docVars, saleVars
<1>2. \/ UNCHANGED walletVars
      \/ \E u \in Customers, amount \in Int, anyone \in BOOLEAN :
            \/ Post(<<"admin", u>>, u, amount, anyone)
            \/ Post(<<"other", u>>, u, amount, anyone)
  <2>1. Adjustments \subseteq Int /\ -UnitPrice \in Int
    BY PaymentConstants
  <2>2. CASE \E u \in Customers : AdjustWallet(u)
    BY <2>1, <2>2 DEF AdjustWallet
  <2>3. CASE ElsewhereInTheShop
    BY <2>1, <2>3 DEF ElsewhereInTheShop, Surroundings, BuyByWallet
  <2>. QED  BY <2>2, <2>3
<1>3. ASSUME NEW q \in Requests
      PROVE  ledger'[<<"purchase", q>>] = ledger[<<"purchase", q>>]
  <2>1. \A u \in Customers : <<"admin", u>> \in Keys /\ <<"other", u>> \in Keys
    BY DEF Keys
  <2>2. ledger \in [Keys -> Int]
    BY DEF CartInvariant, MoneyInvariant, PaymentTypeOK
  <2>. QED  BY <1>2, <2>1, <2>2, PurchaseKeys, PostKeepsRows DEF walletVars
<1>. QED  BY <1>1, <1>3, NoCart

LEMMA CartsKept ==
    ASSUME ~MayStall, CartInvariant, [PaymentNext]_payVars
    PROVE  CartInvariant'
<1>. MoneyInvariant /\ MoneyInvariant'
  BY MoneyKept DEF CartInvariant
<1>1. CASE Ask
  BY <1>1, AskKeepsCarts, ByHandKeepsCarts, AgesKeepsCarts DEF Ask
<1>2. ASSUME NEW t \in Transfers, Transfer(t) \/ Find(t)
      PROVE  CartInvariant'
  BY <1>2, NoCart DEF Transfer, Find, walletVars, saleVars
<1>3. ASSUME NEW t \in Transfers, Process(t) \/ CallbackFails(t)
      PROVE  CartInvariant'
  BY <1>3, CreditKeepsCarts, SaleKeepsCarts DEF Process, Approve
<1>4. CASE Report
  BY <1>2, <1>3, <1>4 DEF Report
<1>5. CASE Fulfill
  BY <1>5, TakeKeepsCarts, PurchaseKeepsCarts, FinishKeepsCarts,
     StopsKeepsCarts
  DEF Fulfill
<1>6. CASE ElsewhereInTheShop \/ \E u \in Customers : AdjustWallet(u)
  BY <1>6, ShopKeepsCarts
<1>7. CASE UNCHANGED payVars
  BY <1>7, NoCart DEF payVars, docVars, walletVars, saleVars
<1>. QED  BY <1>1, <1>4, <1>5, <1>6, <1>7 DEF PaymentNext

(* When no fulfiller outlives its lease, a checkout is FULFILLED only with *)
(* orders and FAILED only without, pays for them once, and a transfer      *)
(* never leaves it half way (payment.service.ts:640-682).                  *)
THEOREM CheckoutsInOrder ==
    ASSUME ~MayStall
    PROVE  PaymentSpec => []CheckoutMatchesOrders
<1>1. CartInvariant => CheckoutMatchesOrders
  BY DEF CartInvariant, CartOK, CheckoutMatchesOrders
<1>2. CartInvariant /\ [PaymentNext]_payVars => CartInvariant'
  BY CartsKept
<1>. QED  BY <1>1, <1>2, CartsBegin, PTL DEF PaymentSpec

-----------------------------------------------------------------------------
(* The refinement of Till.  Money is asked for and sent in amounts that    *)
(* are not zero, and who is credited was approved before.                  *)
Positive == /\ \A r \in Requests : request[r].status # "NONE"
                                   => request[r].amount > 0
            /\ \A t \in Transfers : wire[t] # NoWire => wire[t].amount > 0
Approved(t) == request[wire[t].code].status = "APPROVED"
CreditIsApproved ==
    \A t \in Transfers :
        CreditOf(t) # 0 \/ <<t, "supplement">> \in handling => Approved(t)

TillReady == Positive /\ CreditIsApproved
TillInvariant == CartInvariant /\ TillReady
TillStep == [Promise!TillNext]_(Promise!tillVars)

(* What no step undoes.                                                    *)
LEMMA ReadyFollows ==
    ASSUME MoneyInvariant, TillReady,
           \A r \in Requests :
              /\ request[r].status = "APPROVED"
                 => request'[r].status = "APPROVED"
              /\ request'[r].status # "NONE" => request'[r].amount > 0,
           \A t \in Transfers :
              \/ wire'[t] = wire[t]
              \/ wire[t] = NoWire /\ wire'[t].amount > 0,
           \A t \in Transfers :
              \/ CreditOf(t)' = CreditOf(t)
              \/ Approved(t)' /\ wire'[t] = wire[t],
           \A t \in Transfers :
              \/ <<t, "supplement">> \in handling'
                 => <<t, "supplement">> \in handling
              \/ Approved(t)' /\ wire'[t] = wire[t]
    PROVE  TillReady'
<1>1. Positive'
  BY DEF TillReady, Positive
<1>2. ASSUME NEW t \in Transfers,
             CreditOf(t)' # 0 \/ <<t, "supplement">> \in handling'
      PROVE  Approved(t)'
  <2>1. CASE CreditOf(t) # 0 \/ <<t, "supplement">> \in handling
    <3>1. wire[t].code \in Requests
      <4>1. CASE CreditOf(t) # 0
        <5>1. wire[t].amount # 0
          BY <4>1 DEF MoneyInvariant, Books, CreditedOnce
        <5>. QED
          BY <5>1 DEF NoWire, MoneyInvariant, Books, WiredIsAsked
      <4>2. CASE <<t, "supplement">> \in handling
        BY <4>2 DEF Branch, MoneyInvariant, Books, HandledIsWired
      <4>. QED  BY <2>1, <4>1, <4>2
    <3>2. wire'[t] = wire[t]
      BY <3>1, PaymentConstants DEF NoWire
    <3>. QED
      BY <2>1, <3>1, <3>2 DEF TillReady, CreditIsApproved, Approved
  <2>2. CASE CreditOf(t) = 0 /\ <<t, "supplement">> \notin handling
    BY <1>2, <2>2
  <2>. QED  BY <2>1, <2>2
<1>. QED  BY <1>1, <1>2 DEF TillReady, CreditIsApproved

(* The fates, before and after a step.                                     *)
LEMMA Fates ==
    ASSUME NEW r \in Requests
    PROVE  /\ FateOf(r) = IF r \in bought THEN "sold"
                          ELSE IF request[r].status # "APPROVED" THEN "open"
                          ELSE IF request[r].cart \in {"NONE", "FAILED"}
                          THEN "kept" ELSE "vouched"
           /\ FateOf(r)' = IF r \in bought' THEN "sold"
                          ELSE IF request'[r].status # "APPROVED" THEN "open"
                          ELSE IF request'[r].cart \in {"NONE", "FAILED"}
                          THEN "kept" ELSE "vouched"
<1>1. FateOf(r) = IF r \in bought THEN "sold"
                  ELSE IF request[r].status # "APPROVED" THEN "open"
                  ELSE IF request[r].cart \in {"NONE", "FAILED"}
                  THEN "kept" ELSE "vouched"
  BY DEF FateOf, IsCart
<1>2. FateOf(r)' = IF r \in bought' THEN "sold"
                  ELSE IF request'[r].status # "APPROVED" THEN "open"
                  ELSE IF request'[r].cart \in {"NONE", "FAILED"}
                  THEN "kept" ELSE "vouched"
  BY DEF FateOf, IsCart
<1>. QED  BY <1>1, <1>2

(* Elsewhere: what happens to request r settles no other.                  *)
Aside(r) == /\ Others(r)
            /\ \A q \in Requests \ {r} : q \in bought' <=> q \in bought

LEMMA AsideKeepsFates ==
    ASSUME NEW r \in Requests, Aside(r), NEW q \in Requests \ {r}
    PROVE  FateOf(q)' = FateOf(q)
BY Fates DEF Aside, Others

(* A step on request r that moves no transfer.                             *)
LEMMA OneFate ==
    ASSUME NEW r \in Requests, Aside(r), UNCHANGED wire,
           \A t \in Transfers : CreditOf(t)' = CreditOf(t),
           \/ FateOf(r)' = FateOf(r)
           \/ FateOf(r) = "open" /\ FateOf(r)' \in {"vouched", "kept"}
           \/ FateOf(r) = "vouched" /\ FateOf(r)' \in {"sold", "kept"}
    PROVE  TillStep
<1>1. \A q \in Requests \ {r} : FateOf(q)' = FateOf(q)
  BY AsideKeepsFates
<1>. DEFINE fate == [q \in Requests |-> FateOf(q)]
<1>2. fate' = [fate EXCEPT ![r] = FateOf(r)']
  BY <1>1
<1>3. /\ [t \in Transfers |-> wire'[t].amount]
            = [t \in Transfers |-> wire[t].amount]
      /\ [t \in Transfers |-> CreditOf(t)'] = [t \in Transfers |-> CreditOf(t)]
  OBVIOUS
<1>4. CASE FateOf(r)' = FateOf(r)
  <2>1. fate' = fate
    BY <1>1, <1>4
  <2>. QED  BY <1>3, <2>1 DEF TillStep, Promise!tillVars
<1>5. CASE FateOf(r) = "open" /\ FateOf(r)' \in {"vouched", "kept"}
  <2>1. Promise!Vouch(r)
    BY <1>2, <1>3, <1>5 DEF Promise!Vouch
  <2>. QED  BY <2>1 DEF TillStep, Promise!TillNext
<1>6. CASE FateOf(r) = "vouched" /\ FateOf(r)' \in {"sold", "kept"}
  <2>1. Promise!Decide(r, "sold") \/ Promise!Decide(r, "kept")
    BY <1>2, <1>3, <1>6 DEF Promise!Decide
  <2>. QED  BY <2>1 DEF TillStep, Promise!TillNext
<1>. QED  BY <1>4, <1>5, <1>6

(* A transfer t is credited, and may settle request r.                     *)
LEMMA OneCredit ==
    ASSUME NEW r \in Requests, NEW t \in Transfers, Aside(r), UNCHANGED wire,
           \A s \in Transfers \ {t} : CreditOf(s)' = CreditOf(s),
           wire[t].amount > 0, CreditOf(t) = 0,
           CreditOf(t)' = wire[t].amount,
           \/ FateOf(r)' = FateOf(r)
           \/ FateOf(r) = "open" /\ FateOf(r)' \in {"sold", "kept"}
    PROVE  TillStep
<1>1. \A q \in Requests \ {r} : FateOf(q)' = FateOf(q)
  BY AsideKeepsFates
<1>. DEFINE fate == [q \in Requests |-> FateOf(q)]
            credited == [s \in Transfers |-> CreditOf(s)]
<1>2. fate' = [fate EXCEPT ![r] = FateOf(r)']
  BY <1>1
<1>3. credited' = [credited EXCEPT ![t] = wire[t].amount]
  OBVIOUS
<1>4. [s \in Transfers |-> wire'[s].amount]
         = [s \in Transfers |-> wire[s].amount]
  OBVIOUS
<1>5. fate' = fate \/ /\ fate[r] = "open"
                      /\ \E f \in {"sold", "kept"} :
                            fate' = [fate EXCEPT ![r] = f]
  BY <1>1, <1>2
<1>6. Promise!Bank(t)
  BY <1>3, <1>4, <1>5 DEF Promise!Bank
<1>. QED  BY <1>6 DEF TillStep, Promise!TillNext

-----------------------------------------------------------------------------
(* Steps that move no transfer.                                            *)
LEMMA QuietReady ==
    ASSUME TillInvariant, NEW r \in Requests, Aside(r), UNCHANGED wire,
           handling' \subseteq handling,
           \A t \in Transfers : CreditOf(t)' = CreditOf(t),
           request[r].status = "APPROVED" => request'[r].status = "APPROVED",
           request'[r].status # "NONE" => request'[r].amount > 0
    PROVE  TillReady'
<1>1. MoneyInvariant /\ TillReady
  BY DEF TillInvariant, CartInvariant
<1>2. \A q \in Requests :
        /\ request[q].status = "APPROVED" => request'[q].status = "APPROVED"
        /\ request'[q].status # "NONE" => request'[q].amount > 0
  BY <1>1 DEF Aside, Others, TillReady, Positive
<1>. QED  BY <1>1, <1>2, ReadyFollows

LEMMA AskIsPromised ==
    ASSUME TillInvariant, NEW r \in Requests,
           \/ CreateDeposit(r) \/ CreateCheckout(r) \/ Cancel(r) \/ Lapse(r)
           \/ ExpireBankTopup(r)
    PROVE  TillReady' /\ TillStep
<1>1. /\ MoneyInvariant /\ CartOK(r) /\ r \notin bought
      /\ request \in [Requests -> Documents]
      /\ request[r].status # "APPROVED"
  BY DEF CreateDeposit, CreateCheckout, Cancel, Lapse, ExpireBankTopup,
         TillInvariant, CartInvariant, CartOK, MoneyInvariant, PaymentTypeOK,
         Documents
<1>2. Others(r) /\ RequestOnly
  BY <1>1, AskIsOfRequest DEF MoneyInvariant
<1>3. /\ Aside(r) /\ UNCHANGED <<wire, handling, bought>>
      /\ \A t \in Transfers : CreditOf(t)' = CreditOf(t)
  BY <1>2 DEF Aside, RequestOnly, walletVars, saleVars, CreditOf
<1>4. request'[r].status # "APPROVED" /\ request'[r].amount > 0
  <2>1. CASE CreateDeposit(r)
    <3>1. PICK a \in Deposits : request' = [request EXCEPT
              ![r] = [request[r] EXCEPT !.status = "PENDING", !.amount = a]]
      BY <1>1, <2>1 DEF CreateDeposit
    <3>. QED  BY <1>1, <3>1, PaymentConstants DEF Documents
  <2>2. CASE CreateCheckout(r)
    <3>1. Quote(r) >= 1 /\ Quote(r) \in Int
      BY <1>1, <2>2, QuoteIsInt DEF CreateCheckout, MoneyInvariant
    <3>2. request'[r].amount = Quote(r) /\ request'[r].status = "PENDING"
      BY <1>1, <2>2 DEF CreateCheckout, Documents
    <3>. QED  BY <3>1, <3>2
  <2>3. CASE Cancel(r) \/ Lapse(r) \/ ExpireBankTopup(r)
    <3>1. request[r].amount > 0
      BY <2>3
      DEF Cancel, Lapse, ExpireBankTopup, TillInvariant, TillReady, Positive
    <3>2. request'[r].amount = request[r].amount
          /\ request'[r].status # "APPROVED"
      BY <1>1, <2>3 DEF Cancel, Lapse, ExpireBankTopup, Documents
    <3>. QED  BY <3>1, <3>2
  <2>. QED  BY <2>1, <2>2, <2>3
<1>5. FateOf(r) = "open" /\ FateOf(r)' = "open"
  BY <1>1, <1>3, <1>4, Fates
<1>6. TillReady'
  BY <1>1, <1>3, <1>4, QuietReady
<1>. QED  BY <1>3, <1>5, <1>6, OneFate

LEMMA ByHandIsPromised ==
    ASSUME TillInvariant, NEW r \in Requests, ApproveByHand(r)
    PROVE  TillReady' /\ TillStep
<1>1. /\ MoneyInvariant /\ CartOK(r) /\ r \notin bought
      /\ request \in [Requests -> Documents] /\ ledger \in [Keys -> Int]
      /\ request[r].status = "PENDING" /\ request[r].amount > 0
  BY DEF ApproveByHand, TillInvariant, CartInvariant, CartOK, MoneyInvariant,
         PaymentTypeOK, Documents, TillReady, Positive
<1>2. /\ Aside(r) /\ UNCHANGED <<wire, handling, bought>>
      /\ request'[r].status = "APPROVED"
      /\ request'[r].amount = request[r].amount
      /\ request'[r].cart = request[r].cart
  BY <1>1 DEF ApproveByHand, Documents, Aside, Others, saleVars
<1>3. <<"hand", r>> \in Keys /\ request[r].amount \in Int
  BY <1>1 DEF Keys, Documents
<1>4. \A t \in Transfers : CreditOf(t)' = CreditOf(t)
  BY <1>1, <1>3, KeysDiffer, PostKeepsRows DEF ApproveByHand, CreditOf
<1>5. FateOf(r) = "open" /\ FateOf(r)' \in {"vouched", "kept"}
  BY <1>1, <1>2, Fates
<1>6. TillReady'
  BY <1>1, <1>2, <1>4, QuietReady
<1>. QED  BY <1>2, <1>4, <1>5, <1>6, OneFate

(* A lease ages, is taken, or is given back.                               *)
LEMMA LeaseIsPromised ==
    ASSUME TillInvariant, NEW r \in Requests,
           request[r].status = "APPROVED", request'[r].status = "APPROVED",
           request'[r].amount = request[r].amount,
           Others(r), UNCHANGED <<wire, handling, bought, ledger>>,
           \/ /\ request[r].cart \notin {"NONE", "FAILED"}
              /\ request'[r].cart \notin {"NONE", "FAILED"} \/ r \in bought
           \/ request[r].cart = "PROCESSING" /\ request'[r].cart = "FAILED"
    PROVE  TillReady' /\ TillStep
<1>1. Aside(r) /\ \A t \in Transfers : CreditOf(t)' = CreditOf(t)
  BY DEF Aside, CreditOf
<1>2. request[r].amount > 0
  BY DEF TillInvariant, TillReady, Positive
<1>3. \/ FateOf(r)' = FateOf(r)
      \/ FateOf(r) = "vouched" /\ FateOf(r)' = "kept"
  BY Fates
<1>4. TillReady'
  BY <1>1, <1>2, QuietReady
<1>. QED  BY <1>1, <1>3, <1>4, OneFate

LEMMA AgesIsPromised ==
    ASSUME TillInvariant, NEW r \in Requests, LeaseAges(r)
    PROVE  TillReady' /\ TillStep
<1>1. request \in [Requests -> Documents] /\ CartOK(r)
  BY DEF TillInvariant, CartInvariant, MoneyInvariant, PaymentTypeOK,
         Documents
<1>2. /\ Others(r) /\ request[r].cart = "PROCESSING"
      /\ request'[r].cart = "PROCESSING"
      /\ request'[r].amount = request[r].amount
      /\ request'[r].status = request[r].status
  BY <1>1 DEF LeaseAges, Documents, Others
<1>3. UNCHANGED <<wire, handling, bought, ledger>>
  BY DEF LeaseAges, RequestOnly, walletVars, saleVars
<1>. QED  BY <1>1, <1>2, <1>3, LeaseIsPromised DEF CartOK

LEMMA TakeIsPromised ==
    ASSUME TillInvariant, NEW f \in Fulfillers, NEW r \in Requests,
           TakeLease(f, r)
    PROVE  TillReady' /\ TillStep
<1>1. request \in [Requests -> Documents]
  BY DEF TillInvariant, CartInvariant, MoneyInvariant, PaymentTypeOK,
         Documents
<1>2. request' = [request EXCEPT ![r] =
          [request[r] EXCEPT !.cart = "PROCESSING", !.holder = f,
                             !.aged = FALSE]]
  BY <1>1 DEF TakeLease
<1>3. /\ Others(r) /\ request'[r].cart = "PROCESSING"
      /\ request'[r].amount = request[r].amount
      /\ request'[r].status = request[r].status
      /\ request[r].status = "APPROVED"
      /\ request[r].cart \in {"PENDING_PAYMENT", "PROCESSING"}
  BY <1>1, <1>2 DEF TakeLease, Leasable, Documents, Others
<1>4. UNCHANGED <<wire, handling, bought, ledger>>
  BY DEF TakeLease, walletVars, saleVars
<1>. QED  BY <1>3, <1>4, LeaseIsPromised

LEMMA FinishIsPromised ==
    ASSUME TillInvariant, NEW f \in Fulfillers, NEW r \in Requests,
           FinishLease(f), r = work[f].on
    PROVE  TillReady' /\ TillStep
<1>1. /\ request \in [Requests -> Documents] /\ CartOK(r) /\ WorkOK(f)
      /\ MoneyInvariant
  BY DEF TillInvariant, CartInvariant, MoneyInvariant, PaymentTypeOK,
         Documents
<1>2. /\ request[r].cart = "PROCESSING" /\ request[r].holder = f
      /\ work[f].step = "done" => r \in bought
  BY <1>1 DEF FinishLease, WorkOK
<1>3. /\ Others(r) /\ request'[r].cart =
               IF work[f].step = "done" THEN "FULFILLED" ELSE "FAILED"
      /\ request'[r].amount = request[r].amount
      /\ request'[r].status = request[r].status
  <2>1. request' = [request EXCEPT ![r].cart =
            IF work[f].step = "done" THEN "FULFILLED" ELSE "FAILED"]
    BY <1>2 DEF FinishLease, HoldsLease
  <2>. QED  BY <1>1, <2>1 DEF Documents, Others
<1>4. UNCHANGED <<wire, handling, bought, ledger>>
  BY DEF FinishLease, walletVars, saleVars
<1>5. request[r].status = "APPROVED" /\ request'[r].status = "APPROVED"
  BY <1>1, <1>2, <1>3 DEF CartOK
<1>6. request'[r].cart = "FAILED" \/ request'[r].cart = "FULFILLED"
  BY <1>3
<1>. QED  BY <1>2, <1>3, <1>4, <1>5, <1>6, LeaseIsPromised

LEMMA PurchaseIsPromised ==
    ASSUME TillInvariant, NEW f \in Fulfillers, Purchase(f)
    PROVE  TillReady' /\ TillStep
<1>. \E r \in Requests : r = work[f].on
  BY DEF Purchase, TillInvariant, CartInvariant, MoneyInvariant,
         BuysForRequest
<1>. PICK r \in Requests : r = work[f].on
  OBVIOUS
<1>1. /\ CartOK(r) /\ request[r].cart = "PROCESSING"
      /\ request[r].status = "APPROVED" /\ request[r].amount > 0
      /\ request[r].amount \in Int /\ ledger \in [Keys -> Int]
      /\ <<"purchase", r>> \in Keys
  <2>1. CartOK(r) /\ WorkOK(f) /\ work[f].step = "buy"
    BY DEF Purchase, TillInvariant, CartInvariant
  <2>2. request[r].cart = "PROCESSING" /\ request[r].status = "APPROVED"
    BY <2>1 DEF WorkOK, CartOK
  <2>3. request[r].amount > 0
    BY <2>2 DEF TillInvariant, TillReady, Positive
  <2>4. request[r].amount \in Int /\ ledger \in [Keys -> Int]
    BY DEF TillInvariant, CartInvariant, MoneyInvariant, PaymentTypeOK
  <2>. QED  BY <2>1, <2>2, <2>3, <2>4, PurchaseKeys
<1>2. UNCHANGED <<request, wire, handling>>
  BY DEF Purchase, docVars
<1>3. bought' \in {bought, bought \cup {r}}
  BY DEF Purchase, Sell
<1>4. \/ UNCHANGED ledger
      \/ ledger' = [ledger EXCEPT ![<<"purchase", r>>] =
                                      @ - request[r].amount]
  BY DEF Purchase, walletVars
<1>5. ASSUME NEW t \in Transfers PROVE CreditOf(t)' = CreditOf(t)
  BY <1>1, <1>4, KeysDiffer DEF CreditOf
<1>6. Aside(r)
  BY <1>2, <1>3 DEF Aside, Others
<1>7. \/ FateOf(r)' = FateOf(r)
      \/ FateOf(r) = "vouched" /\ FateOf(r)' = "sold"
  BY <1>1, <1>2, <1>3, Fates
<1>8. TillReady'
  BY <1>1, <1>2, <1>5, <1>6, QuietReady
<1>. QED  BY <1>2, <1>5, <1>6, <1>7, <1>8, OneFate

(* Steps that leave requests and checkouts alone.                          *)
LEMMA StillPromised ==
    ASSUME UNCHANGED <<request, wire, bought>>,
           \A t \in Transfers : CreditOf(t)' = CreditOf(t)
    PROVE  TillStep
<1>1. \A r \in Requests : FateOf(r)' = FateOf(r)
  BY Fates
<1>2. /\ [t \in Transfers |-> wire'[t].amount]
            = [t \in Transfers |-> wire[t].amount]
      /\ [t \in Transfers |-> CreditOf(t)'] = [t \in Transfers |-> CreditOf(t)]
      /\ [r \in Requests |-> FateOf(r)'] = [r \in Requests |-> FateOf(r)]
  BY <1>1
<1>. QED  BY <1>2 DEF TillStep, Promise!tillVars

LEMMA StillReady ==
    ASSUME TillInvariant, UNCHANGED <<request, wire>>,
           \A t \in Transfers : CreditOf(t)' = CreditOf(t),
           \A t \in Transfers : <<t, "supplement">> \in handling' =>
              <<t, "supplement">> \in handling \/ Approved(t)
    PROVE  TillReady'
<1>1. MoneyInvariant /\ TillReady
  BY DEF TillInvariant, CartInvariant
<1>. QED
  BY <1>1, ReadyFollows DEF TillReady, Positive, Approved

LEMMA FindIsPromised ==
    ASSUME TillInvariant, NEW t \in Transfers, Find(t) \/ CallbackFails(t)
    PROVE  TillReady' /\ TillStep
<1>1. /\ UNCHANGED <<request, wire, bought>>
      /\ \A s \in Transfers : CreditOf(s)' = CreditOf(s)
  BY DEF Find, CallbackFails, walletVars, saleVars, CreditOf
<1>2. BranchOf(t) = "supplement" => Approved(t)
  BY DEF BranchOf, Approved
<1>3. ASSUME NEW s \in Transfers, <<s, "supplement">> \in handling'
      PROVE  <<s, "supplement">> \in handling \/ Approved(s)
  <2>1. CASE CallbackFails(t)
    BY <1>3, <2>1 DEF CallbackFails, Leave
  <2>2. CASE Find(t)
    <3>1. <<s, "supplement">> \in handling
          \/ (s = t /\ BranchOf(t) = "supplement")
      BY <1>3, <2>2 DEF Find
    <3>. QED  BY <1>2, <3>1
  <2>. QED  BY <2>1, <2>2
<1>. QED  BY <1>1, <1>3, StillPromised, StillReady

LEMMA ShopIsPromised ==
    ASSUME TillInvariant,
           \/ ElsewhereInTheShop \/ \E u \in Customers : AdjustWallet(u)
           \/ \E f \in Fulfillers : FulfillerStops(f)
    PROVE  TillReady' /\ TillStep
<1>1. UNCHANGED <<request, wire, handling, bought>>
  BY DEF ElsewhereInTheShop, AdjustWallet, FulfillerStops, docVars, saleVars
<1>2. \/ UNCHANGED walletVars
      \/ \E u \in Customers, amount \in Int, anyone \in BOOLEAN :
            \/ Post(<<"admin", u>>, u, amount, anyone)
            \/ Post(<<"other", u>>, u, amount, anyone)
  <2>1. Adjustments \subseteq Int /\ -UnitPrice \in Int
    BY PaymentConstants
  <2>2. CASE \E u \in Customers : AdjustWallet(u)
    BY <2>1, <2>2 DEF AdjustWallet
  <2>3. CASE ElsewhereInTheShop
    BY <2>1, <2>3 DEF ElsewhereInTheShop, Surroundings, BuyByWallet
  <2>4. CASE \E f \in Fulfillers : FulfillerStops(f)
    BY <2>4 DEF FulfillerStops
  <2>. QED  BY <2>2, <2>3, <2>4
<1>3. ASSUME NEW t \in Transfers PROVE CreditOf(t)' = CreditOf(t)
  <2>1. \A u \in Customers : <<"admin", u>> \in Keys /\ <<"other", u>> \in Keys
    BY DEF Keys
  <2>2. ledger \in [Keys -> Int]
    BY DEF TillInvariant, CartInvariant, MoneyInvariant, PaymentTypeOK
  <2>. QED
    BY <1>2, <2>1, <2>2, KeysDiffer, PostKeepsRows DEF walletVars, CreditOf
<1>. QED  BY <1>1, <1>3, StillPromised, StillReady

LEMMA TransferIsPromised ==
    ASSUME TillInvariant, NEW t \in Transfers, Transfer(t)
    PROVE  TillReady' /\ TillStep
<1>1. PICK r \in Requests : \E a \in Received \cup {request[r].amount} :
         /\ request[r].status # "NONE"
         /\ wire' = [wire EXCEPT ![t] = [code |-> r, amount |-> a]]
  BY DEF Transfer
<1>2. PICK a \in Received \cup {request[r].amount} :
         wire' = [wire EXCEPT ![t] = [code |-> r, amount |-> a]]
  BY <1>1
<1>3. a \in Nat /\ a > 0
  <2>1. request[r].amount > 0 /\ request[r].amount \in Nat
    BY <1>1
    DEF TillInvariant, TillReady, Positive, CartInvariant, MoneyInvariant,
        PaymentTypeOK
  <2>2. \A x \in Received : x \in Nat /\ x > 0
    <3>1. Received \subseteq Nat \ {0}
      BY PaymentConstants
    <3>. QED  BY <3>1
  <2>. QED  BY <2>1, <2>2
<1>4. /\ MoneyInvariant /\ TillReady
      /\ UNCHANGED <<request, handling, ledger, bought>>
      /\ \A s \in Transfers : CreditOf(s)' = CreditOf(s)
      /\ \A q \in Requests : FateOf(q)' = FateOf(q)
  <2>1. UNCHANGED <<request, handling, ledger, bought>>
    BY DEF Transfer, walletVars, saleVars
  <2>. QED  BY <2>1, Fates DEF TillInvariant, CartInvariant, CreditOf
<1>5. /\ wire \in [Transfers -> [code: Requests \cup {None}, amount: Nat]]
      /\ wire[t] = NoWire
  BY DEF Transfer, TillInvariant, CartInvariant, MoneyInvariant,
         PaymentTypeOK
<1>6. /\ wire'[t].amount = a
      /\ \A s \in Transfers \ {t} : wire'[s] = wire[s]
      /\ \A s \in Transfers : wire'[s].amount \in Nat
  BY <1>2, <1>3, <1>5
<1>7. TillReady'
  BY <1>3, <1>4, <1>5, <1>6, ReadyFollows DEF TillReady, Positive
<1>8. Promise!Arrive(t)
  BY <1>4, <1>5, <1>6 DEF Promise!Arrive, NoWire
<1>. QED  BY <1>7, <1>8 DEF TillStep, Promise!TillNext

-----------------------------------------------------------------------------
(* Transactions of a transfer t: it is credited once its request is, or    *)
(* was, approved.                                                          *)
LEMMA CreditIsPromised ==
    ASSUME TillInvariant, NEW t \in Transfers, NEW r \in Requests,
           r = wire[t].code, UNCHANGED wire,
           \A s \in Transfers : <<s, "supplement">> \in handling'
                                => <<s, "supplement">> \in handling,
           \A s \in Transfers \ {t} : CreditOf(s)' = CreditOf(s),
           Aside(r), request'[r].amount = request[r].amount,
           request'[r].status = "APPROVED",
           \/ /\ CreditOf(t)' = wire[t].amount
              /\ request[r].status # "APPROVED"
              /\ \/ r \in bought'
                 \/ request'[r].cart \in {"NONE", "FAILED"}
           \/ /\ CreditOf(t)' \in {CreditOf(t), wire[t].amount}
              /\ request'[r] = request[r] /\ UNCHANGED bought
    PROVE  TillReady' /\ TillStep
<1>1. /\ MoneyInvariant /\ TillReady /\ CartOK(r)
      /\ wire[t].amount \in Nat /\ wire[t].amount > 0
      /\ CreditOf(t) \in {0, wire[t].amount}
      /\ request[r].amount > 0
  <2>1. /\ MoneyInvariant /\ TillReady /\ CartOK(r)
        /\ wire[t].amount \in Nat
    BY DEF TillInvariant, CartInvariant, MoneyInvariant, PaymentTypeOK
  <2>2. wire[t] # NoWire
    BY PaymentConstants DEF NoWire
  <2>3. request[r].status # "NONE"
    BY <2>1 DEF MoneyInvariant, Books, WiredIsAsked
  <2>. QED
    BY <2>1, <2>2, <2>3
    DEF TillReady, Positive, MoneyInvariant, Books, CreditedOnce
<1>2. TillReady'
  <2>1. \A q \in Requests :
          /\ request[q].status = "APPROVED"
             => request'[q].status = "APPROVED"
          /\ request'[q].status # "NONE" => request'[q].amount > 0
    BY <1>1 DEF Aside, Others, TillReady, Positive
  <2>2. Approved(t)'
    BY DEF Approved
  <2>. QED  BY <1>1, <2>1, <2>2, ReadyFollows
<1>3. CASE request[r].status # "APPROVED"
  <2>1. CreditOf(t) = 0
    BY <1>1, <1>3 DEF TillReady, CreditIsApproved, Approved
  <2>2. FateOf(r) = "open" /\ FateOf(r)' \in {"sold", "kept"}
    BY <1>1, <1>3, Fates DEF CartOK
  <2>3. CreditOf(t)' = wire[t].amount
    BY <1>3
  <2>. QED  BY <1>1, <1>2, <2>1, <2>2, <2>3, OneCredit
<1>4. CASE /\ request[r].status = "APPROVED"
           /\ CreditOf(t)' = wire[t].amount /\ CreditOf(t) = 0
  BY <1>1, <1>2, <1>4, Fates, OneCredit
<1>5. CASE /\ request[r].status = "APPROVED" /\ CreditOf(t)' = CreditOf(t)
  <2>1. FateOf(r)' = FateOf(r)
    BY <1>5, Fates
  <2>2. \A s \in Transfers : CreditOf(s)' = CreditOf(s)
    BY <1>5
  <2>. QED  BY <1>2, <2>1, <2>2, OneFate
<1>. QED  BY <1>1, <1>3, <1>4, <1>5

LEMMA ProcessIsPromised ==
    ASSUME TillInvariant, NEW t \in Transfers, Process(t)
    PROVE  TillReady' /\ TillStep
<1>1. /\ MoneyInvariant /\ TillReady
      /\ request \in [Requests -> Documents] /\ ledger \in [Keys -> Int]
  BY DEF TillInvariant, CartInvariant, MoneyInvariant, PaymentTypeOK,
         Documents
<1>. \E b \in Branch : <<t, b>> \in handling
  BY DEF Process, Approve, Supplement, Mismatch, ApproveAgain, ApproveMoney,
         ApproveSale, ApproveAborts, Fallback, Branch
<1>. \E r \in Requests : r = wire[t].code
  BY <1>1 DEF MoneyInvariant, Books, HandledIsWired
<1>. PICK r \in Requests : r = wire[t].code
  OBVIOUS
<1>2. /\ UNCHANGED wire
      /\ \A s \in Transfers : <<s, "supplement">> \in handling'
                              => <<s, "supplement">> \in handling
  BY DEF Process, Approve, Supplement, Mismatch, ApproveAgain, ApproveMoney,
         ApproveSale, ApproveAborts, Fallback, Answer, Leave
<1>3. CASE UNCHANGED <<request, walletVars, bought>>
  <2>1. \A s \in Transfers : CreditOf(s)' = CreditOf(s)
    BY <1>3 DEF CreditOf, walletVars
  <2>. QED  BY <1>2, <1>3, <2>1, StillPromised, StillReady
<1>4. CASE /\ Bank(t, wire[t].amount) /\ UNCHANGED <<request, bought>>
           /\ request[r].status = "APPROVED"
  <2>1. /\ Aside(r) /\ CreditOf(t)' = wire[t].amount
        /\ \A s \in Transfers \ {t} : CreditOf(s)' = CreditOf(s)
    BY <1>1, <1>4, BankCredits DEF Aside, Others
  <2>. QED  BY <1>2, <1>4, <2>1, CreditIsPromised
<1>5. CASE /\ Bank(t, wire[t].amount) /\ UNCHANGED bought
           /\ Unpaid(r) /\ Claim(r, t, "FAILED")
  <2>1. /\ CreditOf(t)' = wire[t].amount
        /\ \A s \in Transfers \ {t} : CreditOf(s)' = CreditOf(s)
    BY <1>1, <1>5, BankCredits
  <2>2. /\ Aside(r) /\ request'[r].status = "APPROVED"
        /\ request'[r].amount = request[r].amount
        /\ request'[r].cart \in {"NONE", "FAILED"}
        /\ request[r].status # "APPROVED"
    <3>1. /\ request'[r].status = "APPROVED"
          /\ request'[r].amount = request[r].amount
          /\ Others(r)
      BY <1>1, <1>5, ClaimIsOfRequest DEF MoneyInvariant
    <3>2. request'[r].cart \in {"NONE", "FAILED"}
      BY <1>1, <1>5 DEF Claim, MoneyInvariant, PaymentTypeOK
    <3>. QED  BY <1>5, <3>1, <3>2 DEF Aside, Others, Unpaid
  <2>. QED  BY <1>2, <2>1, <2>2, CreditIsPromised
<1>6. CASE ApproveSale(t)
  <2>1. /\ request[r].status # "APPROVED"
        /\ Claim(r, t, "FULFILLED")
        /\ bought' = bought \cup {r}
        /\ request[r].amount = wire[t].amount
        /\ wire[t].amount \in Int
    <3>1. request[r].amount = wire[t].amount
      BY <1>1, <1>6, ComparedAmount DEF ApproveSale
    <3>2. wire[t].amount \in Int
      BY <1>1 DEF MoneyInvariant, PaymentTypeOK
    <3>. QED  BY <1>6, <3>1, <3>2 DEF ApproveSale, Unpaid, Sell
  <2>2. /\ request'[r].status = "APPROVED" /\ Aside(r)
        /\ request'[r].amount = request[r].amount
    BY <1>1, <2>1, ClaimIsOfRequest DEF Aside, MoneyInvariant
  <2>3. /\ ledger' = [ledger EXCEPT ![<<"bank", t>>] = request[r].amount,
                                    ![<<"purchase", r>>] = -request[r].amount]
        /\ <<"purchase", r>> \in Keys
    BY <1>6, PurchaseKeys DEF ApproveSale
  <2>4. CreditOf(t)' = wire[t].amount
    BY <1>1, <2>1, <2>3, KeysDiffer DEF CreditOf
  <2>5. ASSUME NEW s \in Transfers \ {t} PROVE CreditOf(s)' = CreditOf(s)
    BY <1>1, <2>3, KeysDiffer DEF CreditOf
  <2>. QED  BY <1>2, <2>1, <2>2, <2>4, <2>5, CreditIsPromised
<1>7. CASE Supplement(t)
  BY <1>1, <1>4, <1>7
  DEF Supplement, saleVars, TillReady, CreditIsApproved, Approved
<1>8. CASE Mismatch(t)
  BY <1>3, <1>4, <1>5, <1>8 DEF Mismatch, saleVars
<1>9. CASE ApproveAgain(t)
  BY <1>1, <1>3, <1>4, <1>9, ComparedAmount DEF ApproveAgain, saleVars
<1>10. CASE ApproveMoney(t)
  BY <1>1, <1>5, <1>10, ComparedAmount DEF ApproveMoney, saleVars
<1>11. CASE ApproveAborts(t)
  BY <1>3, <1>11 DEF ApproveAborts, saleVars
<1>12. CASE Fallback(t)
  BY <1>1, <1>3, <1>5, <1>12, ComparedAmount DEF Fallback, saleVars
<1>. QED
  BY <1>6, <1>7, <1>8, <1>9, <1>10, <1>11, <1>12 DEF Process, Approve

LEMMA PromiseStep ==
    ASSUME TillInvariant, [PaymentNext]_payVars
    PROVE  TillReady' /\ TillStep
<1>1. CASE Ask
  <2>1. PICK r \in Requests :
           \/ CreateDeposit(r) \/ CreateCheckout(r) \/ Cancel(r) \/ Lapse(r)
           \/ ExpireBankTopup(r) \/ ApproveByHand(r) \/ LeaseAges(r)
    BY <1>1 DEF Ask
  <2>2. CASE LeaseAges(r)
    BY <2>2, AgesIsPromised
  <2>. QED  BY <2>1, <2>2, AskIsPromised, ByHandIsPromised
<1>2. CASE Report
  BY <1>2, TransferIsPromised, FindIsPromised, ProcessIsPromised DEF Report
<1>3. CASE Fulfill
  <2>1. ASSUME NEW f \in Fulfillers, FinishLease(f)
        PROVE  work[f].on \in Requests
    BY <2>1
    DEF FinishLease, TillInvariant, CartInvariant, MoneyInvariant,
        BuysForRequest
  <2>. QED
    BY <1>3, <2>1, TakeIsPromised, FinishIsPromised, PurchaseIsPromised,
       ShopIsPromised
    DEF Fulfill
<1>4. CASE ElsewhereInTheShop \/ \E u \in Customers : AdjustWallet(u)
  BY <1>4, ShopIsPromised
<1>5. CASE UNCHANGED payVars
  <2>1. /\ UNCHANGED <<request, wire, handling, bought>>
        /\ \A t \in Transfers : CreditOf(t)' = CreditOf(t)
    BY <1>5 DEF payVars, docVars, walletVars, saleVars, CreditOf
  <2>. QED  BY <2>1, StillPromised, StillReady
<1>. QED  BY <1>1, <1>2, <1>3, <1>4, <1>5 DEF PaymentNext

LEMMA PromiseBegins == PaymentInit => Promise!TillInit /\ TillInvariant
<1>. SUFFICES ASSUME PaymentInit PROVE Promise!TillInit /\ TillInvariant
  OBVIOUS
<1>1. \A t \in Transfers : wire[t] = NoWire /\ CreditOf(t) = 0
  BY KeysDiffer DEF PaymentInit, CreditOf
<1>2. \A r \in Requests : request[r] = Blank /\ r \notin bought
  BY DEF PaymentInit
<1>3. \A r \in Requests : FateOf(r) = "open"
  BY <1>2, Fates DEF Blank
<1>4. TillReady
  BY <1>1, <1>2
  DEF TillReady, Positive, CreditIsApproved, Blank, PaymentInit
<1>. QED
  BY <1>1, <1>3, <1>4, CartsBegin
  DEF Promise!TillInit, TillInvariant, NoWire

(* Payments, by callback, by hand or by a fulfiller, do what the till      *)
(* promises: a transfer is credited once and in full, and the fate of a    *)
(* request is decided once (payment.service.ts:410-840).                   *)
THEOREM PaymentsHonourTill ==
    ASSUME ~MayStall
    PROVE  PaymentSpec => HonoursTill
<1>1. TillInvariant /\ [PaymentNext]_payVars
      => TillInvariant' /\ [Promise!TillNext]_(Promise!tillVars)
  BY CartsKept, PromiseStep DEF TillInvariant, TillStep
<1>. QED
  BY <1>1, PromiseBegins, PTL DEF PaymentSpec, HonoursTill, Promise!TillSpec

-----------------------------------------------------------------------------
(* What a payment may buy: the coupon is used as often as it was redeemed  *)
(* and within its limit, and only money that is timely buys.  Orders exist *)
(* only for approved requests, and an approval is never undone, so whoever *)
(* stores the orders of a checkout that is not approved yet, or that has   *)
(* none, redeems its coupon for the first time.                            *)

(* Orders are for approved requests, and so is the work on them.           *)
BoughtIsApproved ==
    /\ \A r \in bought : request[r].status = "APPROVED"
    /\ \A f \in Fulfillers :
          work[f].step # "idle" => request[work[f].on].status = "APPROVED"

CouponInvariant == /\ MoneyInvariant /\ BoughtIsApproved
                   /\ IsFiniteSet(redeemed) /\ CouponBooks

-----------------------------------------------------------------------------
(* A request does not stop to be approved.                                 *)
LEMMA ApprovedStays ==
    ASSUME MoneyInvariant, [PaymentNext]_payVars, NEW r \in Requests,
           request[r].status = "APPROVED"
    PROVE  request'[r].status = "APPROVED"
<1>. request \in [Requests -> Documents]
  BY DEF MoneyInvariant, PaymentTypeOK, Documents
<1>1. ASSUME NEW q \in Requests,
             \/ CreateDeposit(q) \/ CreateCheckout(q) \/ Cancel(q) \/ Lapse(q)
             \/ ExpireBankTopup(q)
      PROVE  request'[r] = request[r]
  <2>1. Others(q) /\ request[q].status # "APPROVED"
    BY <1>1, AskIsOfRequest
    DEF MoneyInvariant, CreateDeposit, CreateCheckout, Cancel, Lapse,
        ExpireBankTopup
  <2>. QED  BY <2>1 DEF Others
<1>2. ASSUME NEW q \in Requests, ApproveByHand(q) \/ LeaseAges(q)
      PROVE  request'[r].status = "APPROVED"
  <2>1. CASE ApproveByHand(q)
    BY <2>1 DEF ApproveByHand, Documents
  <2>2. CASE LeaseAges(q)
    BY <2>2 DEF LeaseAges, Documents
  <2>. QED  BY <1>2, <2>1, <2>2
<1>3. ASSUME NEW t \in Transfers, Process(t)
      PROVE  request'[r].status = "APPROVED"
  <2>1. PICK b \in Branch : <<t, b>> \in handling
    BY <1>3 DEF Process, Approve, Supplement, Mismatch, Fallback,
                ApproveAgain, ApproveMoney, ApproveSale, ApproveAborts, Branch
  <2>2. wire[t].code \in Requests
    BY <2>1 DEF MoneyInvariant, Books, HandledIsWired
  <2>3. \/ UNCHANGED request
        \/ \E cart \in {"FULFILLED", "FAILED"} : Claim(wire[t].code, t, cart)
    BY <1>3 DEF Process, Approve, Supplement, Mismatch, Fallback,
                ApproveAgain, ApproveMoney, ApproveSale, ApproveAborts
  <2>4. CASE \E cart \in {"FULFILLED", "FAILED"} : Claim(wire[t].code, t, cart)
    BY <2>2, <2>4, ClaimIsOfRequest DEF MoneyInvariant, Others
  <2>. QED  BY <2>3, <2>4
<1>4. CASE Fulfill
  <2>1. ASSUME NEW f \in Fulfillers, NEW q \in Requests, TakeLease(f, q)
        PROVE  request'[r].status = "APPROVED"
    BY <2>1 DEF TakeLease, Documents
  <2>2. ASSUME NEW f \in Fulfillers, FinishLease(f)
        PROVE  request'[r].status = "APPROVED"
    BY <2>2 DEF FinishLease, Documents
  <2>3. ASSUME NEW f \in Fulfillers, Purchase(f) \/ FulfillerStops(f)
        PROVE  request'[r].status = "APPROVED"
    BY <2>3 DEF Purchase, FulfillerStops, docVars
  <2>. QED  BY <1>4, <2>1, <2>2, <2>3 DEF Fulfill
<1>5. ASSUME UNCHANGED request PROVE request'[r].status = "APPROVED"
  BY <1>5
<1>6. CASE Report
  BY <1>3, <1>5, <1>6 DEF Report, Transfer, Find, CallbackFails
<1>7. CASE ElsewhereInTheShop \/ \E u \in Customers : AdjustWallet(u)
  BY <1>5, <1>7 DEF ElsewhereInTheShop, AdjustWallet, docVars
<1>. QED
  BY <1>1, <1>2, <1>4, <1>5, <1>6, <1>7 DEF PaymentNext, Ask, payVars, docVars

-----------------------------------------------------------------------------
(* A sale: the orders of r are stored and its coupon is redeemed.          *)
Sale(r) == Sell(r) /\ CouponStands(r) /\ r \notin bought

SaleByBank(t) == ApproveSale(t) /\ Sale(wire[t].code)
SaleByFulfiller(f) == /\ Purchase(f) /\ work[f].step = "buy"
                      /\ Sale(work[f].on)

(* The only steps that change the orders or the coupon.                    *)
LEMMA EverySale ==
    ASSUME MoneyInvariant, BoughtIsApproved, [PaymentNext]_payVars
    PROVE  \/ UNCHANGED <<bought, couponVars>>
           \/ UNCHANGED bought /\ \E c \in Terms : EditCoupon(c)
           \/ \E t \in Transfers : SaleByBank(t)
           \/ \E f \in Fulfillers : SaleByFulfiller(f)
<1>1. CASE Ask
  BY <1>1 DEF Ask, CreateDeposit, CreateCheckout, Cancel, Lapse,
              ExpireBankTopup, ApproveByHand, LeaseAges, RequestOnly, saleVars
<1>2. ASSUME NEW t \in Transfers, ApproveSale(t) PROVE SaleByBank(t)
  BY <1>2 DEF SaleByBank, Sale, ApproveSale, Unpaid, BoughtIsApproved
<1>3. CASE Report
  BY <1>2, <1>3
  DEF Report, Process, Approve, Supplement, Mismatch, Fallback, ApproveAgain,
      ApproveMoney, ApproveAborts, Transfer, Find, CallbackFails, saleVars
<1>4. ASSUME NEW f \in Fulfillers, Purchase(f)
      PROVE  UNCHANGED <<bought, couponVars>> \/ SaleByFulfiller(f)
  BY <1>4 DEF Purchase, SaleByFulfiller, Sale, KnownBatch
<1>5. CASE Fulfill
  BY <1>4, <1>5 DEF Fulfill, TakeLease, FinishLease, FulfillerStops, saleVars
<1>6. CASE ElsewhereInTheShop
  BY <1>6 DEF ElsewhereInTheShop, Surroundings, BuyByWallet
<1>7. CASE \E u \in Customers : AdjustWallet(u)
  BY <1>7 DEF AdjustWallet, saleVars
<1>8. CASE UNCHANGED payVars
  BY <1>8 DEF payVars, saleVars
<1>. QED  BY <1>1, <1>3, <1>5, <1>6, <1>7, <1>8 DEF PaymentNext

(* Whoever sells does so for a request.                                    *)
LEMMA SaleIsOfRequest ==
    ASSUME MoneyInvariant
    PROVE  /\ \A t \in Transfers : SaleByBank(t) => wire[t].code \in Requests
           /\ \A f \in Fulfillers :
                 SaleByFulfiller(f) => work[f].on \in Requests
BY DEF SaleByBank, SaleByFulfiller, ApproveSale, MoneyInvariant, Books,
       HandledIsWired, BuysForRequest, Branch

LEMMA ApprovedKept ==
    ASSUME MoneyInvariant, MoneyInvariant', BoughtIsApproved,
           [PaymentNext]_payVars
    PROVE  BoughtIsApproved'
<1>1. bought \subseteq Requests
  BY DEF MoneyInvariant, PaymentTypeOK
<1>2. ASSUME NEW r \in bought' PROVE request'[r].status = "APPROVED"
  <2>1. CASE r \in bought
    BY <1>1, <2>1, ApprovedStays DEF BoughtIsApproved
  <2>2. ASSUME NEW t \in Transfers, SaleByBank(t), r \notin bought
        PROVE  request'[r].status = "APPROVED"
    <3>1. r = wire[t].code /\ Claim(r, t, "FULFILLED") /\ r \in Requests
      BY <1>2, <2>2, SaleIsOfRequest DEF SaleByBank, Sale, Sell, ApproveSale
    <3>. QED  BY <3>1, ClaimIsOfRequest DEF MoneyInvariant
  <2>3. ASSUME NEW f \in Fulfillers, SaleByFulfiller(f), r \notin bought
        PROVE  request'[r].status = "APPROVED"
    <3>1. r = work[f].on /\ r \in Requests
      BY <1>2, <2>3, SaleIsOfRequest DEF SaleByFulfiller, Sale, Sell
    <3>. QED
      BY <2>3, <3>1, ApprovedStays DEF SaleByFulfiller, BoughtIsApproved
  <2>. QED  BY <1>2, <2>1, <2>2, <2>3, EverySale
<1>3. ASSUME NEW f \in Fulfillers, work'[f].step # "idle"
      PROVE  request'[work'[f].on].status = "APPROVED"
  <2>. /\ work \in [Fulfillers -> [on: Requests \cup {None},
                                   step: {"idle", "buy", "done", "failed"}]]
       /\ request \in [Requests -> Documents]
    BY DEF MoneyInvariant, PaymentTypeOK, Documents
  <2>1. CASE work[f].step # "idle" /\ work'[f].on = work[f].on
    BY <2>1, ApprovedStays DEF BoughtIsApproved, MoneyInvariant, BuysForRequest
  <2>2. ASSUME NEW q \in Requests, TakeLease(f, q)
        PROVE  request'[work'[f].on].status = "APPROVED"
    <3>1. work'[f].on = q /\ request[q].status = "APPROVED"
      BY <2>2 DEF TakeLease, Leasable
    <3>. QED  BY <3>1, ApprovedStays
  <2>3. \/ work[f].step # "idle" /\ work'[f].on = work[f].on
        \/ \E q \in Requests : TakeLease(f, q)
    <3>1. CASE work'[f] = work[f]
      BY <1>3, <3>1
    <3>2. ASSUME NEW g \in Fulfillers,
                 \/ \E q \in Requests : TakeLease(g, q)
                 \/ Purchase(g) \/ FinishLease(g) \/ FulfillerStops(g),
                 work'[f] # work[f]
          PROVE  f = g
      BY <3>2 DEF TakeLease, Purchase, Step, FinishLease, FulfillerStops
    <3>3. CASE Purchase(f)
      BY <3>3 DEF Purchase, Step
    <3>4. CASE FinishLease(f) \/ FulfillerStops(f)
      BY <1>3, <3>4 DEF FinishLease, FulfillerStops, Rest
    <3>5. Fulfill \/ UNCHANGED work
      BY DEF PaymentNext, Ask, CreateDeposit, CreateCheckout, Cancel, Lapse,
             ExpireBankTopup, ApproveByHand, LeaseAges, RequestOnly, Report,
             Process, Approve, Supplement, Mismatch, Fallback, ApproveAgain,
             ApproveMoney, ApproveSale, ApproveAborts, Transfer, Find,
             CallbackFails, ElsewhereInTheShop, AdjustWallet, payVars
    <3>. QED  BY <3>1, <3>2, <3>3, <3>4, <3>5 DEF Fulfill
  <2>. QED  BY <2>1, <2>2, <2>3
<1>. QED  BY <1>2, <1>3 DEF BoughtIsApproved

-----------------------------------------------------------------------------
(* The coupon.                                                             *)

LEMMA SaleKeepsBooks ==
    ASSUME CouponInvariant, NEW r \in Requests, Sale(r)
    PROVE  IsFiniteSet(redeemed)' /\ CouponBooks'
<1>1. bought' = bought \cup {r} /\ r \notin bought
  BY DEF Sale, Sell
<1>2. CASE r \notin Couponed
  BY <1>1, <1>2 DEF Sale, Sell, TakeCoupon, couponVars, CouponInvariant,
                    CouponBooks
<1>3. CASE r \in Couponed
  <2>1. /\ redeemed' = redeemed \cup {<<Owner[r], r>>}
        /\ uses' = uses + 1 /\ terms' = terms /\ uses < terms.limit
    BY <1>3 DEF Sale, Sell, TakeCoupon, Redeem, CouponStands, CanRedeem,
                Applies
  <2>2. <<Owner[r], r>> \notin redeemed
    BY <1>1 DEF CouponInvariant, CouponBooks
  <2>3. /\ IsFiniteSet(redeemed) /\ uses = Cardinality(redeemed)
        /\ redeemed = {<<Owner[q], q>> : q \in bought \cap Couponed}
    BY DEF CouponInvariant, CouponBooks
  <2>4. /\ IsFiniteSet(redeemed')
        /\ Cardinality(redeemed') = Cardinality(redeemed) + 1
    BY <2>1, <2>2, <2>3, FS_AddElement
  <2>5. uses' <= terms'.limit
    <3>1. uses \in Nat /\ terms.limit \in Nat
      BY <2>3, FS_CardinalityType, TermsAreSound
      DEF CouponInvariant, MoneyInvariant
    <3>. QED  BY <2>1, <3>1
  <2>6. redeemed' = {<<Owner[q], q>> : q \in bought' \cap Couponed}
    BY <1>1, <1>3, <2>1, <2>3
  <2>. QED  BY <2>1, <2>3, <2>4, <2>5, <2>6 DEF CouponBooks
<1>. QED  BY <1>2, <1>3

LEMMA BooksBegin == PaymentInit => CouponInvariant
<1>. SUFFICES ASSUME PaymentInit PROVE CouponInvariant
  OBVIOUS
<1>1. BoughtIsApproved
  BY DEF PaymentInit, BoughtIsApproved, Rest
<1>2. IsFiniteSet(redeemed) /\ Cardinality(redeemed) = 0
  BY FS_EmptySet DEF PaymentInit, CouponInit
<1>3. CouponBooks
  BY <1>2, TermsAreSound DEF PaymentInit, CouponInit, CouponBooks
<1>. QED  BY <1>1, <1>2, <1>3, MoneyBegins DEF CouponInvariant

LEMMA BooksKept ==
    ASSUME CouponInvariant, [PaymentNext]_payVars
    PROVE  CouponInvariant'
<1>1. MoneyInvariant' /\ BoughtIsApproved'
  BY MoneyKept, ApprovedKept DEF CouponInvariant
<1>2. CASE UNCHANGED <<bought, couponVars>>
  BY <1>1, <1>2 DEF CouponInvariant, CouponBooks, couponVars
<1>3. CASE UNCHANGED bought /\ \E c \in Terms : EditCoupon(c)
  BY <1>1, <1>3 DEF CouponInvariant, CouponBooks, EditCoupon, MoneyInvariant,
                    PaymentTypeOK
<1>4. ASSUME NEW r \in Requests, Sale(r) PROVE CouponInvariant'
  BY <1>1, <1>4, SaleKeepsBooks DEF CouponInvariant
<1>. QED
  BY <1>2, <1>3, <1>4, EverySale, SaleIsOfRequest
  DEF CouponInvariant, SaleByBank, SaleByFulfiller

(* However callbacks, fulfillers and edits of the coupon race, even when a *)
(* fulfiller outlives its lease, the coupon is counted once for each       *)
(* checkout that has orders, and its limit for all customers together is   *)
(* kept (coupons.service.ts:150-190).                                      *)
THEOREM CouponIsCounted == PaymentSpec => []CouponBooks
<1>1. CouponInvariant => CouponBooks
  BY DEF CouponInvariant
<1>. QED  BY <1>1, BooksBegin, BooksKept, PTL DEF PaymentSpec

(* A sale uses the coupon once more for its customer, within the terms.    *)
LEMMA SaleKeepsOwnLimit ==
    ASSUME CouponInvariant, NEW r \in Requests, Sale(r), NEW u \in Customers,
           UsesOf(u)' > UsesOf(u)
    PROVE  UsesOf(u)' <= terms'.perUser
<1>. DEFINE Mine == {x \in redeemed : x[1] = u}
            Mine2 == {x \in redeemed' : x[1] = u}
<1>1. IsFiniteSet(Mine) /\ UsesOf(u) \in Nat
  <2>1. IsFiniteSet(Mine)
    BY FS_Subset DEF CouponInvariant
  <2>. QED  BY <2>1, FS_CardinalityType DEF UsesOf
<1>2. UsesOf(u) = Cardinality(Mine) /\ UsesOf(u)' = Cardinality(Mine2)
  BY DEF UsesOf
<1>3. r \in Couponed
  BY <1>1, <1>2 DEF Sale, Sell, TakeCoupon, couponVars
<1>4. /\ redeemed' = redeemed \cup {<<Owner[r], r>>} /\ terms' = terms
      /\ UsesOf(Owner[r]) < terms.perUser
  BY <1>3 DEF Sale, Sell, TakeCoupon, Redeem, CouponStands, CanRedeem, Applies
<1>5. u = Owner[r]
  <2>1. CASE u # Owner[r]
    <3>1. Mine2 = Mine
      BY <1>4, <2>1
    <3>2. UsesOf(u)' = UsesOf(u)
      BY <3>1, <1>2
    <3>. HIDE DEF Mine, Mine2
    <3>3. \A n \in Nat : ~(n > n)
      OBVIOUS
    <3>. QED  BY <3>2, <3>3, <1>1
  <2>. QED  BY <2>1
<1>6. Mine2 = Mine \cup {<<Owner[r], r>>}
  BY <1>4, <1>5
<1>7. UsesOf(u)' \in {UsesOf(u), UsesOf(u) + 1}
  BY <1>1, <1>2, <1>6, FS_AddElement
<1>8. terms.perUser \in Nat
  BY TermsAreSound DEF CouponInvariant, MoneyInvariant
<1>. QED  BY <1>1, <1>4, <1>5, <1>7, <1>8

(* No race makes a customer redeem the coupon more often than the terms in *)
(* force at that moment allow each customer (coupons.service.ts:152): a    *)
(* theorem for any number of checkouts, processes and edits.               *)
THEOREM OwnLimitHolds == PaymentSpec => OwnLimitKept
<1>. DEFINE Within(u) == UsesOf(u)' > UsesOf(u) => UsesOf(u)' <= terms'.perUser
<1>1. ASSUME CouponInvariant, [PaymentNext]_payVars
      PROVE  \A u \in Customers : Within(u)
  <2>. SUFFICES ASSUME NEW u \in Customers, UsesOf(u)' > UsesOf(u)
                PROVE  UsesOf(u)' <= terms'.perUser
    OBVIOUS
  <2>1. CASE UNCHANGED redeemed
    <3>1. UsesOf(u)' = UsesOf(u) /\ UsesOf(u) \in Nat
      <4>1. IsFiniteSet({x \in redeemed : x[1] = u})
        BY <1>1, FS_Subset DEF CouponInvariant
      <4>. QED  BY <2>1, <4>1, FS_CardinalityType DEF UsesOf
    <3>. QED  BY <3>1
  <2>2. ASSUME NEW r \in Requests, Sale(r) PROVE UsesOf(u)' <= terms'.perUser
    BY <1>1, <2>2, SaleKeepsOwnLimit
  <2>3. \/ UNCHANGED redeemed
        \/ \E r \in Requests : Sale(r)
    BY <1>1, EverySale, SaleIsOfRequest
    DEF CouponInvariant, couponVars, EditCoupon, SaleByBank, SaleByFulfiller
  <2>. QED  BY <2>1, <2>2, <2>3
<1>2. CouponInvariant /\ [PaymentNext]_payVars
      => [\A u \in Customers : Within(u)]_payVars
  BY <1>1
<1>. QED
  BY <1>2, BooksBegin, BooksKept, PTL DEF PaymentSpec, OwnLimitKept

-----------------------------------------------------------------------------
(* Timely money.  A checkout that was cancelled has failed, and one that   *)
(* failed is not pending any more.                                         *)
ClosedOK(r) ==
    /\ request[r].cancelled => request[r].cart = "FAILED"
    /\ request[r].cart = "FAILED"
       => request[r].status \in {"EXPIRED", "APPROVED"}
    /\ request[r].status = "NONE" => request[r].cart = "NONE"

TimelyInvariant == /\ CartInvariant /\ BoughtIsApproved
                   /\ \A r \in Requests : ClosedOK(r)

(* A step on request r that leaves the others closed as they were.         *)
LEMMA OneClosed ==
    ASSUME TimelyInvariant, NEW r \in Requests, Others(r), ClosedOK(r)'
    PROVE  \A q \in Requests : ClosedOK(q)'
BY DEF TimelyInvariant, ClosedOK, Others

LEMMA AskKeepsClosed ==
    ASSUME TimelyInvariant, NEW r \in Requests,
           \/ CreateDeposit(r) \/ CreateCheckout(r) \/ Cancel(r) \/ Lapse(r)
           \/ ExpireBankTopup(r) \/ ApproveByHand(r) \/ LeaseAges(r)
    PROVE  \A q \in Requests : ClosedOK(q)'
<1>. request \in [Requests -> Documents] /\ ClosedOK(r)
  BY DEF TimelyInvariant, CartInvariant, MoneyInvariant, PaymentTypeOK,
         Documents
<1>1. CASE CreateDeposit(r)
  <2>1. Others(r) /\ ClosedOK(r)'
    BY <1>1 DEF CreateDeposit, Documents, ClosedOK, Others
  <2>. QED  BY <2>1, OneClosed
<1>2. CASE CreateCheckout(r)
  <2>1. Others(r) /\ ClosedOK(r)'
    BY <1>2 DEF CreateCheckout, Documents, ClosedOK, Others
  <2>. QED  BY <2>1, OneClosed
<1>3. CASE Cancel(r)
  <2>1. Others(r) /\ ClosedOK(r)'
    BY <1>3 DEF Cancel, Documents, ClosedOK, Others
  <2>. QED  BY <2>1, OneClosed
<1>4. CASE Lapse(r)
  <2>1. Others(r) /\ ClosedOK(r)'
    BY <1>4 DEF Lapse, Documents, ClosedOK, Others
  <2>. QED  BY <2>1, OneClosed
<1>5. CASE ExpireBankTopup(r)
  <2>1. Others(r) /\ ClosedOK(r)'
    BY <1>5 DEF ExpireBankTopup, Documents, ClosedOK, Others
  <2>. QED  BY <2>1, OneClosed
<1>6. CASE ApproveByHand(r)
  <2>1. Others(r) /\ ClosedOK(r)'
    BY <1>6 DEF ApproveByHand, Documents, ClosedOK, Others
  <2>. QED  BY <2>1, OneClosed
<1>7. CASE LeaseAges(r)
  <2>1. Others(r) /\ ClosedOK(r)'
    BY <1>7 DEF LeaseAges, Documents, ClosedOK, Others
  <2>. QED  BY <2>1, OneClosed
<1>. QED  BY <1>1, <1>2, <1>3, <1>4, <1>5, <1>6, <1>7

(* A transfer fails a checkout, or fulfils one that is open.               *)
LEMMA ProcessKeepsClosed ==
    ASSUME TimelyInvariant, NEW t \in Transfers, Process(t)
    PROVE  \A q \in Requests : ClosedOK(q)'
<1>1. PICK b \in Branch : <<t, b>> \in handling
  BY DEF Process, Approve, Supplement, Mismatch, Fallback, ApproveAgain,
         ApproveMoney, ApproveSale, ApproveAborts, Branch
<1>2. PICK r \in Requests : r = wire[t].code
  BY <1>1, HandledRequest DEF TimelyInvariant
<1>3. request \in [Requests -> Documents] /\ ClosedOK(r) /\ PaymentTypeOK
  BY DEF TimelyInvariant, CartInvariant, MoneyInvariant, PaymentTypeOK,
         Documents
<1>4. CASE UNCHANGED request
  BY <1>4 DEF TimelyInvariant, ClosedOK
<1>5. CASE Claim(r, t, "FAILED")
  <2>1. Others(r) /\ request'[r].status = "APPROVED"
    BY <1>3, <1>5, ClaimIsOfRequest
  <2>2. /\ request'[r].cancelled = request[r].cancelled
        /\ request'[r].cart = IF IsCart(r) THEN "FAILED" ELSE "NONE"
    BY <1>3, <1>5 DEF Claim, Documents
  <2>3. ClosedOK(r)'
    <3>1. CASE request[r].cart = "FAILED"
      BY <2>1, <2>2, <3>1 DEF ClosedOK, IsCart
    <3>2. CASE request[r].cart # "FAILED"
      <4>1. ~request[r].cancelled
        BY <1>3, <3>2 DEF ClosedOK
      <4>2. ~request'[r].cancelled
        BY <2>2, <4>1, Zenon
      <4>. QED  BY <2>1, <4>2 DEF ClosedOK
    <3>. QED  BY <3>1, <3>2
  <2>. QED  BY <2>1, <2>3, OneClosed
<1>6. CASE ApproveSale(t)
  <2>1. /\ Claim(r, t, "FULFILLED") /\ request[r].status = "PENDING"
        /\ ~request[r].cancelled
    BY <1>2, <1>3, <1>6 DEF ApproveSale, InTime, ClosedOK
  <2>2. Others(r) /\ request'[r].status = "APPROVED"
    BY <1>3, <2>1, ClaimIsOfRequest
  <2>3. request'[r].cart # "FAILED" /\ ~request'[r].cancelled
    <3>1. /\ request'[r].cancelled = request[r].cancelled
          /\ request'[r].cart \in {"FULFILLED", "NONE"}
      BY <1>3, <2>1 DEF Claim, Documents
    <3>2. ~request'[r].cancelled
      BY <2>1, <3>1, Zenon
    <3>. QED  BY <3>1, <3>2
  <2>4. ClosedOK(r)'
    BY <2>2, <2>3 DEF ClosedOK
  <2>. QED  BY <2>2, <2>4, OneClosed
<1>. QED
  BY <1>2, <1>4, <1>5, <1>6
  DEF Process, Approve, Supplement, Mismatch, Fallback, ApproveAgain,
      ApproveMoney, ApproveAborts

LEMMA FulfillKeepsClosed ==
    ASSUME TimelyInvariant, Fulfill
    PROVE  \A q \in Requests : ClosedOK(q)'
<1>. request \in [Requests -> Documents]
  BY DEF TimelyInvariant, CartInvariant, MoneyInvariant, PaymentTypeOK,
         Documents
<1>1. ASSUME NEW f \in Fulfillers, NEW r \in Requests, TakeLease(f, r)
      PROVE  \A q \in Requests : ClosedOK(q)'
  <2>1. /\ request[r].status = "APPROVED"
        /\ request[r].cart \in {"PENDING_PAYMENT", "PROCESSING"}
        /\ ~request[r].cancelled
    BY <1>1 DEF TakeLease, Leasable, TimelyInvariant, ClosedOK
  <2>2. Others(r) /\ ClosedOK(r)'
    BY <1>1, <2>1 DEF TakeLease, Documents, ClosedOK, Others
  <2>. QED  BY <2>2, OneClosed
<1>2. ASSUME NEW f \in Fulfillers, FinishLease(f), request' # request
      PROVE  \A q \in Requests : ClosedOK(q)'
  <2>1. PICK r \in Requests : r = work[f].on
    BY <1>2 DEF FinishLease, TimelyInvariant, CartInvariant, MoneyInvariant,
                BuysForRequest
  <2>2. /\ request[r].cart = "PROCESSING" /\ request[r].status = "APPROVED"
        /\ request' = [request EXCEPT ![r].cart =
               IF work[f].step = "done" THEN "FULFILLED" ELSE "FAILED"]
    BY <1>2, <2>1 DEF FinishLease, HoldsLease, TimelyInvariant,
                      BoughtIsApproved
  <2>3. ~request[r].cancelled
    BY <2>2 DEF TimelyInvariant, ClosedOK
  <2>4. Others(r) /\ ClosedOK(r)'
    BY <2>2, <2>3 DEF Documents, ClosedOK, Others
  <2>. QED  BY <2>4, OneClosed
<1>3. ASSUME UNCHANGED request PROVE \A q \in Requests : ClosedOK(q)'
  BY <1>3 DEF TimelyInvariant, ClosedOK
<1>4. ASSUME NEW f \in Fulfillers, Purchase(f) \/ FulfillerStops(f)
      PROVE  \A q \in Requests : ClosedOK(q)'
  BY <1>3, <1>4 DEF Purchase, FulfillerStops, docVars
<1>. QED  BY <1>1, <1>2, <1>3, <1>4 DEF Fulfill

LEMMA TimelyBegins == PaymentInit => TimelyInvariant
<1>. SUFFICES ASSUME PaymentInit PROVE TimelyInvariant
  OBVIOUS
<1>1. \A r \in Requests : ClosedOK(r)
  BY DEF PaymentInit, Blank, ClosedOK
<1>. QED
  BY <1>1, CartsBegin, BooksBegin DEF TimelyInvariant, CouponInvariant

LEMMA TimelyKept ==
    ASSUME ~MayStall, TimelyInvariant, [PaymentNext]_payVars
    PROVE  TimelyInvariant'
<1>1. CartInvariant' /\ BoughtIsApproved'
  BY CartsKept, ApprovedKept DEF TimelyInvariant, CartInvariant
<1>2. ASSUME UNCHANGED request PROVE \A q \in Requests : ClosedOK(q)'
  BY <1>2 DEF TimelyInvariant, ClosedOK
<1>3. CASE Ask
  BY <1>1, <1>3, AskKeepsClosed DEF Ask, TimelyInvariant
<1>4. CASE Report
  BY <1>1, <1>2, <1>4, ProcessKeepsClosed
  DEF Report, Transfer, Find, CallbackFails, TimelyInvariant
<1>5. CASE Fulfill
  BY <1>1, <1>5, FulfillKeepsClosed DEF TimelyInvariant
<1>6. CASE ElsewhereInTheShop \/ \E u \in Customers : AdjustWallet(u)
  BY <1>1, <1>2, <1>6
  DEF ElsewhereInTheShop, AdjustWallet, docVars, TimelyInvariant
<1>7. CASE UNCHANGED payVars
  BY <1>1, <1>2, <1>7 DEF payVars, docVars, TimelyInvariant
<1>. QED  BY <1>3, <1>4, <1>5, <1>6, <1>7 DEF PaymentNext

(* What a sale finds out about its request.                                *)
Timely(r) ==
    /\ request[r].cart # "FAILED" /\ ~request[r].cancelled
    /\ request[r].status = "PENDING" =>
          /\ ~request[r].late
          /\ wire[request'[r].reference].amount = request[r].amount

LEMMA SaleIsTimely ==
    ASSUME TimelyInvariant, [PaymentNext]_payVars, NEW r \in bought' \ bought
    PROVE  Timely(r)
<1>. MoneyInvariant /\ BoughtIsApproved
  BY DEF TimelyInvariant, CartInvariant
<1>1. ASSUME NEW t \in Transfers, SaleByBank(t) PROVE Timely(r)
  <2>1. /\ r = wire[t].code /\ Claim(r, t, "FULFILLED")
        /\ IsCart(r) /\ InTime(r) /\ <<t, "approve">> \in handling
    BY <1>1 DEF SaleByBank, Sale, Sell, ApproveSale
  <2>2. r \in Requests /\ request[r].amount = wire[t].amount
    BY <2>1, ComparedAmount
  <2>3. request'[r].reference = t
    BY <2>1, <2>2, ClaimIsOfRequest DEF MoneyInvariant
  <2>4. request[r].cart # "FAILED" /\ ~request[r].cancelled
    BY <2>1, <2>2 DEF InTime, TimelyInvariant, ClosedOK
  <2>. QED  BY <2>1, <2>2, <2>3, <2>4 DEF Timely, InTime
<1>2. ASSUME NEW f \in Fulfillers, SaleByFulfiller(f) PROVE Timely(r)
  <2>1. r = work[f].on /\ work[f].step = "buy" /\ r \in Requests
    BY <1>2, SaleIsOfRequest DEF SaleByFulfiller, Sale, Sell
  <2>2. request[r].cart = "PROCESSING" /\ request[r].status = "APPROVED"
    BY <2>1 DEF TimelyInvariant, CartInvariant, WorkOK, BoughtIsApproved
  <2>3. ~request[r].cancelled
    BY <2>1, <2>2 DEF TimelyInvariant, ClosedOK
  <2>. QED  BY <2>2, <2>3 DEF Timely
<1>. QED  BY <1>1, <1>2, EverySale DEF couponVars

(* When no fulfiller outlives its lease, a transfer sells only what is     *)
(* open, in time and asked for with this very amount, and a checkout that  *)
(* failed or was cancelled never sells (payment.service.ts:183-185,        *)
(* 500-575).                                                               *)
THEOREM MoneyIsTimely ==
    ASSUME ~MayStall
    PROVE  PaymentSpec => OnlyTimelyMoneyBuys
<1>. DEFINE Buys == /\ \A r \in bought' \ bought : Timely(r)
                    /\ bought \subseteq bought'
<1>1. TimelyInvariant /\ [PaymentNext]_payVars => [Buys]_payVars
  <2>. SUFFICES ASSUME TimelyInvariant, [PaymentNext]_payVars PROVE Buys
    OBVIOUS
  <2>1. bought \subseteq bought'
    BY EverySale
    DEF TimelyInvariant, CartInvariant, SaleByBank, SaleByFulfiller, Sale, Sell
  <2>. QED  BY <2>1, SaleIsTimely
<1>2. TimelyInvariant /\ [PaymentNext]_payVars => TimelyInvariant'
  BY TimelyKept
<1>3. PaymentSpec => [][Buys]_payVars
  BY <1>1, <1>2, TimelyBegins, PTL DEF PaymentSpec
<1>. QED  BY <1>3 DEF OnlyTimelyMoneyBuys, Timely
=============================================================================
