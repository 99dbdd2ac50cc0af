---------------------------- MODULE PaymentProofs ----------------------------
(***************************************************************************)
(* No answered transfer is missing from the wallet, for any number of      *)
(* customers, requests, transfers and fulfillers, as long as no item of    *)
(* the shelf is jammed.  What a callback found out about its request       *)
(* before its transaction stays true until then: the request exists, it    *)
(* asks for the amount that was compared, and a request that names a       *)
(* transfer has its money.                                                 *)
(***************************************************************************)
EXTENDS Payment, TLAPS

Documents == [status: RequestStatus, amount: Nat,
              reference: Transfers \cup {None}, cart: CartStatus,
              late: BOOLEAN, cancelled: BOOLEAN,
              holder: Fulfillers \cup {None}, aged: BOOLEAN]

(* A transfer that is processed or answered names a request, a request     *)
(* that a transfer names has been asked for, and whoever buys does so for  *)
(* a request.                                                              *)
HandledIsWired ==
    \A t \in Transfers :
        (t \in answered \/ \E b \in Branch : <<t, b>> \in handling)
        => wire[t].code \in Requests
WiredIsAsked ==
    \A t \in Transfers :
        IF wire[t].code \in Requests
        THEN request[wire[t].code].status # "NONE"
        ELSE wire[t] = NoWire
BuysForRequest ==
    \A f \in Fulfillers : work[f].step # "idle" => work[f].on \in Requests

(* What was compared stays compared, and a reference is a credit.          *)
SameAmount ==
    \A t \in Transfers, b \in {"approve", "fallback"} :
        <<t, b>> \in handling => request[wire[t].code].amount = wire[t].amount
ReferenceIsCredited ==
    \A t \in Transfers, r \in Requests :
        request[r].reference = t
        => wire[t].code = r /\ CreditOf(t) = wire[t].amount

CreditedOnce == \A t \in Transfers : CreditOf(t) \in {0, wire[t].amount}
NothingSwallowed ==
    MayJam \/ \A t \in answered : CreditOf(t) = wire[t].amount

Books == /\ HandledIsWired /\ WiredIsAsked /\ SameAmount
         /\ ReferenceIsCredited /\ CreditedOnce /\ NothingSwallowed

MoneyInvariant == /\ PaymentTypeOK /\ terms \in Terms /\ BuysForRequest
                  /\ Books /\ (jammed => MayJam)

-----------------------------------------------------------------------------
(* The price of a coupon is a number.                                      *)
LEMMA LeastOfThree ==
    ASSUME NEW a \in Int, NEW b \in Int, NEW c \in Int
    PROVE  Least({a, b, c}) \in {a, b, c}
<1>1. \E x \in {a, b, c} : \A y \in {a, b, c} : x <= y
  <2>1. CASE a <= b /\ a <= c  BY <2>1
  <2>2. CASE b <= a /\ b <= c  BY <2>2
  <2>3. CASE c <= a /\ c <= b  BY <2>3
  <2>. QED  BY <2>1, <2>2, <2>3
<1>. QED  BY <1>1 DEF Least

LEMMA DiscountIsInt ==
    ASSUME NEW c \in Terms, NEW subtotal \in Int
    PROVE  Discount(c, subtotal) \in Int
<1>1. c.cap \in Int /\ c.value \in Int
  BY TermsAreSound
<1>2. subtotal * c.value \in Int
  BY <1>1
<1>3. (IF c.percent THEN (subtotal * c.value) \div 100 ELSE c.value) \in Int
  BY <1>1, <1>2
<1>. QED  BY <1>1, <1>3, LeastOfThree DEF Discount

LEMMA QuoteIsInt ==
    ASSUME terms \in Terms, NEW r \in Requests
    PROVE  Quote(r) \in Int
<1>1. Subtotal(r) \in Int
  BY PaymentConstants DEF Subtotal
<1>. QED  BY <1>1, DiscountIsInt DEF Quote

(* Posting keeps the wallet in order.                                      *)
LEMMA PostKeepsTypes ==
    ASSUME balance \in [Customers -> Nat], ledger \in [Keys -> Int],
           NEW key \in Keys, NEW u \in Customers, NEW amount \in Int,
           NEW anyone, Post(key, u, amount, anyone)
    PROVE  balance' \in [Customers -> Nat] /\ ledger' \in [Keys -> Int]
BY DEF Post, walletVars

(* A row of another key stays; that of this key is there afterwards.       *)
LEMMA PostKeepsRows ==
    ASSUME ledger \in [Keys -> Int],
           NEW key \in Keys, NEW u, NEW amount \in Int,
           NEW anyone, Post(key, u, amount, anyone),
           NEW k \in Keys
    PROVE  /\ k # key => ledger'[k] = ledger[k]
           /\ ledger[key] \in {0, amount} => ledger'[key] = amount
           /\ ledger[key] # 0 => ledger'[key] = ledger[key]
BY DEF Post, walletVars

-----------------------------------------------------------------------------
(* One document changes.                                                   *)
Others(r) == \A q \in Requests : q # r => request'[q] = request[q]

LEMMA ClaimIsOfRequest ==
    ASSUME PaymentTypeOK, NEW r \in Requests, NEW t \in Transfers,
           NEW cart \in {"FULFILLED", "FAILED"}, Claim(r, t, cart)
    PROVE  /\ request' \in [Requests -> Documents]
           /\ request'[r].status = "APPROVED" /\ request'[r].reference = t
           /\ request'[r].amount = request[r].amount
           /\ request'[r].cart # "PROCESSING"
           /\ Others(r)
<1>1. request \in [Requests -> Documents]
  BY DEF PaymentTypeOK, Documents
<1>2. request' = [request EXCEPT ![r] =
          [request[r] EXCEPT !.status = "APPROVED", !.reference = t,
                             !.cart = IF IsCart(r) THEN cart ELSE "NONE"]]
  BY <1>1 DEF Claim
<1>3. /\ request'[r].status = "APPROVED" /\ request'[r].reference = t
      /\ request'[r].amount = request[r].amount
      /\ request'[r].cart = IF IsCart(r) THEN cart ELSE "NONE"
      /\ Others(r)
  BY <1>1, <1>2 DEF Documents, Others
<1>4. [request[r] EXCEPT !.status = "APPROVED", !.reference = t,
                         !.cart = IF IsCart(r) THEN cart ELSE "NONE"]
         \in Documents
  <2>1. (IF IsCart(r) THEN cart ELSE "NONE") \in CartStatus
    BY DEF CartStatus
  <2>. QED  BY <1>1, <2>1 DEF Documents, RequestStatus
<1>5. request' \in [Requests -> Documents]
  BY <1>1, <1>2, <1>4
<1>. QED  BY <1>3, <1>5

(* A request that only ages, lapses or is asked for.                       *)
LEMMA AskIsOfRequest ==
    ASSUME PaymentTypeOK, terms \in Terms, NEW r \in Requests,
           \/ CreateDeposit(r) \/ CreateCheckout(r) \/ Cancel(r) \/ Lapse(r)
           \/ ExpireBankTopup(r) \/ LeaseAges(r)
    PROVE  /\ request' \in [Requests -> Documents]
           /\ request'[r].reference = request[r].reference
           /\ request[r].status # "NONE"
              => /\ request'[r].status # "NONE"
                 /\ request'[r].amount = request[r].amount
           /\ request'[r].cart = "PROCESSING"
              => /\ request[r].cart = "PROCESSING"
                 /\ request'[r].holder = request[r].holder
           /\ Others(r)
           /\ RequestOnly
<1>1. request \in [Requests -> Documents] /\ request[r] \in Documents
  BY DEF PaymentTypeOK, Documents
<1>2. CASE CreateDeposit(r)
  <2>1. PICK a \in Deposits : request' = [request EXCEPT ![r] =
            [request[r] EXCEPT !.status = "PENDING", !.amount = a]]
    BY <1>1, <1>2 DEF CreateDeposit
  <2>2. a \in Nat /\ request[r].status = "NONE"
    BY <1>2, <2>1, PaymentConstants DEF CreateDeposit
  <2>. QED
    BY <1>1, <1>2, <2>1, <2>2
    DEF Documents, Others, RequestStatus, CreateDeposit
<1>3. CASE CreateCheckout(r)
  <2>1. Quote(r) \in Nat
    BY <1>3, QuoteIsInt DEF CreateCheckout
  <2>2. request' = [request EXCEPT ![r] =
            [request[r] EXCEPT !.status = "PENDING", !.amount = Quote(r),
                               !.cart = "PENDING_PAYMENT"]]
    BY <1>1, <1>3 DEF CreateCheckout
  <2>. QED
    BY <1>1, <1>3, <2>1, <2>2
    DEF Documents, Others, RequestStatus, CartStatus, CreateCheckout
<1>4. CASE Cancel(r)
  <2>1. request' = [request EXCEPT ![r] =
            [request[r] EXCEPT !.status = "EXPIRED", !.cancelled = TRUE,
                               !.cart = "FAILED"]]
    BY <1>1, <1>4 DEF Cancel
  <2>. QED
    BY <1>1, <1>4, <2>1
    DEF Documents, Others, RequestStatus, CartStatus, Cancel
<1>5. CASE Lapse(r)
  BY <1>1, <1>5 DEF Documents, Others, RequestStatus, Lapse
<1>6. CASE ExpireBankTopup(r)
  BY <1>1, <1>6 DEF Documents, Others, RequestStatus, ExpireBankTopup
<1>7. CASE LeaseAges(r)
  BY <1>1, <1>7 DEF Documents, Others, RequestStatus, LeaseAges
<1>. QED
  BY <1>2, <1>3, <1>4, <1>5, <1>6, <1>7

-----------------------------------------------------------------------------
(* A step that moves no transfer.                                          *)
LEMMA BooksStay ==
    ASSUME PaymentTypeOK, Books,
           UNCHANGED <<wire, handling, answered>>,
           \A t \in Transfers : CreditOf(t)' = CreditOf(t),
           \A r \in Requests :
              /\ request'[r].reference = request[r].reference
              /\ request[r].status # "NONE"
                 => /\ request'[r].status # "NONE"
                    /\ request'[r].amount = request[r].amount
    PROVE  Books'
<1>1. HandledIsWired'
  BY DEF Books, HandledIsWired
<1>2. WiredIsAsked'
  BY DEF Books, WiredIsAsked
<1>3. SameAmount'
  <2>1. \A t \in Transfers, b \in {"approve", "fallback"} :
            <<t, b>> \in handling
            => /\ wire[t].code \in Requests
               /\ request[wire[t].code].status # "NONE"
    BY DEF Books, HandledIsWired, WiredIsAsked, Branch
  <2>. QED  BY <2>1 DEF Books, SameAmount
<1>4. ReferenceIsCredited'
  BY DEF Books, ReferenceIsCredited
<1>5. CreditedOnce' /\ NothingSwallowed'
  BY DEF Books, CreditedOnce, NothingSwallowed, PaymentTypeOK
<1>. QED  BY <1>1, <1>2, <1>3, <1>4, <1>5 DEF Books

(* A step of transfer t on its request.                                    *)
LEMMA BooksFollow ==
    ASSUME PaymentTypeOK, Books, UNCHANGED wire,
           NEW t \in Transfers, wire[t].code \in Requests,
           NEW r, r = wire[t].code,
           Others(r),
           request'[r].status # "NONE",
           request'[r].amount = request[r].amount,
           request'[r].reference \in {request[r].reference, t},
           \A s \in Transfers \ {t} : CreditOf(s)' = CreditOf(s),
           CreditOf(t)' \in {CreditOf(t), wire[t].amount},
           (t \in answered' /\ ~MayJam) \/ request'[r].reference = t
              => CreditOf(t)' = wire[t].amount,
           answered' \subseteq answered \cup {t},
           handling' \subseteq handling \cup {<<t, "fallback">>},
           <<t, "fallback">> \in handling'
              => \E b \in {"approve", "fallback"} : <<t, b>> \in handling
    PROVE  Books'
<1>1. HandledIsWired'
  <2>. SUFFICES ASSUME NEW s \in Transfers,
                       \/ s \in answered'
                       \/ \E b \in Branch : <<s, b>> \in handling'
                PROVE  wire'[s].code \in Requests
    BY DEF HandledIsWired
  <2>1. CASE s = t
    BY <2>1
  <2>2. CASE s # t
    BY <2>2 DEF Books, HandledIsWired
  <2>. QED  BY <2>1, <2>2
<1>2. WiredIsAsked'
  BY DEF Books, WiredIsAsked, Others
<1>3. SameAmount'
  <2>. SUFFICES ASSUME NEW s \in Transfers, NEW b \in {"approve", "fallback"},
                       <<s, b>> \in handling'
                PROVE  request'[wire[s].code].amount = wire[s].amount
    BY DEF SameAmount
  <2>1. \E c \in {"approve", "fallback"} : <<s, c>> \in handling
    OBVIOUS
  <2>2. /\ wire[s].code \in Requests
        /\ request[wire[s].code].amount = wire[s].amount
    BY <2>1 DEF Books, HandledIsWired, SameAmount, Branch
  <2>. QED  BY <2>2 DEF Others
<1>4. ReferenceIsCredited'
  <2>. SUFFICES ASSUME NEW s \in Transfers, NEW q \in Requests,
                       request'[q].reference = s
                PROVE  wire[s].code = q /\ CreditOf(s)' = wire[s].amount
    BY DEF ReferenceIsCredited
  <2>1. CASE q = r /\ s = t
    BY <2>1
  <2>2. CASE q = r /\ s # t
    BY <2>2 DEF Books, ReferenceIsCredited
  <2>3. CASE q # r
    <3>1. request[q].reference = s
      BY <2>3 DEF Others
    <3>2. wire[s].code = q /\ CreditOf(s) = wire[s].amount /\ s # t
      BY <2>3, <3>1 DEF Books, ReferenceIsCredited
    <3>. QED  BY <3>2
  <2>. QED  BY <2>1, <2>2, <2>3
<1>5. CreditedOnce'
  BY DEF Books, CreditedOnce
<1>6. NothingSwallowed'
  <2>. SUFFICES ASSUME ~MayJam, NEW s \in answered'
                PROVE  CreditOf(s)' = wire[s].amount
    BY DEF NothingSwallowed
  <2>1. CASE s = t
    BY <2>1
  <2>2. CASE s # t
    <3>1. s \in answered /\ s \in Transfers
      BY <2>2 DEF PaymentTypeOK
    <3>. QED  BY <2>2, <3>1 DEF Books, NothingSwallowed
  <2>. QED  BY <2>1, <2>2
<1>. QED  BY <1>1, <1>2, <1>3, <1>4, <1>5, <1>6 DEF Books

-----------------------------------------------------------------------------
(* One lemma per action, or per kind of action.                            *)

LEMMA MoneyBegins == PaymentInit => MoneyInvariant
<1>. SUFFICES ASSUME PaymentInit PROVE MoneyInvariant
  OBVIOUS
<1>1. PaymentTypeOK
  <2>1. Blank \in Documents
    BY DEF Blank, Documents, RequestStatus, CartStatus
  <2>2. request \in [Requests -> Documents]
    BY <2>1 DEF PaymentInit
  <2>3. wire \in [Transfers -> [code: Requests \cup {None}, amount: Nat]]
    BY DEF PaymentInit, NoWire
  <2>4. work \in [Fulfillers -> [on: Requests \cup {None},
                                 step: {"idle", "buy", "done", "failed"}]]
    BY DEF PaymentInit, Rest
  <2>5. Opening \in Nat /\ Shelf \in Nat
    BY PaymentConstants
  <2>6. \A r \in Requests : request[r].cart # "PROCESSING"
    BY DEF PaymentInit, Blank
  <2>7. balance \in [Customers -> Nat] /\ ledger \in [Keys -> Int]
    BY <2>5 DEF PaymentInit
  <2>8. /\ handling \subseteq Transfers \X Branch
        /\ answered \subseteq Transfers
        /\ bought \subseteq Requests /\ active \subseteq Customers
        /\ jammed \in BOOLEAN /\ stock \in Nat
        /\ product \in {"ACTIVE", "PAUSED", "DELETED"}
    BY <2>5 DEF PaymentInit
  <2>. QED
    BY <2>2, <2>3, <2>4, <2>6, <2>7, <2>8 DEF PaymentTypeOK, Documents
<1>2. CouponInit /\ terms \in Terms /\ BuysForRequest /\ ~jammed
  BY DEF PaymentInit, CouponInit, BuysForRequest, Rest
<1>3. \A t \in Transfers : CreditOf(t) = 0 /\ wire[t] = NoWire
  BY DEF PaymentInit, CreditOf, Keys
<1>4. Books
  <2>1. None \notin Requests /\ \A t \in Transfers : t # None
    BY PaymentConstants
  <2>. QED
    BY <1>3, <2>1
    DEF PaymentInit, Books, HandledIsWired, WiredIsAsked, SameAmount,
        ReferenceIsCredited, CreditedOnce, NothingSwallowed, NoWire, Blank
<1>. QED  BY <1>1, <1>2, <1>4 DEF MoneyInvariant

LEMMA AskKeeps ==
    ASSUME MoneyInvariant, NEW r \in Requests,
           \/ CreateDeposit(r) \/ CreateCheckout(r) \/ Cancel(r) \/ Lapse(r)
           \/ ExpireBankTopup(r) \/ LeaseAges(r)
    PROVE  MoneyInvariant'
<1>1. /\ request' \in [Requests -> Documents]
      /\ request'[r].reference = request[r].reference
      /\ request[r].status # "NONE"
         => /\ request'[r].status # "NONE"
            /\ request'[r].amount = request[r].amount
      /\ request'[r].cart = "PROCESSING"
         => /\ request[r].cart = "PROCESSING"
            /\ request'[r].holder = request[r].holder
      /\ Others(r)
      /\ RequestOnly
  BY AskIsOfRequest DEF MoneyInvariant
<1>2. \A q \in Requests : request'[q].cart = "PROCESSING"
                          => request'[q].holder \in Fulfillers
  BY <1>1 DEF Others, MoneyInvariant, PaymentTypeOK
<1>3. PaymentTypeOK'
  BY <1>1, <1>2
  DEF MoneyInvariant, PaymentTypeOK, RequestOnly, walletVars, saleVars,
      shopVars, Documents
<1>4. Books'
  <2>1. \A t \in Transfers : CreditOf(t)' = CreditOf(t)
    BY <1>1 DEF RequestOnly, walletVars, CreditOf
  <2>2. \A q \in Requests :
          /\ request'[q].reference = request[q].reference
          /\ request[q].status # "NONE"
             => /\ request'[q].status # "NONE"
                /\ request'[q].amount = request[q].amount
    BY <1>1 DEF Others
  <2>. QED  BY <1>1, <2>1, <2>2, BooksStay DEF MoneyInvariant, RequestOnly
<1>. QED
  BY <1>1, <1>3, <1>4
  DEF MoneyInvariant, BuysForRequest, RequestOnly, saleVars, shopVars,
      couponVars

(* The fields of one request do not matter to the wallet's keys.           *)
LEMMA KeysDiffer ==
    ASSUME NEW t \in Transfers
    PROVE  /\ <<"bank", t>> \in Keys
           /\ \A s \in Transfers : s # t => <<"bank", s>> # <<"bank", t>>
           /\ \A x : /\ <<"hand", x>> # <<"bank", t>>
                     /\ <<"purchase", x>> # <<"bank", t>>
                     /\ <<"other", x>> # <<"bank", t>>
                     /\ <<"admin", x>> # <<"bank", t>>
BY DEF Keys

LEMMA ByHandKeeps ==
    ASSUME MoneyInvariant, NEW r \in Requests, ApproveByHand(r)
    PROVE  MoneyInvariant'
<1>1. request \in [Requests -> Documents] /\ request[r] \in Documents
  BY DEF MoneyInvariant, PaymentTypeOK, Documents
<1>2. /\ request' \in [Requests -> Documents]
      /\ request'[r].status = "APPROVED"
      /\ request'[r].reference = request[r].reference
      /\ request'[r].amount = request[r].amount
      /\ request'[r].cart = request[r].cart
      /\ request'[r].holder = request[r].holder
      /\ Others(r)
  BY <1>1 DEF ApproveByHand, Documents, Others, RequestStatus
<1>3. /\ <<"hand", r>> \in Keys /\ Owner[r] \in Customers
      /\ request[r].amount \in Int
  BY <1>1, PaymentConstants DEF Keys, Documents
<1>4. balance' \in [Customers -> Nat] /\ ledger' \in [Keys -> Int]
  BY <1>3, PostKeepsTypes DEF MoneyInvariant, PaymentTypeOK, ApproveByHand
<1>5. \A q \in Requests : request'[q].cart = "PROCESSING"
                          => request'[q].holder \in Fulfillers
  BY <1>2 DEF Others, MoneyInvariant, PaymentTypeOK
<1>6. PaymentTypeOK'
  BY <1>2, <1>4, <1>5
  DEF MoneyInvariant, PaymentTypeOK, ApproveByHand, saleVars, shopVars,
      Documents
<1>7. \A t \in Transfers : CreditOf(t)' = CreditOf(t)
  BY <1>3, KeysDiffer, PostKeepsRows
  DEF MoneyInvariant, PaymentTypeOK, ApproveByHand, CreditOf
<1>8. Books'
  <2>1. \A q \in Requests :
          /\ request'[q].reference = request[q].reference
          /\ request[q].status # "NONE"
             => /\ request'[q].status # "NONE"
                /\ request'[q].amount = request[q].amount
    BY <1>2 DEF Others
  <2>. QED  BY <1>7, <2>1, BooksStay DEF MoneyInvariant, ApproveByHand
<1>. QED
  BY <1>6, <1>8
  DEF MoneyInvariant, BuysForRequest, ApproveByHand, saleVars, shopVars,
      couponVars

LEMMA TransferKeeps ==
    ASSUME MoneyInvariant, NEW t \in Transfers, Transfer(t)
    PROVE  MoneyInvariant'
<1>0. PICK r \in Requests :
        \E a \in Received \cup {request[r].amount} :
          /\ request[r].status # "NONE"
          /\ wire' = [wire EXCEPT ![t] = [code |-> r, amount |-> a]]
  BY DEF Transfer
<1>1. PICK a \in Received \cup {request[r].amount} :
        /\ request[r].status # "NONE"
        /\ wire' = [wire EXCEPT ![t] = [code |-> r, amount |-> a]]
  BY <1>0
<1>2. a \in Nat
  <2>1. request[r].amount \in Nat
    BY DEF MoneyInvariant, PaymentTypeOK
  <2>2. Received \subseteq Nat
    BY PaymentConstants
  <2>. QED  BY <2>1, <2>2
<1>3. /\ wire' \in [Transfers -> [code: Requests \cup {None}, amount: Nat]]
      /\ wire'[t] = [code |-> r, amount |-> a]
      /\ \A s \in Transfers : s # t => wire'[s] = wire[s]
  BY <1>1, <1>2 DEF MoneyInvariant, PaymentTypeOK
<1>4. PaymentTypeOK'
  BY <1>3
  DEF MoneyInvariant, PaymentTypeOK, Transfer, walletVars, saleVars, shopVars
<1>5. /\ wire[t] = NoWire /\ CreditOf(t) = 0
      /\ t \notin answered /\ \A b \in Branch : <<t, b>> \notin handling
      /\ \A q \in Requests : request[q].reference # t
  <2>1. wire[t] = NoWire /\ wire[t].code \notin Requests
    BY PaymentConstants DEF Transfer, NoWire
  <2>. QED
    BY <2>1
    DEF MoneyInvariant, Books, HandledIsWired, ReferenceIsCredited,
        CreditedOnce, NoWire
<1>6. \A s \in Transfers : CreditOf(s)' = CreditOf(s)
  BY DEF Transfer, walletVars, CreditOf
<1>7. HandledIsWired'
  BY <1>3, <1>5 DEF MoneyInvariant, Books, HandledIsWired, Transfer
<1>8. WiredIsAsked'
  BY <1>1, <1>3 DEF MoneyInvariant, Books, WiredIsAsked, Transfer
<1>9. SameAmount'
  BY <1>3, <1>5 DEF MoneyInvariant, Books, SameAmount, Transfer, Branch
<1>10. ReferenceIsCredited'
  BY <1>3, <1>5, <1>6 DEF MoneyInvariant, Books, ReferenceIsCredited, Transfer
<1>11. CreditedOnce'
  BY <1>3, <1>5, <1>6 DEF MoneyInvariant, Books, CreditedOnce
<1>12. NothingSwallowed'
  BY <1>3, <1>5, <1>6
  DEF MoneyInvariant, Books, NothingSwallowed, Transfer, PaymentTypeOK
<1>. QED
  BY <1>4, <1>7, <1>8, <1>9, <1>10, <1>11, <1>12
  DEF MoneyInvariant, Books, BuysForRequest, Transfer, saleVars, shopVars,
      couponVars

LEMMA FindKeeps ==
    ASSUME MoneyInvariant, NEW t \in Transfers, Find(t)
    PROVE  MoneyInvariant'
<1>1. BranchOf(t) \in Branch
      /\ (BranchOf(t) = "approve"
          => request[wire[t].code].amount = wire[t].amount)
      /\ BranchOf(t) # "fallback"
  BY DEF BranchOf, Branch
<1>2. wire[t].code \in Requests
  BY DEF MoneyInvariant, Books, WiredIsAsked, Find
<1>3. PaymentTypeOK'
  BY <1>1
  DEF MoneyInvariant, PaymentTypeOK, Find, walletVars, saleVars, shopVars
<1>4. HandledIsWired'
  BY <1>1, <1>2 DEF MoneyInvariant, Books, HandledIsWired, Find
<1>5. SameAmount'
  BY <1>1 DEF MoneyInvariant, Books, SameAmount, Find
<1>6. (WiredIsAsked /\ ReferenceIsCredited /\ CreditedOnce
       /\ NothingSwallowed)'
  BY DEF MoneyInvariant, Books, WiredIsAsked, ReferenceIsCredited,
         CreditedOnce, NothingSwallowed, CreditOf, Find, walletVars
<1>. QED
  BY <1>3, <1>4, <1>5, <1>6
  DEF MoneyInvariant, Books, BuysForRequest, Find, saleVars, shopVars,
      couponVars

-----------------------------------------------------------------------------
(* Transactions of a transfer t that is processed.                         *)

LEMMA BankCredits ==
    ASSUME MoneyInvariant, NEW t \in Transfers, wire[t].code \in Requests,
           Bank(t, wire[t].amount)
    PROVE  /\ balance' \in [Customers -> Nat] /\ ledger' \in [Keys -> Int]
           /\ CreditOf(t)' = wire[t].amount
           /\ \A s \in Transfers \ {t} : CreditOf(s)' = CreditOf(s)
<1>1. /\ <<"bank", t>> \in Keys /\ Owner[wire[t].code] \in Customers
      /\ wire[t].amount \in Int
  BY KeysDiffer, PaymentConstants DEF MoneyInvariant, PaymentTypeOK
<1>2. balance \in [Customers -> Nat] /\ ledger \in [Keys -> Int]
  BY DEF MoneyInvariant, PaymentTypeOK
<1>3. ledger[<<"bank", t>>] \in {0, wire[t].amount}
  BY DEF MoneyInvariant, Books, CreditedOnce, CreditOf
<1>4. balance' \in [Customers -> Nat] /\ ledger' \in [Keys -> Int]
  BY <1>1, <1>2, PostKeepsTypes DEF Bank
<1>5. CreditOf(t)' = wire[t].amount
  BY <1>1, <1>2, <1>3, PostKeepsRows DEF Bank, CreditOf
<1>6. ASSUME NEW s \in Transfers \ {t} PROVE CreditOf(s)' = CreditOf(s)
  BY <1>1, <1>2, KeysDiffer, PostKeepsRows DEF Bank, CreditOf
<1>. QED  BY <1>4, <1>5, <1>6

(* A transaction that writes its request or not.                           *)
LEMMA ProcessKeeps ==
    ASSUME MoneyInvariant, NEW t \in Transfers,
           NEW b \in Branch, <<t, b>> \in handling,
           NEW r, r = wire[t].code,
           UNCHANGED <<wire, work, active, product, jammed>>,
           \/ UNCHANGED request
           \/ \E cart \in {"FULFILLED", "FAILED"} : Claim(r, t, cart),
           balance' \in [Customers -> Nat] /\ ledger' \in [Keys -> Int],
           \A s \in Transfers \ {t} : CreditOf(s)' = CreditOf(s),
           CreditOf(t)' \in {CreditOf(t), wire[t].amount},
           (t \in answered' /\ ~MayJam) \/ request'[r].reference = t
              => CreditOf(t)' = wire[t].amount,
           answered' \subseteq answered \cup {t},
           handling' \subseteq handling \cup {<<t, "fallback">>},
           <<t, "fallback">> \in handling' => b \in {"approve", "fallback"}
              \/ <<t, "fallback">> \in handling,
           bought' \subseteq Requests /\ stock' \in Nat /\ terms' \in Terms
    PROVE  MoneyInvariant'
<1>1. r \in Requests /\ request[r].status # "NONE"
  BY DEF MoneyInvariant, Books, HandledIsWired, WiredIsAsked
<1>2. /\ request' \in [Requests -> Documents]
      /\ Others(r)
      /\ request'[r].status # "NONE"
      /\ request'[r].amount = request[r].amount
      /\ request'[r].reference \in {request[r].reference, t}
      /\ request'[r].cart = "PROCESSING" => request'[r] = request[r]
  <2>1. CASE UNCHANGED request
    BY <1>1, <2>1 DEF MoneyInvariant, PaymentTypeOK, Documents, Others
  <2>2. CASE \E cart \in {"FULFILLED", "FAILED"} : Claim(r, t, cart)
    BY <1>1, <2>2, ClaimIsOfRequest DEF MoneyInvariant
  <2>. QED  BY <2>1, <2>2
<1>3. \A q \in Requests : request'[q].cart = "PROCESSING"
                          => request'[q].holder \in Fulfillers
  BY <1>1, <1>2 DEF MoneyInvariant, PaymentTypeOK, Others
<1>4. PaymentTypeOK'
  <2>1. /\ handling' \subseteq Transfers \X Branch
        /\ answered' \subseteq Transfers
    BY DEF MoneyInvariant, PaymentTypeOK, Branch
  <2>. QED
    BY <1>2, <1>3, <2>1 DEF MoneyInvariant, PaymentTypeOK, Documents
<1>5. Books'
  <2>1. <<t, "fallback">> \in handling'
           => \E c \in {"approve", "fallback"} : <<t, c>> \in handling
    OBVIOUS
  <2>. QED  BY <1>1, <1>2, <2>1, BooksFollow DEF MoneyInvariant
<1>. QED  BY <1>4, <1>5 DEF MoneyInvariant, BuysForRequest

LEMMA SupplementKeeps ==
    ASSUME MoneyInvariant, NEW t \in Transfers, Supplement(t)
    PROVE  MoneyInvariant'
<1>1. wire[t].code \in Requests
  BY DEF MoneyInvariant, Books, HandledIsWired, Supplement, Branch
<1>2. /\ "supplement" \in Branch /\ <<t, "supplement">> \in handling
      /\ Bank(t, wire[t].amount)
      /\ handling' \subseteq handling /\ answered' = answered \cup {t}
      /\ UNCHANGED <<request, wire, saleVars, work>>
  BY DEF Supplement, Branch, Answer, Leave
<1>. QED
  BY <1>1, <1>2, BankCredits, ProcessKeeps
  DEF MoneyInvariant, PaymentTypeOK, saleVars, shopVars, couponVars

LEMMA MismatchKeeps ==
    ASSUME MoneyInvariant, NEW t \in Transfers, Mismatch(t)
    PROVE  MoneyInvariant'
<1>. DEFINE r == wire[t].code
<1>1. r \in Requests
  BY DEF MoneyInvariant, Books, HandledIsWired, Mismatch, Branch
<1>2. /\ "mismatch" \in Branch /\ <<t, "mismatch">> \in handling
      /\ handling' \subseteq handling /\ answered' = answered \cup {t}
      /\ UNCHANGED <<wire, saleVars, work>>
  BY DEF Mismatch, Branch, Answer, Leave
<1>3. CASE request[r].reference = t /\ UNCHANGED <<request, walletVars>>
  <2>1. /\ CreditOf(t) = wire[t].amount
        /\ \A s \in Transfers : CreditOf(s)' = CreditOf(s)
    BY <1>1, <1>3
    DEF MoneyInvariant, Books, ReferenceIsCredited, CreditOf, walletVars
  <2>. QED
    BY <1>1, <1>2, <1>3, <2>1, ProcessKeeps
    DEF MoneyInvariant, PaymentTypeOK, saleVars, shopVars, couponVars,
        walletVars
<1>4. CASE Bank(t, wire[t].amount)
           /\ (UNCHANGED request \/ Claim(r, t, "FAILED"))
  BY <1>1, <1>2, <1>4, BankCredits, ProcessKeeps
  DEF MoneyInvariant, PaymentTypeOK, saleVars, shopVars, couponVars
<1>. QED  BY <1>3, <1>4 DEF Mismatch

(* Whoever is let in to approve has compared the amounts.                  *)
LEMMA ComparedAmount ==
    ASSUME MoneyInvariant, NEW t \in Transfers,
           NEW b \in {"approve", "fallback"}, <<t, b>> \in handling
    PROVE  /\ wire[t].code \in Requests /\ b \in Branch
           /\ request[wire[t].code].amount = wire[t].amount
BY DEF MoneyInvariant, Books, HandledIsWired, SameAmount, Branch

(* What a transaction without a sale does, whichever branch it is in.      *)
LEMMA CreditKeeps ==
    ASSUME MoneyInvariant, NEW t \in Transfers,
           NEW b \in {"approve", "fallback"}, <<t, b>> \in handling,
           NEW r, r = wire[t].code,
           UNCHANGED <<wire, saleVars, work>>,
           handling' = handling \ {<<t, b>>}, answered' = answered \cup {t},
           \/ /\ request[r].reference = t
              /\ UNCHANGED <<request, walletVars>>
           \/ /\ UNCHANGED request \/ Claim(r, t, "FAILED")
              /\ Bank(t, request[r].amount)
    PROVE  MoneyInvariant'
<1>1. r \in Requests /\ b \in Branch /\ request[r].amount = wire[t].amount
  BY ComparedAmount
<1>2. CASE request[r].reference = t /\ UNCHANGED <<request, walletVars>>
  <2>1. /\ CreditOf(t) = wire[t].amount
        /\ \A s \in Transfers : CreditOf(s)' = CreditOf(s)
    BY <1>1, <1>2
    DEF MoneyInvariant, Books, ReferenceIsCredited, CreditOf, walletVars
  <2>. QED
    BY <1>1, <1>2, <2>1, ProcessKeeps
    DEF MoneyInvariant, PaymentTypeOK, saleVars, shopVars, couponVars,
        walletVars
<1>3. CASE /\ UNCHANGED request \/ Claim(r, t, "FAILED")
           /\ Bank(t, request[r].amount)
  BY <1>1, <1>3, BankCredits, ProcessKeeps
  DEF MoneyInvariant, PaymentTypeOK, saleVars, shopVars, couponVars
<1>. QED  BY <1>2, <1>3

LEMMA ApproveAgainKeeps ==
    ASSUME MoneyInvariant, NEW t \in Transfers, ApproveAgain(t)
    PROVE  MoneyInvariant'
BY CreditKeeps DEF ApproveAgain, Answer, Leave

LEMMA ApproveMoneyKeeps ==
    ASSUME MoneyInvariant, NEW t \in Transfers, ApproveMoney(t)
    PROVE  MoneyInvariant'
BY CreditKeeps DEF ApproveMoney, Answer, Leave

(* A transaction that touches neither request nor wallet; it answers the   *)
(* bank only when an item is jammed.                                       *)
LEMMA EmptyKeeps ==
    ASSUME MoneyInvariant, NEW t \in Transfers,
           NEW b \in Branch, <<t, b>> \in handling,
           UNCHANGED <<request, wire, walletVars, saleVars, work>>,
           \/ answered' = answered
           \/ answered' = answered \cup {t} /\ jammed,
           handling' \subseteq handling \cup {<<t, "fallback">>},
           <<t, "fallback">> \in handling' => b \in {"approve", "fallback"}
              \/ <<t, "fallback">> \in handling
    PROVE  MoneyInvariant'
<1>1. \A s \in Transfers : CreditOf(s)' = CreditOf(s)
  BY DEF CreditOf, walletVars
<1>2. wire[t].code \in Requests
  BY DEF MoneyInvariant, Books, HandledIsWired
<1>3. (t \in answered' /\ ~MayJam) \/ request[wire[t].code].reference = t
         => CreditOf(t)' = wire[t].amount
  BY <1>1, <1>2
  DEF MoneyInvariant, Books, ReferenceIsCredited, NothingSwallowed
<1>. QED
  BY <1>1, <1>2, <1>3, ProcessKeeps
  DEF MoneyInvariant, PaymentTypeOK, saleVars, shopVars, couponVars,
      walletVars

LEMMA ApproveAbortsKeeps ==
    ASSUME MoneyInvariant, NEW t \in Transfers, ApproveAborts(t)
    PROVE  MoneyInvariant'
<1>1. /\ "approve" \in Branch /\ <<t, "approve">> \in handling
      /\ UNCHANGED <<request, wire, walletVars, saleVars, work>>
      /\ handling' \subseteq handling \cup {<<t, "fallback">>}
      /\ answered' = answered \/ (answered' = answered \cup {t} /\ jammed)
  BY DEF ApproveAborts, Answer, Leave, Branch
<1>. QED  BY <1>1, EmptyKeeps

LEMMA CallbackFailsKeeps ==
    ASSUME MoneyInvariant, NEW t \in Transfers, CallbackFails(t)
    PROVE  MoneyInvariant'
<1>1. PICK b \in Branch : <<t, b>> \in handling /\ Leave(t, b)
  BY DEF CallbackFails
<1>. QED  BY <1>1, EmptyKeeps DEF CallbackFails, Leave

LEMMA FallbackKeeps ==
    ASSUME MoneyInvariant, NEW t \in Transfers, Fallback(t)
    PROVE  MoneyInvariant'
<1>. DEFINE r == wire[t].code
<1>1. /\ <<t, "fallback">> \in handling /\ "fallback" \in Branch
      /\ UNCHANGED <<wire, saleVars, work>>
  BY DEF Fallback, Branch
<1>2. CASE Answer(t, "fallback") /\
           \/ Claim(r, t, "FAILED") /\ Bank(t, request[r].amount)
           \/ request[r].reference = t /\ UNCHANGED <<request, walletVars>>
  BY <1>1, <1>2, CreditKeeps DEF Answer, Leave
<1>3. CASE UNCHANGED <<request, walletVars, answered>> /\ Leave(t, "fallback")
  BY <1>1, <1>3, EmptyKeeps DEF Leave
<1>. QED  BY <1>2, <1>3 DEF Fallback

LEMMA ApproveSaleKeeps ==
    ASSUME MoneyInvariant, NEW t \in Transfers, ApproveSale(t)
    PROVE  MoneyInvariant'
<1>. DEFINE r == wire[t].code
<1>1. /\ <<t, "approve">> \in handling /\ "approve" \in Branch
      /\ r \in Requests /\ request[r].amount = wire[t].amount
  BY ComparedAmount DEF ApproveSale
<1>2. /\ <<"bank", t>> \in Keys /\ <<"purchase", r>> \in Keys
      /\ wire[t].amount \in Nat /\ Quantity[r] \in Nat
  BY <1>1, PaymentConstants DEF Keys, MoneyInvariant, PaymentTypeOK
<1>3. ledger' = [ledger EXCEPT ![<<"bank", t>>] = wire[t].amount,
                               ![<<"purchase", r>>] = -wire[t].amount]
  BY <1>1 DEF ApproveSale
<1>4. /\ ledger' \in [Keys -> Int]
      /\ CreditOf(t)' = wire[t].amount
      /\ \A s \in Transfers \ {t} : CreditOf(s)' = CreditOf(s)
  <2>1. ledger \in [Keys -> Int] /\ -wire[t].amount \in Int
    BY <1>2 DEF MoneyInvariant, PaymentTypeOK
  <2>2. ledger' \in [Keys -> Int]
    BY <1>2, <1>3, <2>1
  <2>3. \A s \in Transfers : <<"bank", s>> \in Keys
    BY KeysDiffer
  <2>4. CreditOf(t)' = wire[t].amount
    BY <1>2, <1>3, <2>1, KeysDiffer DEF CreditOf
  <2>5. ASSUME NEW s \in Transfers \ {t} PROVE CreditOf(s)' = CreditOf(s)
    BY <1>2, <1>3, <2>1, <2>3, <2>5, KeysDiffer DEF CreditOf
  <2>. QED  BY <2>2, <2>4, <2>5
<1>5. stock' \in Nat /\ bought' \subseteq Requests /\ terms' \in Terms
  <2>1. stock >= Quantity[r] /\ stock \in Nat
    BY DEF ApproveSale, Available, MoneyInvariant, PaymentTypeOK
  <2>2. terms' = terms
    BY DEF ApproveSale, Sell, TakeCoupon, Redeem, couponVars
  <2>. QED
    BY <1>1, <1>2, <2>1, <2>2
    DEF ApproveSale, Sell, MoneyInvariant, PaymentTypeOK
<1>6. /\ UNCHANGED <<wire, work, active, product, jammed, balance>>
      /\ Claim(r, t, "FULFILLED")
      /\ answered' = answered \cup {t} /\ handling' \subseteq handling
  BY DEF ApproveSale, Answer, Leave
<1>7. balance' \in [Customers -> Nat]
  BY <1>6 DEF MoneyInvariant, PaymentTypeOK
<1>. QED  BY <1>1, <1>4, <1>5, <1>6, <1>7, ProcessKeeps

-----------------------------------------------------------------------------
(* Fulfillers, and the rest of the shop: they credit no transfer.          *)

LEMMA TakeLeaseKeeps ==
    ASSUME MoneyInvariant, NEW f \in Fulfillers, NEW r \in Requests,
           TakeLease(f, r)
    PROVE  MoneyInvariant'
<1>1. request \in [Requests -> Documents] /\ request[r] \in Documents
  BY DEF MoneyInvariant, PaymentTypeOK, Documents
<1>2. request' = [request EXCEPT ![r] =
          [request[r] EXCEPT !.cart = "PROCESSING", !.holder = f,
                             !.aged = FALSE]]
  BY <1>1 DEF TakeLease
<1>3. /\ request' \in [Requests -> Documents]
      /\ request'[r].status = request[r].status
      /\ request'[r].reference = request[r].reference
      /\ request'[r].amount = request[r].amount
      /\ request'[r].holder = f
      /\ Others(r)
  BY <1>1, <1>2 DEF Documents, Others, CartStatus
<1>4. \A q \in Requests : request'[q].cart = "PROCESSING"
                          => request'[q].holder \in Fulfillers
  BY <1>3 DEF MoneyInvariant, PaymentTypeOK, Others
<1>5. PaymentTypeOK'
  BY <1>3, <1>4
  DEF MoneyInvariant, PaymentTypeOK, TakeLease, Documents, walletVars,
      saleVars, shopVars
<1>6. BuysForRequest'
  BY DEF MoneyInvariant, PaymentTypeOK, BuysForRequest, TakeLease
<1>7. Books'
  <2>1. \A t \in Transfers : CreditOf(t)' = CreditOf(t)
    BY DEF TakeLease, walletVars, CreditOf
  <2>2. \A q \in Requests :
          /\ request'[q].reference = request[q].reference
          /\ request[q].status # "NONE"
             => /\ request'[q].status # "NONE"
                /\ request'[q].amount = request[q].amount
    BY <1>3 DEF Others
  <2>. QED  BY <2>1, <2>2, BooksStay DEF MoneyInvariant, TakeLease
<1>. QED
  BY <1>5, <1>6, <1>7
  DEF MoneyInvariant, TakeLease, saleVars, shopVars, couponVars

LEMMA FinishKeeps ==
    ASSUME MoneyInvariant, NEW f \in Fulfillers, FinishLease(f)
    PROVE  MoneyInvariant'
<1>. DEFINE r == work[f].on
<1>1. r \in Requests
  BY DEF MoneyInvariant, BuysForRequest, FinishLease
<1>2. request \in [Requests -> Documents] /\ request[r] \in Documents
  BY <1>1 DEF MoneyInvariant, PaymentTypeOK, Documents
<1>3. /\ request' \in [Requests -> Documents]
      /\ request'[r].status = request[r].status
      /\ request'[r].reference = request[r].reference
      /\ request'[r].amount = request[r].amount
      /\ request'[r].holder = request[r].holder
      /\ request'[r].cart = "PROCESSING" => request[r].cart = "PROCESSING"
      /\ Others(r)
  <2>1. CASE UNCHANGED request
    BY <1>1, <1>2, <2>1 DEF Others
  <2>2. CASE request' = [request EXCEPT ![r].cart =
                IF work[f].step = "done" THEN "FULFILLED" ELSE "FAILED"]
    BY <1>1, <1>2, <2>2 DEF Documents, Others, CartStatus
  <2>. QED  BY <2>1, <2>2 DEF FinishLease
<1>4. \A q \in Requests : request'[q].cart = "PROCESSING"
                          => request'[q].holder \in Fulfillers
  BY <1>1, <1>3 DEF MoneyInvariant, PaymentTypeOK, Others
<1>5. PaymentTypeOK' /\ BuysForRequest'
  <2>1. Rest \in [on: Requests \cup {None},
                  step: {"idle", "buy", "done", "failed"}]
    BY DEF Rest
  <2>. QED
    BY <1>3, <1>4, <2>1
    DEF MoneyInvariant, PaymentTypeOK, BuysForRequest, FinishLease,
        Documents, Rest, walletVars, saleVars, shopVars
<1>6. Books'
  <2>1. \A t \in Transfers : CreditOf(t)' = CreditOf(t)
    BY DEF FinishLease, walletVars, CreditOf
  <2>2. \A q \in Requests :
          /\ request'[q].reference = request[q].reference
          /\ request[q].status # "NONE"
             => /\ request'[q].status # "NONE"
                /\ request'[q].amount = request[q].amount
    BY <1>3 DEF Others
  <2>. QED  BY <2>1, <2>2, BooksStay DEF MoneyInvariant, FinishLease
<1>. QED
  BY <1>5, <1>6
  DEF MoneyInvariant, FinishLease, saleVars, shopVars, couponVars

(* A step that writes neither documents nor rows of transfers.             *)
LEMMA ElsewhereKeeps ==
    ASSUME MoneyInvariant, UNCHANGED docVars,
           \A t \in Transfers : CreditOf(t)' = CreditOf(t),
           balance' \in [Customers -> Nat] /\ ledger' \in [Keys -> Int],
           work' \in [Fulfillers -> [on: Requests \cup {None},
                                     step: {"idle", "buy", "done", "failed"}]],
           BuysForRequest',
           bought' \subseteq Requests /\ stock' \in Nat /\ terms' \in Terms,
           active' \subseteq Customers /\ jammed' \in BOOLEAN,
           product' \in {"ACTIVE", "PAUSED", "DELETED"},
           jammed' => MayJam
    PROVE  MoneyInvariant'
<1>1. PaymentTypeOK'
  BY DEF MoneyInvariant, PaymentTypeOK, docVars
<1>2. Books'
  BY BooksStay DEF MoneyInvariant, docVars
<1>. QED  BY <1>1, <1>2 DEF MoneyInvariant

LEMMA PurchaseKeeps ==
    ASSUME MoneyInvariant, NEW f \in Fulfillers, Purchase(f)
    PROVE  MoneyInvariant'
<1>. DEFINE r == work[f].on
<1>1. /\ r \in Requests /\ request[r].amount \in Nat
      /\ Owner[r] \in Customers /\ Quantity[r] \in Nat
      /\ <<"purchase", r>> \in Keys
  BY PaymentConstants
  DEF MoneyInvariant, BuysForRequest, Purchase, PaymentTypeOK, Keys
<1>2. /\ work' \in [Fulfillers -> [on: Requests \cup {None},
                                   step: {"idle", "buy", "done", "failed"}]]
      /\ BuysForRequest'
  <2>1. PICK s \in {"done", "failed"} : work' = [work EXCEPT ![f].step = s]
    BY DEF Purchase, Step
  <2>. QED
    BY <1>1, <2>1 DEF MoneyInvariant, PaymentTypeOK, BuysForRequest
<1>3. UNCHANGED <<docVars, active, product, jammed>>
  BY DEF Purchase
<1>4. CASE UNCHANGED <<walletVars, stock, bought, couponVars>>
  BY <1>2, <1>3, <1>4, ElsewhereKeeps
  DEF MoneyInvariant, PaymentTypeOK, CreditOf, walletVars, couponVars
<1>5. CASE /\ Available(r) /\ balance[Owner[r]] >= request[r].amount
           /\ Sell(r)
           /\ balance' = [balance EXCEPT ![Owner[r]] = @ - request[r].amount]
           /\ ledger' = [ledger EXCEPT ![<<"purchase", r>>] =
                                           @ - request[r].amount]
  <2>1. balance' \in [Customers -> Nat] /\ ledger' \in [Keys -> Int]
    BY <1>1, <1>5 DEF MoneyInvariant, PaymentTypeOK
  <2>2. ASSUME NEW t \in Transfers PROVE CreditOf(t)' = CreditOf(t)
    BY <1>1, <1>5, KeysDiffer DEF MoneyInvariant, PaymentTypeOK, CreditOf
  <2>3. stock' \in Nat /\ bought' \subseteq Requests /\ terms' \in Terms
    <3>1. stock >= Quantity[r] /\ stock \in Nat
      BY <1>5 DEF Available, MoneyInvariant, PaymentTypeOK
    <3>2. terms' = terms
      BY <1>5 DEF Sell, TakeCoupon, Redeem, couponVars
    <3>. QED
      BY <1>1, <1>5, <3>1, <3>2 DEF Sell, MoneyInvariant, PaymentTypeOK
  <2>. QED
    BY <1>2, <1>3, <2>1, <2>2, <2>3, ElsewhereKeeps
    DEF MoneyInvariant, PaymentTypeOK
<1>. QED  BY <1>4, <1>5 DEF Purchase

LEMMA StopsKeeps ==
    ASSUME MoneyInvariant, NEW f \in Fulfillers, FulfillerStops(f)
    PROVE  MoneyInvariant'
<1>1. Rest \in [on: Requests \cup {None},
                step: {"idle", "buy", "done", "failed"}]
  BY DEF Rest
<1>2. /\ work' \in [Fulfillers -> [on: Requests \cup {None},
                                   step: {"idle", "buy", "done", "failed"}]]
      /\ BuysForRequest'
  BY <1>1
  DEF FulfillerStops, MoneyInvariant, PaymentTypeOK, BuysForRequest, Rest
<1>. QED
  BY <1>2, ElsewhereKeeps
  DEF FulfillerStops, MoneyInvariant, PaymentTypeOK, CreditOf, walletVars,
      saleVars, shopVars, couponVars

LEMMA AdjustKeeps ==
    ASSUME MoneyInvariant, NEW u \in Customers, AdjustWallet(u)
    PROVE  MoneyInvariant'
<1>1. PICK a \in Adjustments : Post(<<"admin", u>>, u, a, TRUE)
  BY DEF AdjustWallet
<1>2. a \in Int /\ <<"admin", u>> \in Keys
  BY PaymentConstants DEF Keys
<1>3. balance' \in [Customers -> Nat] /\ ledger' \in [Keys -> Int]
  BY <1>1, <1>2, PostKeepsTypes DEF MoneyInvariant, PaymentTypeOK
<1>4. ASSUME NEW t \in Transfers PROVE CreditOf(t)' = CreditOf(t)
  BY <1>1, <1>2, KeysDiffer, PostKeepsRows
  DEF MoneyInvariant, PaymentTypeOK, CreditOf
<1>. QED
  BY <1>3, <1>4, ElsewhereKeeps
  DEF AdjustWallet, MoneyInvariant, PaymentTypeOK, BuysForRequest, docVars,
      saleVars, shopVars, couponVars

LEMMA ShopKeeps ==
    ASSUME MoneyInvariant, ElsewhereInTheShop
    PROVE  MoneyInvariant'
<1>1. UNCHANGED <<docVars, work, bought>>
  BY DEF ElsewhereInTheShop
<1>2. BuysForRequest'
  BY <1>1 DEF MoneyInvariant, BuysForRequest
<1>3. CASE Surroundings
  <2>1. /\ active' \subseteq Customers /\ jammed' \in BOOLEAN
        /\ product' \in {"ACTIVE", "PAUSED", "DELETED"}
        /\ stock' \in Nat /\ terms' \in Terms /\ (jammed' => MayJam)
        /\ UNCHANGED walletVars
    <3>1. /\ active \subseteq Customers /\ jammed \in BOOLEAN
          /\ product \in {"ACTIVE", "PAUSED", "DELETED"}
          /\ stock \in Nat /\ terms \in Terms /\ (jammed => MayJam)
      BY DEF MoneyInvariant, PaymentTypeOK
    <3>2. active' \subseteq Customers
      BY <1>3, <3>1 DEF Surroundings, shopVars
    <3>3. product' \in {"ACTIVE", "PAUSED", "DELETED"}
      BY <1>3, <3>1 DEF Surroundings, shopVars
    <3>4. stock' \in Nat
      BY <1>3, <3>1 DEF Surroundings, shopVars
    <3>5. terms' \in Terms
      BY <1>3, <3>1 DEF Surroundings, couponVars, EditCoupon
    <3>6. jammed' \in BOOLEAN /\ (jammed' => MayJam)
      <4>1. CASE jammed' = jammed
        BY <3>1, <4>1
      <4>2. CASE MayJam /\ jammed' = TRUE
        BY <4>2
      <4>. QED  BY <1>3, <4>1, <4>2, Zenon DEF Surroundings, shopVars
    <3>. QED
      BY <1>3, <3>2, <3>3, <3>4, <3>5, <3>6 DEF Surroundings
  <2>. QED
    BY <1>1, <1>2, <2>1, ElsewhereKeeps
    DEF MoneyInvariant, PaymentTypeOK, CreditOf, walletVars
<1>4. ASSUME NEW u \in Customers, BuyByWallet(u) PROVE MoneyInvariant'
  <2>1. <<"other", u>> \in Keys /\ -UnitPrice \in Int
    BY PaymentConstants DEF Keys
  <2>2. balance' \in [Customers -> Nat] /\ ledger' \in [Keys -> Int]
    BY <1>4, <2>1, PostKeepsTypes
    DEF BuyByWallet, MoneyInvariant, PaymentTypeOK
  <2>3. ASSUME NEW t \in Transfers PROVE CreditOf(t)' = CreditOf(t)
    BY <1>4, <2>1, KeysDiffer, PostKeepsRows
    DEF BuyByWallet, MoneyInvariant, PaymentTypeOK, CreditOf
  <2>4. stock' \in Nat
    BY <1>4 DEF BuyByWallet, MoneyInvariant, PaymentTypeOK
  <2>. QED
    BY <1>1, <1>2, <1>4, <2>2, <2>3, <2>4, ElsewhereKeeps
    DEF BuyByWallet, MoneyInvariant, PaymentTypeOK, couponVars
<1>. QED  BY <1>3, <1>4 DEF ElsewhereInTheShop

-----------------------------------------------------------------------------
LEMMA MoneyKept == MoneyInvariant /\ [PaymentNext]_payVars => MoneyInvariant'
<1>. SUFFICES ASSUME MoneyInvariant, [PaymentNext]_payVars
              PROVE  MoneyInvariant'
  OBVIOUS
<1>1. CASE Ask
  BY <1>1, AskKeeps, ByHandKeeps DEF Ask
<1>2. ASSUME NEW t \in Transfers, Process(t) PROVE MoneyInvariant'
  BY <1>2, SupplementKeeps, MismatchKeeps, FallbackKeeps, ApproveAgainKeeps,
     ApproveMoneyKeeps, ApproveSaleKeeps, ApproveAbortsKeeps
  DEF Process, Approve
<1>3. CASE Report
  BY <1>2, <1>3, TransferKeeps, FindKeeps, CallbackFailsKeeps DEF Report
<1>4. CASE Fulfill
  BY <1>4, TakeLeaseKeeps, PurchaseKeeps, FinishKeeps, StopsKeeps DEF Fulfill
<1>5. CASE ElsewhereInTheShop \/ \E u \in Customers : AdjustWallet(u)
  BY <1>5, ShopKeeps, AdjustKeeps
<1>6. CASE UNCHANGED payVars
  <2>1. UNCHANGED <<docVars, balance, ledger, work, bought, stock, terms,
                    active, jammed, product>>
    BY <1>6 DEF payVars, walletVars, saleVars, shopVars, couponVars
  <2>2. \A t \in Transfers : CreditOf(t)' = CreditOf(t)
    BY <2>1 DEF CreditOf
  <2>3. BuysForRequest'
    BY <2>1 DEF MoneyInvariant, BuysForRequest
  <2>4. /\ balance \in [Customers -> Nat] /\ ledger \in [Keys -> Int]
        /\ work \in [Fulfillers -> [on: Requests \cup {None},
                                    step: {"idle", "buy", "done", "failed"}]]
        /\ bought \subseteq Requests /\ stock \in Nat /\ terms \in Terms
        /\ active \subseteq Customers /\ jammed \in BOOLEAN
        /\ product \in {"ACTIVE", "PAUSED", "DELETED"}
        /\ (jammed => MayJam)
    BY DEF MoneyInvariant, PaymentTypeOK
  <2>. QED  BY <2>1, <2>2, <2>3, <2>4, ElsewhereKeeps
<1>. QED  BY <1>1, <1>3, <1>4, <1>5, <1>6 DEF PaymentNext

(* The documents of the payments, the wire and the wallet agree in every   *)
(* reachable state.                                                        *)
THEOREM MoneyIsInvariant == PaymentSpec => []MoneyInvariant
<1>. QED  BY MoneyBegins, MoneyKept, PTL DEF PaymentSpec

(* Documents, wallet rows and leases are what their schemas say, with any  *)
(* number of customers, requests and fulfillers, and jammed items as well: *)
(* no balance falls below zero (user.schema.ts, wallet.service.ts:41-74).  *)
THEOREM PaymentTyped == PaymentSpec => []PaymentTypeOK
<1>1. MoneyInvariant => PaymentTypeOK
  BY DEF MoneyInvariant
<1>. QED  BY <1>1, MoneyIsInvariant, PTL

(* As long as the shelf holds no item that is named by an older order, a   *)
(* transfer the bank has an answer for is in the wallet with the amount    *)
(* that arrived, whatever happened to its request in between               *)
(* (payment.service.ts:410-637).                                           *)
THEOREM MoneyIsKept ==
    ASSUME ~MayJam
    PROVE  PaymentSpec => []AnsweredIsCredited
<1>1. MoneyInvariant => AnsweredIsCredited
  BY DEF MoneyInvariant, Books, CreditedOnce, NothingSwallowed,
         AnsweredIsCredited
<1>. QED  BY <1>1, MoneyIsInvariant, PTL
=============================================================================
