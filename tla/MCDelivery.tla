----------------------------- MODULE MCDelivery -----------------------------
(***************************************************************************)
(* Small shops for TLC: one QR checkout of two orders, two purchases that  *)
(* compete for the stock, and a single purchase for the temporal           *)
(* properties.                                                             *)
(***************************************************************************)
EXTENDS Delivery, FiniteSetsExt, TLC

(* The workers are interchangeable.                                        *)
WorkerSymmetry == Permutations(Workers)

(* One customer buys two items in one QR checkout.                         *)
CheckoutBuyer == [o \in {1, 2} |-> "ann"]
CheckoutBatch == [o \in {1, 2} |-> {1, 2}]
CheckoutOpening == [u \in {"ann"} |-> 4]

(* Two purchases of one item, by one customer or by two.                   *)
ResaleBuyer == [o \in {1, 2} |-> "ann"]
RivalBuyer == [o \in {1, 2} |-> IF o = 1 THEN "ann" ELSE "bob"]
Alone == [o \in {1, 2} |-> {o}]
ResaleOpening == [u \in {"ann"} |-> 4]
RivalOpening == [u \in {"ann", "bob"} |-> 2]

SoloBuyer == [o \in {1} |-> "ann"]
SoloBatch == [o \in {1} |-> {1}]

-----------------------------------------------------------------------------
(* The shares of a discount add up to it, and no order gets two units more *)
(* than another.                                                           *)
ASSUME SharesAddUp ==
    \A quantity \in 1..7, discount \in 0..30 :
        LET share(i) == DiscountShare(discount, quantity, i) IN
        /\ MapThenSumSet(share, 0..(quantity - 1)) = discount
        /\ \A i, j \in 0..(quantity - 1) : share(i) - share(j) \in -1..1

(* The wallet is what the ledger says: no purchase, coupon, expiry or      *)
(* refund moves money without a row of the same amount.                    *)
BalanceMatchesLedger ==
    \A u \in Users :
        /\ balance[u] >= 0
        /\ balance[u] = Opening[u]
              - MapThenSumSet(Net, {o \in Orders : Buyer[o] = u})
=============================================================================
