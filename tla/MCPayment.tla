------------------------------ MODULE MCPayment ------------------------------
(***************************************************************************)
(* One customer with two requests for payment, of one and of two items,    *)
(* and two transfers that may pay either, twice, too late or too little.   *)
(***************************************************************************)
EXTENDS Payment

SoleOwner == [r \in {1, 2} |-> "ann"]
SoleOwner1 == [r \in {1} |-> "ann"]
One == [r \in {1} |-> 1]
OneAndTwo == [r \in {1, 2} |-> r]

(* The coupon: once for everybody together; twice, but once for each       *)
(* customer; and twice, by anyone.  It makes a checkout one unit cheaper.  *)
Term(limit, perUser) == [open |-> TRUE, percent |-> FALSE, value |-> 1,
                         cap |-> 9, floor |-> 2, limit |-> limit,
                         perUser |-> perUser]
CouponTerms == {Term(1, 2), Term(2, 1), Term(2, 2)}

=============================================================================
