-------------------------------- MODULE Coupon --------------------------------
(***************************************************************************)
(* One coupon (coupons, coupon_redemptions): its price rules, and the      *)
(* redemption that a checkout makes inside its own transaction.  The state *)
(* is that of one coupon; an administrator may edit it at any time.        *)
(***************************************************************************)
EXTENDS Integers, FiniteSets

CONSTANT
    Terms   \* the terms the coupon may be given: open (active and inside
            \* its window), percent, value, cap (maxDiscount), floor
            \* (minSubtotal), limit (usageLimit), perUser (perUserLimit)

VARIABLES
    terms,      \* the terms in force
    uses,       \* coupon.usageCount
    redeemed    \* the redemptions, as <<user, checkoutKey>>

couponVars == <<terms, uses, redeemed>>

ASSUME TermsAreSound ==
    \A c \in Terms : /\ {c.open, c.percent} \subseteq BOOLEAN
                     /\ {c.value, c.cap, c.perUser} \subseteq Nat \ {0}
                     /\ {c.floor, c.limit} \subseteq Nat

CouponInit == terms \in Terms /\ uses = 0 /\ redeemed = {}

Least(S) == CHOOSE x \in S : \A y \in S : x <= y

(* price(): what the coupon takes off a subtotal, if it applies at all.    *)
Discount(c, subtotal) ==
    Least({subtotal, c.cap,
           IF c.percent THEN (subtotal * c.value) \div 100 ELSE c.value})

UsesOf(u) == Cardinality({x \in redeemed : x[1] = u})

(* Mutated: the use of the coupon is counted only for this customer.       *)
AppliesPerUser(u, subtotal) ==
    /\ terms.open /\ subtotal >= terms.floor
    /\ UsesOf(u) < terms.perUser
    /\ Discount(terms, subtotal) >= 1

(* Mutated: nobody counts how often this customer used the coupon.         *)
AppliesToAnyone(u, subtotal) ==
    /\ terms.open /\ subtotal >= terms.floor
    /\ uses < terms.limit
    /\ Discount(terms, subtotal) >= 1

(* listAvailable() and price() agree on who may still use the coupon.      *)
Applies(u, subtotal) ==
    /\ terms.open /\ subtotal >= terms.floor
    /\ uses < terms.limit
    /\ UsesOf(u) < terms.perUser
    /\ Discount(terms, subtotal) >= 1

(* redeem(): the price must be the one that the customer confirmed.        *)
CanRedeem(u, subtotal, expected) ==
    /\ Applies(u, subtotal)
    /\ subtotal - Discount(terms, subtotal) = expected

Redeem(u, checkout) ==
    /\ uses' = uses + 1
    /\ redeemed' = redeemed \cup {<<u, checkout>>}
    /\ UNCHANGED terms

(* update(): the limit may not fall below what was used already; the limit *)
(* of each customer may, and nobody loses what they redeemed before.       *)
EditCoupon(c) ==
    /\ c # terms /\ c.limit >= uses
    /\ terms' = c
    /\ UNCHANGED <<uses, redeemed>>
=============================================================================
