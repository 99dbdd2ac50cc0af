-------------------------------- MODULE Sale --------------------------------
(***************************************************************************)
(* What the shop promises about an order, without items on shelves, queues *)
(* or workers: an order is paid once, and then the customer either gets    *)
(* exactly one item that nobody else gets, or all of the money back, never *)
(* both, and nothing more happens to it.                                   *)
(***************************************************************************)
EXTENDS Integers

CONSTANTS
    Orders,   \* the orders that may be placed
    Items,    \* what can be sold
    Nothing,  \* what an order was given before it is delivered
    Amounts   \* what an order may cost

VARIABLES
    phase,    \* phase[o]: how far order o has got
    paid,     \* paid[o]: what the customer is out of pocket for o
    given     \* given[o]: the item the customer owns through o

saleVars == <<phase, paid, given>>

Phase == {"absent", "open", "kept", "returned"}

SaleInit ==
    /\ phase = [o \in Orders |-> "absent"]
    /\ paid = [o \in Orders |-> 0]
    /\ given = [o \in Orders |-> Nothing]

(* A request creates its orders all together or not at all.                *)
Place(S) ==
    /\ \A o \in S : phase[o] = "absent"
    /\ phase' = [o \in Orders |-> IF o \in S THEN "open" ELSE phase[o]]
    /\ paid' \in [Orders -> Amounts]
    /\ \A o \in Orders \ S : paid'[o] = paid[o]
    /\ UNCHANGED given

(* The orders of a delivery change hands together, each with an item of    *)
(* its own.                                                                *)
Hand(S) ==
    /\ \A o \in S : phase[o] = "open"
    /\ phase' = [o \in Orders |-> IF o \in S THEN "kept" ELSE phase[o]]
    /\ given' \in [Orders -> Items \cup {Nothing}]
    /\ \A o \in Orders \ S : given'[o] = given[o]
    /\ \A o \in S : /\ given'[o] # Nothing
                    /\ \A p \in Orders \ {o} : given'[p] # given'[o]
    /\ UNCHANGED paid

Return(o) ==
    /\ phase[o] = "open"
    /\ phase' = [phase EXCEPT ![o] = "returned"]
    /\ paid' = [paid EXCEPT ![o] = 0]
    /\ UNCHANGED given

SaleNext ==
    \/ \E S \in SUBSET Orders : Place(S) \/ Hand(S)
    \/ \E o \in Orders : Return(o)

SaleSpec == SaleInit /\ [][SaleNext]_saleVars
=============================================================================
