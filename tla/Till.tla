--------------------------------- MODULE Till ---------------------------------
(***************************************************************************)
(* What the shop promises about money that comes in: a transfer is put     *)
(* into the wallet once, with the amount that arrived, and for good; the   *)
(* fate of a request is decided once, and a sale is only decided for a     *)
(* request somebody paid or vouched for.                                   *)
(***************************************************************************)
EXTENDS Integers

CONSTANTS
    Requests,    \* requests for payment
    Transfers    \* transfers of the bank

VARIABLES
    arrived,     \* arrived[t]: the amount the bank received, 0 before
    credited,    \* credited[t]: the amount the wallet got for t
    fate         \* fate[r]: open, vouched (approved, to be sold), sold, kept

tillVars == <<arrived, credited, fate>>

TillInit ==
    /\ arrived = [t \in Transfers |-> 0]
    /\ credited = [t \in Transfers |-> 0]
    /\ fate = [r \in Requests |-> "open"]

Arrive(t) ==
    /\ arrived[t] = 0
    /\ arrived' \in [Transfers -> Nat]
    /\ \A s \in Transfers \ {t} : arrived'[s] = arrived[s]
    /\ UNCHANGED <<credited, fate>>

(* The transfer may settle a request in the same step, or settle nothing   *)
(* because the request was settled before it came.                         *)
Bank(t) ==
    /\ arrived[t] > 0 /\ credited[t] = 0
    /\ credited' = [credited EXCEPT ![t] = arrived[t]]
    /\ \/ UNCHANGED fate
       \/ \E r \in Requests, f \in {"sold", "kept"} :
             fate[r] = "open" /\ fate' = [fate EXCEPT ![r] = f]
    /\ UNCHANGED arrived

(* An administrator says the money is there.                               *)
Vouch(r) ==
    /\ fate[r] = "open"
    /\ \E f \in {"vouched", "kept"} : fate' = [fate EXCEPT ![r] = f]
    /\ UNCHANGED <<arrived, credited>>

Decide(r, f) ==
    /\ fate[r] = "vouched" /\ fate' = [fate EXCEPT ![r] = f]
    /\ UNCHANGED <<arrived, credited>>

TillNext == \/ \E t \in Transfers : Arrive(t) \/ Bank(t)
            \/ \E r \in Requests : Vouch(r) \/ Decide(r, "sold")
                                   \/ Decide(r, "kept")

TillSpec == TillInit /\ [][TillNext]_tillVars
=============================================================================
