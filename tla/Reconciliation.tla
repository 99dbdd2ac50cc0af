---------------------------- MODULE Reconciliation ----------------------------
(***************************************************************************)
(* The report that compares the history of one bank account, as the bank   *)
(* gives it out, with the requests for payment and the wallet.  Transfers  *)
(* to several accounts may have one number, name the code of a request     *)
(* that was meant for another account, or of several requests; and rows of *)
(* the release that knew one account only do not say which it was.  Here a *)
(* transfer is credited in one step; module Payment has the races.         *)
(***************************************************************************)
EXTENDS Integers, FiniteSetsExt

CONSTANTS
    Accounts,   \* bank accounts in the configuration, by id
    Legacy,     \* the one that the older release knew
    Unsaid,     \* no account
    Numbers,    \* transactionIDs, which each bank gives out by itself
    Demands,    \* requests for payment; a smaller one is older
    Due,        \* their amount
    Arriving,   \* the amounts that a transfer may have
    Mentions,   \* the sets of requests that a transfer may name
    MaySwap,    \* whether two accounts may be stored with one token
    MaxLines    \* bound: lines of all histories

VARIABLES
    demand,     \* demand[r]: status, account of its QR, providerReference
    history,    \* history[a, n]: what the bank says of its number n
    rows        \* DEPOSIT rows of the wallet, and whose money it was

reconVars == <<demand, history, rows>>

ASSUME ReconConstants ==
    /\ IsFiniteSet(Accounts) /\ Legacy \in Accounts /\ Unsaid \notin Accounts
    /\ IsFiniteSet(Numbers) /\ 0 \notin Numbers
    /\ IsFiniteSet(Demands) /\ Demands \subseteq Nat
    /\ Arriving \subseteq Nat /\ Due \in Arriving
    /\ Mentions \subseteq SUBSET Demands /\ MaySwap \in BOOLEAN

Scoped(a, n) == <<"bank", a, n>>
Raw(n) == Scoped(Unsaid, n)
NoReference == <<"none">>
NoDemand == [status |-> "NONE", pin |-> Unsaid, reference |-> NoReference,
             cancelled |-> FALSE]

ReconInit ==
    /\ demand = [r \in Demands |-> NoDemand]
    /\ history = [p \in Accounts \X Numbers |-> {}]
    /\ rows = {}

-----------------------------------------------------------------------------
(* How requests, transfers and rows come to be.                            *)

(* A request keeps the account of its QR; one of the older release says    *)
(* nothing.                                                                *)
Demand(r) ==
    /\ demand[r].status = "NONE"
    /\ \A q \in Demands : q < r => demand[q].status # "NONE"
    /\ \E a \in Accounts \cup {Unsaid} :
          demand' = [demand EXCEPT ![r].status = "PENDING", ![r].pin = a]
    /\ UNCHANGED <<history, rows>>

(* Time runs out, or the customer cancels.                                 *)
DemandEnds(r) ==
    /\ demand[r].status = "PENDING"
    /\ \E c \in BOOLEAN :
          demand' = [demand EXCEPT ![r].status = "EXPIRED", ![r].cancelled = c]
    /\ UNCHANGED <<history, rows>>

(* applyChange(): one row per key.                                         *)
AddRow(row) ==
    rows' = IF \E w \in rows : w.key = row.key THEN rows ELSE rows \cup {row}

(* approveAs(): a row without metadata.                                    *)
DemandByHand(r) ==
    /\ demand[r].status = "PENDING"
    /\ demand' = [demand EXCEPT ![r].status = "APPROVED"]
    /\ AddRow([key |-> <<"hand", r>>, pin |-> Unsaid, number |-> 0, of |-> r,
               amount |-> Due, from |-> <<>>])
    /\ UNCHANGED history

Lines == [type: {"IN"}, names: Mentions, amount: Arriving]
         \cup [type: {"OUT"}, names: {{}}, amount: {Due}]
LineCount == MapThenSumSet(LAMBDA p : Cardinality(history[p]), DOMAIN history)

(* Money goes to or from an account.  A bank may list a number twice.      *)
BankMoves(p) ==
    /\ LineCount < MaxLines
    /\ \E l \in Lines :
          /\ \A r \in l.names : demand[r].status # "NONE"
          /\ history' = [history EXCEPT ![p] = @ \cup {l}]
    /\ UNCHANGED <<demand, rows>>

(* The transfer p settles request r, or comes in addition.                 *)
Settle(r, reference, row) ==
    /\ demand[r].status \in {"PENDING", "EXPIRED"}
    /\ IF \E q \in Demands : demand[q].reference = reference
       THEN UNCHANGED <<demand, rows>>
       ELSE /\ demand' = [demand EXCEPT ![r].status = "APPROVED",
                                        ![r].reference = reference]
            /\ AddRow(row)

Supplements(r, reference, row) ==
    /\ demand[r].status = "APPROVED"
    /\ IF demand[r].reference \in {reference, Raw(row.number)}
       THEN UNCHANGED rows
       ELSE \E a \in {row.pin} \cup IF row.amount = Due THEN {Unsaid} ELSE {} :
               AddRow([row EXCEPT !.pin = a])
    /\ UNCHANGED demand

(* processBankTransaction() for the oldest request that is named.  The     *)
(* account is the one whose token signs the callback, or whose history     *)
(* was asked for; a second transfer of the very amount, unless it races    *)
(* with the first, is stored without one in its metadata.                  *)
CreditLine(p) ==
    \E l \in history[p], a \in IF MaySwap THEN Accounts ELSE {p[1]} :
        /\ l.type = "IN" /\ l.names # {}
        /\ LET r == Min(l.names)
               reference == Scoped(a, p[2])
               row == [key |-> reference, pin |-> demand[r].pin,
                       number |-> p[2], of |-> r, amount |-> l.amount,
                       from |-> p]
           IN  Settle(r, reference, row) \/ Supplements(r, reference, row)
        /\ UNCHANGED history

(* What the older release did with a transfer.                             *)
OldCredit(n) ==
    \E l \in history[<<Legacy, n>>], r \in Demands :
        /\ l.type = "IN" /\ l.names = {r} /\ demand[r].pin = Unsaid
        /\ Settle(r, Raw(n), [key |-> Raw(n), pin |-> Unsaid, number |-> n,
                              of |-> r, amount |-> l.amount,
                              from |-> <<Legacy, n>>])
        /\ UNCHANGED history

ReconNext ==
    \/ \E r \in Demands : Demand(r) \/ DemandEnds(r) \/ DemandByHand(r)
    \/ \E p \in Accounts \X Numbers : BankMoves(p) \/ CreditLine(p)
    \/ \E n \in Numbers : OldCredit(n)

ReconSpec == ReconInit /\ [][ReconNext]_reconVars

-----------------------------------------------------------------------------
(* The report on one line of the history of account a, number n.           *)

DemandsOf(a, n, l) ==
    l.names \cup {r \in Demands : \/ demand[r].reference = Scoped(a, n)
                                  \/ /\ demand[r].reference = Raw(n)
                                     /\ a = Legacy}

Direct(w, a, n) == w.key = Scoped(a, n) \/ (w.key = Raw(n) /\ a = Legacy)

SaysAccount(w, a) == IF w.pin = Unsaid THEN a = Legacy ELSE w.pin = a

(* Mutated: a row of another account is found by the request it names.     *)
BelongsByRequest(w, a, n, R) ==
    /\ w.number \in {0, n}
    /\ \/ Direct(w, a, n) /\ (w.key = Raw(n) => w.pin \in {Unsaid, Legacy})
       \/ SaysAccount(w, a) /\ w.of \in R /\ w.number = n

(* walletBelongsToRow(): "A different bank-scoped key must never be        *)
(* rescued by a shared requestId."                                         *)
Belongs(w, a, n, R) ==
    /\ w.number \in {0, n}
    /\ \/ Direct(w, a, n) /\ (w.key = Raw(n) => w.pin \in {Unsaid, Legacy})
       \/ /\ SaysAccount(w, a) /\ w.key[1] # "bank"
          /\ w.of \in R /\ w.number = n

CreditsOf(a, n, l) ==
    {w \in rows : Belongs(w, a, n, DemandsOf(a, n, l))}

SumAmounts(set) == MapThenSumSet(LAMBDA x : x.amount, set)
CreditedFor(a, n, l) == SumAmounts(CreditsOf(a, n, l))

(* The bank gives out a number for two different movements.                *)
Conflict(a, n) == Cardinality(history[<<a, n>>]) > 1

(* Whether the requests leave open which account was paid, and no row of   *)
(* this one settles it.                                                    *)
ScopeUncertain(a, n, l) ==
    /\ \E r \in DemandsOf(a, n, l) :
          \/ demand[r].pin \notin {Unsaid, a}
          \/ a # Legacy /\ (demand[r].pin = Unsaid
                            \/ demand[r].reference = Raw(n))
    /\ \A w \in CreditsOf(a, n, l) : w.key # Scoped(a, n)

AnyDemand(a, n, l, status) ==
    \E r \in DemandsOf(a, n, l) : demand[r].status = status

(* The tests of buildItem() in their order; nothing rejects a request.     *)
LineStatus(a, n, l) ==
    IF Conflict(a, n) THEN "DUPLICATE"
    ELSE IF ScopeUncertain(a, n, l) THEN "AMBIGUOUS"
    ELSE IF AnyDemand(a, n, l, "EXPIRED")
         THEN "BANK_RECEIVED_REQUEST_EXPIRED"
    ELSE IF \E r \in DemandsOf(a, n, l) : demand[r].cancelled
         THEN "BANK_RECEIVED_REQUEST_CANCELLED"
    ELSE IF Cardinality(DemandsOf(a, n, l)) > 1 THEN "AMBIGUOUS"
    ELSE IF DemandsOf(a, n, l) = {} /\ CreditsOf(a, n, l) = {} THEN "UNMATCHED"
    ELSE IF CreditedFor(a, n, l) = 0 THEN "NOT_CREDITED"
    ELSE IF CreditedFor(a, n, l) # l.amount THEN "AMOUNT_MISMATCH"
    ELSE IF DemandsOf(a, n, l) = {} THEN "AMBIGUOUS"
    ELSE "MATCHED"

(* The lines of money in that are shown: the first one of each number.     *)
Incoming(a) ==
    {x \in Numbers \X Lines :
        LET ins == {k \in history[<<a, x[1]>>] : k.type = "IN"}
        IN  ins # {} /\ x[2] = CHOOSE k \in ins : TRUE}

CreditedTo(a) ==
    MapThenSumSet(LAMBDA x : CreditedFor(a, x[1], x[2]), Incoming(a))
-----------------------------------------------------------------------------
(* What the report tells an operator is what the wallet did: as credited   *)
(* for a transfer it shows what was credited for that very one, also when  *)
(* another account has its number or its request, no row counts for two    *)
(* transfers, and a line without a doubt is credited with its amount or    *)
(* not at all (bank-reconciliation.service.ts:268).                        *)
ReportIsHonest ==
    /\ \A a \in Accounts, n \in Numbers : \A l \in history[<<a, n>>] :
          l.type = "IN" =>
             /\ CreditedFor(a, n, l) =
                   SumAmounts({w \in rows : w.from = <<a, n>>})
             /\ LineStatus(a, n, l) # "AMOUNT_MISMATCH"
    /\ MapThenSumSet(CreditedTo, Accounts) =
          SumAmounts({w \in rows : w.key[1] = "bank"})
=============================================================================
