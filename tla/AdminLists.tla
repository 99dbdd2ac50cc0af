------------------------------ MODULE AdminLists ------------------------------
(***************************************************************************)
(* The lists and reports of the administrators' page.  Each asks the API   *)
(* for what its filters and its page number say, again whenever they       *)
(* change, and shows what comes back.  Answers may come late, in any order *)
(* and from a query that nobody asks any more; most lists abort the        *)
(* request before, and a few load again after one of their rows changed.   *)
(***************************************************************************)
EXTENDS Integers, FiniteSets

CONSTANTS
    Asks,       \* what can be asked for, the numbers of pages: 1..n
    MaxChanges, \* bound: times the query, the session or a row changes
    Never       \* nothing

ASSUME ListConstants == 1 \in Asks

VARIABLES
    open,       \* the list on the screen
    query,      \* query[l]: what its filters ask for
    timers,     \* lists whose timer or task will load them
    request,    \* requests under way: of a list, what for, aborted or not
    shown,      \* shown[l]: what the list shows the answer to
    spins,      \* lists that say they are loading
    failed,     \* lists whose last request failed
    row,        \* the changes of a row under way, and the query it began at
    length,     \* pages that the database has
    overtaken,  \* lists loaded, or still loading, for a query that is over
    changes

listVars == <<open, query, timers, request, shown, spins, failed, row, length,
              overtaken, changes>>

-----------------------------------------------------------------------------
(* The lists.  alike: lists that abort each other's requests; clears: an   *)
(* old answer goes when a request begins; clamps: a page beyond the last   *)
(* one asks for the last one; byHand: only a button loads it; after: how a *)
(* change of a row loads it again - as its filters are then (current), as  *)
(* they were when the change began (begun), by its effect, or not at all.  *)

Plain == [alike |-> {}, clears |-> FALSE, clamps |-> FALSE, byHand |-> FALSE,
          after |-> "none"]

(* Orders and deposits share their request.                                *)
OrderList == [Plain EXCEPT !.alike = {"deposits"}]
DepositList == [Plain EXCEPT !.alike = {"orders"}, !.after = "begun"]
ManagementList == Plain
ComplaintList == [Plain EXCEPT !.after = "begun"]
InventoryList == [Plain EXCEPT !.clamps = TRUE, !.after = "current"]
CouponList == [Plain EXCEPT !.clamps = TRUE, !.after = "effect"]
GrowthReport == [Plain EXCEPT !.clears = TRUE]
SpenderReport == [Plain EXCEPT !.clears = TRUE]
RepeatReport == [Plain EXCEPT !.clears = TRUE, !.clamps = TRUE]
BankReport == [Plain EXCEPT !.clears = TRUE, !.byHand = TRUE]

Kind == [orders |-> OrderList, deposits |-> DepositList,
         management |-> ManagementList, complaints |-> ComplaintList,
         inventory |-> InventoryList, coupons |-> CouponList,
         growth |-> GrowthReport, spenders |-> SpenderReport,
         repeats |-> RepeatReport, reconciliation |-> BankReport]

Lists == DOMAIN Kind
Alike(l) == {l} \cup Kind[l].alike
-----------------------------------------------------------------------------
ListTypeOK ==
    /\ open \in Lists /\ query \in [Lists -> Asks]
    /\ shown \in [Lists -> {Never} \cup Asks]
    /\ timers \subseteq Lists /\ spins \subseteq Lists /\ length \in Asks
    /\ \A r \in request : r.of \in Lists /\ r.asks \in Asks

ListInit ==
    /\ open \in Lists
    /\ query = [l \in Lists |-> 1] /\ shown = [l \in Lists |-> Never]
    /\ timers = {l \in {open} : ~Kind[l].byHand}
    /\ request = {} /\ spins = {} /\ failed = {} /\ row = {}
    /\ length \in Asks /\ overtaken = {} /\ changes = 0

Awaited(l) == {r \in request : r.of = l /\ ~r.aborted}
Aborted(ls) == {[r EXCEPT !.aborted = @ \/ r.of \in ls] : r \in request}

Changing == changes < MaxChanges /\ changes' = changes + 1

(* load(): the request before is aborted.                                  *)
Begin(l, asks) ==
    /\ request' = Aborted(Alike(l))
                  \cup {[of |-> l, asks |-> asks, aborted |-> FALSE]}
    /\ spins' = spins \cup {l} /\ failed' = failed \ {l}
    /\ shown' = IF Kind[l].clears THEN [shown EXCEPT ![l] = Never] ELSE shown

(* The effect runs again: what runs is aborted, and a timer is set.        *)
RunEffect(l) == request' = Aborted(Alike(l)) /\ timers' = timers \cup {l}

(* The filters or the page change.  The report of a bank goes, the request *)
(* for it does not.                                                        *)
AskFor(l, asks) ==
    /\ l = open /\ asks # query[l] /\ Changing
    /\ query' = [query EXCEPT ![l] = asks]
    /\ IF Kind[l].byHand
       THEN /\ shown' = [shown EXCEPT ![l] = Never]
            /\ overtaken' = overtaken \cup IF Awaited(l) = {} THEN {} ELSE {l}
            /\ UNCHANGED <<request, timers>>
       ELSE RunEffect(l) /\ UNCHANGED <<shown, overtaken>>
    /\ UNCHANGED <<open, spins, failed, row, length>>

(* A new access token makes authorized() a new function.                   *)
Renew(l) ==
    /\ l = open /\ ~Kind[l].byHand /\ Changing
    /\ RunEffect(l)
    /\ UNCHANGED <<open, query, shown, spins, failed, row, length, overtaken>>

(* The tab beside it: the requests of the tab before are aborted.          *)
OpenOther(l) ==
    /\ l \in Kind[open].alike /\ Changing
    /\ open' = l /\ timers' = {l} /\ request' = Aborted(Alike(l))
    /\ UNCHANGED <<query, shown, spins, failed, row, length, overtaken>>

TimerLoads(l) ==
    /\ l \in timers /\ timers' = timers \ {l}
    /\ Begin(l, query[l])
    /\ overtaken' = overtaken \ {l}
    /\ UNCHANGED <<open, query, row, length, changes>>

RunByHand(l) ==
    /\ l = open /\ Kind[l].byHand
    /\ Begin(l, query[l]) /\ request' # request
    /\ overtaken' = overtaken \ {l}
    /\ UNCHANGED <<open, query, timers, row, length, changes>>

(* Mutated: an answer counts whether its request was aborted or not.       *)
CountsAlways(r) == TRUE
Counts(r) == ~r.aborted

Beyond(r) == Kind[r.of].clamps /\ r.asks > length

AnswerComes(r) ==
    /\ r \in request
    /\ CASE ~Counts(r) -> /\ request' = request \ {r}
                          /\ UNCHANGED <<query, timers, shown, spins>>
         [] Counts(r) /\ Beyond(r) ->
               /\ query' = [query EXCEPT ![r.of] = length]
               /\ timers' = timers \cup {r.of} /\ request' = request \ {r}
               /\ spins' = spins \ {r.of} /\ UNCHANGED shown
         [] OTHER ->
               /\ shown' = [shown EXCEPT ![r.of] = r.asks]
               /\ request' = request \ {r} /\ spins' = spins \ {r.of}
               /\ UNCHANGED <<query, timers>>
    /\ UNCHANGED <<open, failed, row, length, overtaken, changes>>

(* A refusal is reported; the coupons, and reports, then show nothing.     *)
Fail(r) ==
    /\ r \in request /\ ~r.aborted /\ Changing
    /\ request' = request \ {r}
    /\ spins' = spins \ {r.of} /\ failed' = failed \cup {r.of}
    /\ shown' = IF r.of = "coupons" THEN [shown EXCEPT ![r.of] = Never]
                ELSE shown
    /\ UNCHANGED <<open, query, timers, row, length, overtaken>>

(* The deposit is checked, the complaint answered, the item removed, the   *)
(* coupon saved.                                                           *)
ChangeRow(l) ==
    /\ l = open /\ Kind[l].after # "none" /\ row = {} /\ shown[l] # Never
    /\ Changing
    /\ row' = {[of |-> l, by |-> query[l]]}
    /\ UNCHANGED <<open, query, timers, request, shown, spins, failed, length,
                   overtaken>>

(* Mutated: the list is loaded by the function the change began with.      *)
FiltersAtEndBegun(c) == c.by
FiltersAtEnd(c) == IF Kind[c.of].after = "begun" THEN c.by ELSE query[c.of]

(* What a load for an old query, or of the other tab, takes the place of.  *)
Misled(c) == {l \in Alike(c.of) : IF l = c.of THEN Kind[l].after = "begun"
                                                   /\ c.by # query[l]
                                  ELSE Awaited(l) # {}}

RowChanged(c) ==
    /\ c \in row /\ row' = row \ {c}
    /\ length' \in {length} \cup {n \in Asks : n = length - 1}
    /\ IF Kind[c.of].after = "effect"
       THEN RunEffect(c.of) /\ UNCHANGED <<shown, spins, failed, overtaken>>
       ELSE /\ Begin(c.of, FiltersAtEnd(c)) /\ UNCHANGED timers
            /\ overtaken' = (overtaken \ {c.of}) \cup Misled(c)
    /\ UNCHANGED <<open, query, changes>>

ListNext ==
    \/ \E l \in Lists : \/ \E asks \in Asks : AskFor(l, asks)
                        \/ Renew(l) \/ OpenOther(l) \/ TimerLoads(l)
                        \/ RunByHand(l) \/ ChangeRow(l)
    \/ \E r \in request : AnswerComes(r) \/ Fail(r)
    \/ \E c \in row : RowChanged(c)
-----------------------------------------------------------------------------
(* A list at rest shows the answer to what its filters ask, whatever order *)
(* the answers came in, and one that says it is loading will show one.     *)
(* The exceptions are where the code loads what nobody asks any more: the  *)
(* change of a deposit or a complaint ends with the filters it began with  *)
(* (operations-dashboard.tsx:182, complaint-manager.tsx:127), and the      *)
(* report of another bank is not aborted (bank-reconciliation.tsx:139).    *)
ListsShowWhatIsAsked ==
    open \notin overtaken =>
        /\ timers = {} /\ Awaited(open) = {} /\ open \notin failed
           => \/ shown[open] = query[open]
              \/ Kind[open].byHand /\ shown[open] = Never
        /\ open \in spins => open \in timers \/ Awaited(open) # {}
=============================================================================
