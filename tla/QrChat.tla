-------------------------------- MODULE QrChat --------------------------------
(***************************************************************************)
(* The chat of a customer about his payment codes: the bot shows a QR, and *)
(* buttons check or cancel it; the money, the order, the time and the      *)
(* worker that removes the QR of a delivered order go their own way        *)
(* meanwhile.  Each call of the API is a step, and its answer another one: *)
(* what the bot says may be old by then.  What the API does about a code   *)
(* in detail is module Payment.                                            *)
(***************************************************************************)
EXTENDS Integers, Sequences

CONSTANTS
    QrCodes,   \* numbers of the requests: the nonce of a cart, or an update
    Talkers,   \* updates of Telegram that are handled at the same time
    MaxShown,  \* bound: QR messages
    MaxPresses \* bound: buttons pressed

ASSUME ChatConstants == MaxShown \in Nat

VARIABLES
    qr,        \* qr[r]: what the API keeps of a request
    paid,      \* paid[r]: no, sent or credited
    parcel,    \* parcel[r]: no, sent, or clean: nothing left to do
    prompts,   \* the QR messages, and which are still there
    talk,      \* talk[h]: how far the handling of an update is
    said,      \* said[r]: what the customer was told about r
    presses

chatVars == <<qr, paid, parcel, prompts, talk, said, presses>>

NoQr == [status |-> "NONE", cart |-> "NONE", cancelled |-> FALSE,
         lapsed |-> FALSE, prompt |-> 0]
Silent == [does |-> "none", of |-> 0, step |-> "none", got |-> NoQr,
           from |-> 0, again |-> FALSE]
CartSteps == {"NONE", "PENDING_PAYMENT", "PROCESSING", "FULFILLED", "FAILED"}

ChatTypeOK ==
    /\ \A r \in QrCodes :
          /\ qr[r].status \in {"NONE", "PENDING", "EXPIRED", "APPROVED"}
          /\ qr[r].cart \in CartSteps /\ qr[r].prompt \in 0..Len(prompts)
          /\ paid[r] = "credited" => qr[r].status = "APPROVED"
    /\ Len(prompts) <= MaxShown
    /\ \A h \in Talkers : talk[h].of \in QrCodes \cup {0}

ChatInit ==
    /\ qr = [r \in QrCodes |-> NoQr] /\ prompts = <<>>
    /\ paid = [r \in QrCodes |-> "no"] /\ parcel = [r \in QrCodes |-> "no"]
    /\ talk = [h \in Talkers |-> Silent]
    /\ said = [r \in QrCodes |-> {}] /\ presses = 0

IsCheckout(r) == qr[r].cart # "NONE"
Does(h, what, step) == talk[h].does = what /\ talk[h].step = step
Falls(h) == talk' = [talk EXCEPT ![h] = Silent]
Steps(h, step) == talk' = [talk EXCEPT ![h].step = step]
Says(r, what) == said' = [said EXCEPT ![r] = @ \cup {what}]

(* A button is pressed, or an update comes again.                          *)
PressButton(h, does, r, from) ==
    /\ talk[h] = Silent
    /\ presses < MaxPresses /\ presses' = presses + 1
    /\ talk' = [talk EXCEPT ![h] =
                   [Silent EXCEPT !.does = does, !.of = r, !.step = "calls",
                                  !.from = from,
                                  !.again = qr[r].status # "NONE"
                                            /\ qr[r].status # "PENDING"]]
    /\ UNCHANGED <<qr, paid, parcel, prompts, said>>

Existing == {r \in QrCodes : qr[r].status # "NONE"}

(* A new request, or one that is there, the numbers in their order.        *)
AsksFor(h, does, isCart) ==
    \E r \in QrCodes : /\ \A q \in QrCodes : q < r => q \in Existing
                       /\ r \in Existing => IsCheckout(r) = isCart
                       /\ PressButton(h, does, r, 0)
ConfirmCart(h) == AsksFor(h, "checkout", TRUE)
AskDeposit(h) == AsksFor(h, "deposit", FALSE)

(* On a QR, or on another message of the bot.                              *)
PressCheck(h) ==
    \E r \in Existing :
        \E m \in {0} \cup {n \in DOMAIN prompts : prompts[n] = <<r, TRUE>>} :
            PressButton(h, "check", r, m)
PressCancel(h) == \E r \in Existing : /\ IsCheckout(r)
                                      /\ PressButton(h, "cancel", r, 0)
-----------------------------------------------------------------------------
(* New codes.                                                              *)

Gets(h, got) == talk' = [talk EXCEPT ![h].step = "answers", ![h].got = got]

ActiveQr == {r \in QrCodes : /\ IsCheckout(r) /\ ~qr[r].lapsed
                             /\ qr[r].status = "PENDING"}

(* createBankTopup() and createBankCheckout(): a key makes one request.    *)
ServeNew(h) ==
    LET r == talk[h].of
        new == [NoQr EXCEPT !.status = "PENDING",
                   !.cart = IF talk[h].does = "checkout"
                            THEN "PENDING_PAYMENT" ELSE "NONE"]
    IN
    /\ talk[h].does \in {"checkout", "deposit"} /\ talk[h].step = "calls"
    /\ CASE r \in Existing ->
              IF IsCheckout(r) = (talk[h].does = "checkout")
              THEN Gets(h, qr[r]) /\ UNCHANGED qr
              ELSE Falls(h) /\ UNCHANGED qr
         [] r \notin Existing /\ talk[h].does = "checkout"
            /\ ActiveQr # {} -> Falls(h) /\ UNCHANGED qr
         [] OTHER -> Gets(h, new) /\ qr' = [qr EXCEPT ![r] = new]
    /\ UNCHANGED <<paid, parcel, prompts, said, presses>>

Taken(got) == \/ got.status = "APPROVED"
              \/ got.cart \in {"FULFILLED", "PROCESSING"}

(* Mutated: a code whose time runs is shown, whatever became of it.        *)
NoLongerByTime(got, lapsed) == lapsed
NoLonger(got, lapsed) == \/ got.status # "PENDING" \/ lapsed
                         \/ got.cart # "PENDING_PAYMENT" \/ got.cancelled

(* What createQuickCheckout() and createDeposit() do with the answer.  A   *)
(* picture whose sending times out may have come all the same.             *)
ShowQr(h) ==
    LET r == talk[h].of
        got == talk[h].got
    IN
    /\ talk[h].does \in {"checkout", "deposit"} /\ talk[h].step = "answers"
    /\ CASE talk[h].does = "checkout" /\ Taken(got) ->
              Says(r, "recorded") /\ Falls(h) /\ UNCHANGED prompts
         [] talk[h].does = "checkout" /\ ~Taken(got)
            /\ NoLonger(got, qr[r].lapsed) ->
              Says(r, "closed") /\ Falls(h) /\ UNCHANGED prompts
         [] OTHER ->
              \E n \in 1..2 :
                  /\ Len(prompts) + n <= MaxShown
                  /\ prompts' = prompts \o [k \in 1..n |-> <<r, TRUE>>]
                  /\ talk' = [talk EXCEPT ![h].step = "remembers",
                                          ![h].from = Len(prompts')]
                  /\ UNCHANGED said
    /\ UNCHANGED <<qr, paid, parcel, presses>>

(* rememberCheckoutPrompt(); only a checkout has one, and it may fail.     *)
Remember(h) ==
    /\ talk[h].step = "remembers" /\ Falls(h)
    /\ qr' \in {qr} \cup (IF talk[h].does = "checkout"
                          THEN {[qr EXCEPT ![talk[h].of].prompt =
                                    talk[h].from]}
                          ELSE {})
    /\ UNCHANGED <<paid, parcel, prompts, said, presses>>
-----------------------------------------------------------------------------
(* What becomes of a code.                                                 *)

Transfer(r) ==
    /\ paid[r] = "no" /\ \E m \in DOMAIN prompts : prompts[m][1] = r
    /\ paid' = [paid EXCEPT ![r] = "sent"]
    /\ UNCHANGED <<qr, parcel, prompts, talk, said, presses>>

Expired(q) == IF q.status = "PENDING" /\ q.lapsed
              THEN [q EXCEPT !.status = "EXPIRED"] ELSE q

(* Money in time buys, if it still can; late money goes into the wallet.   *)
Credited(q) ==
    {[q EXCEPT !.status = "APPROVED", !.cart = c] :
        c \in CASE q.cart = "NONE" -> {"NONE"}
                [] q.status = "PENDING" /\ ~q.lapsed /\ q.cart # "NONE" ->
                     {q.cart, "FAILED"}
                [] OTHER -> {"FAILED"}}

MoneyArrives(r) ==
    /\ paid[r] = "sent" /\ paid' = [paid EXCEPT ![r] = "credited"]
    /\ \E q \in Credited(qr[r]) : qr' = [qr EXCEPT ![r] = q]
    /\ UNCHANGED <<parcel, prompts, talk, said, presses>>

Ordered(q) == IF q.status = "APPROVED"
                 /\ q.cart \in {"PENDING_PAYMENT", "PROCESSING"}
              THEN {[q EXCEPT !.cart = c] :
                        c \in {"PROCESSING", "FULFILLED", "FAILED"}}
              ELSE {q}

OrderGoesOn(r) ==
    /\ \E q \in Ordered(qr[r]) : qr' = [qr EXCEPT ![r] = q]
    /\ qr' # qr
    /\ UNCHANGED <<paid, parcel, prompts, talk, said, presses>>

TimeIsUp(r) ==
    /\ qr[r].status = "PENDING"
    /\ qr' = [qr EXCEPT ![r] = IF qr[r].lapsed THEN Expired(qr[r])
                               ELSE [qr[r] EXCEPT !.lapsed = TRUE]]
    /\ UNCHANGED <<paid, parcel, prompts, talk, said, presses>>

DeliverParcel(r) ==
    /\ qr[r].cart = "FULFILLED" /\ parcel[r] = "no"
    /\ parcel' = [parcel EXCEPT ![r] = "sent"]
    /\ UNCHANGED <<qr, paid, prompts, talk, said, presses>>

Without(m) == IF m = 0 THEN prompts ELSE [prompts EXCEPT ![m][2] = FALSE]

(* clearCheckoutPrompt() of the worker, which never fails a delivery.      *)
ClearPrompt(r) ==
    /\ parcel[r] = "sent" /\ parcel' = [parcel EXCEPT ![r] = "clean"]
    /\ prompts' \in {prompts, Without(qr[r].prompt)}
    /\ UNCHANGED <<qr, paid, talk, said, presses>>
-----------------------------------------------------------------------------
(* Checking and cancelling.                                                *)

(* checkBankDeposit(): expire, look into the history, make the order.      *)
ServeCheck(h) ==
    LET r == talk[h].of
        late == Expired(qr[r])
    IN
    /\ Does(h, "check", "calls") /\ Steps(h, "reads")
    /\ \E found \in {FALSE, paid[r] = "sent"} :
          /\ paid' = IF found THEN [paid EXCEPT ![r] = "credited"] ELSE paid
          /\ \E q \in UNION {Ordered(c) : c \in IF found THEN Credited(late)
                                                ELSE {late}} :
                qr' = [qr EXCEPT ![r] = q]
    /\ UNCHANGED <<parcel, prompts, said, presses>>

(* Mutated: a request is cancelled whatever became of it.                  *)
StillOpenAlways(q) == TRUE
StillOpen(q) == q.status = "PENDING"

(* cancelBankCheckout()                                                    *)
ServeCancel(h) ==
    LET r == talk[h].of IN
    /\ Does(h, "cancel", "calls") /\ Steps(h, "reads")
    /\ qr' = IF StillOpen(qr[r])
             THEN [qr EXCEPT ![r].status = "EXPIRED", ![r].cancelled = TRUE,
                             ![r].cart = "FAILED"]
             ELSE qr
    /\ UNCHANGED <<paid, parcel, prompts, said, presses>>

(* Both answer with what they read after that.                             *)
ReadBack(h) ==
    /\ talk[h].step = "reads" /\ Gets(h, qr[talk[h].of])
    /\ UNCHANGED <<qr, paid, parcel, prompts, said, presses>>

CheckedAs(got) ==
    CASE got.status = "APPROVED" /\ got.cart = "FULFILLED" -> "bought"
      [] got.status = "APPROVED" /\ got.cart \in {"FAILED", "NONE"} ->
           "in wallet"
      [] got.status = "APPROVED" /\ got.cart \in {"PENDING_PAYMENT",
                                                  "PROCESSING"} -> "recorded"
      [] got.status # "APPROVED" /\ got.cancelled -> "cancelled"
      [] OTHER -> IF got.status = "EXPIRED" THEN "closed" ELSE "not found"

(* checkDeposit(): the QR whose button was pressed goes with the good or   *)
(* the final news.                                                         *)
AnswerCheck(h) ==
    LET news == CheckedAs(talk[h].got) IN
    /\ Does(h, "check", "answers") /\ Falls(h) /\ Says(talk[h].of, news)
    /\ prompts' \in IF news \in {"bought", "in wallet"}
                  THEN {prompts, Without(talk[h].from)} ELSE {prompts}
    /\ UNCHANGED <<qr, paid, parcel, presses>>

(* cancelQuickCheckout()                                                   *)
AnswerCancel(h) ==
    LET got == talk[h].got IN
    /\ Does(h, "cancel", "answers") /\ Falls(h)
    /\ Says(talk[h].of, CASE got.cancelled -> "cancelled"
                          [] ~got.cancelled /\ got.status = "APPROVED" ->
                               "recorded"
                          [] OTHER -> "closed")
    /\ UNCHANGED <<qr, paid, parcel, prompts, presses>>

(* The function dies, or the answer of the API is lost on its way.         *)
TalkerDies(h) ==
    /\ talk[h] # Silent /\ Falls(h)
    /\ UNCHANGED <<qr, paid, parcel, prompts, said, presses>>

ChatNext ==
    \/ \E h \in Talkers :
          \/ ConfirmCart(h) \/ AskDeposit(h) \/ PressCheck(h) \/ PressCancel(h)
          \/ ServeNew(h) \/ ShowQr(h) \/ Remember(h) \/ TalkerDies(h)
          \/ ServeCheck(h) \/ ServeCancel(h) \/ ReadBack(h)
          \/ AnswerCheck(h) \/ AnswerCancel(h)
    \/ \E r \in QrCodes :
          \/ Transfer(r) \/ MoneyArrives(r) \/ OrderGoesOn(r) \/ TimeIsUp(r)
          \/ DeliverParcel(r) \/ ClearPrompt(r)
-----------------------------------------------------------------------------
(* What the bot told stays true: a code it called cancelled never buys, an *)
(* order it announced is there, money it called recorded was.  Who         *)
(* confirms a cart again after its code was paid, cancelled or expired is  *)
(* not asked to transfer: "Never ask the buyer to transfer again"          *)
(* (shop.bot.ts:536-537).  And a QR goes only when its money has come      *)
(* (delivery.processor.ts:158, shop.bot.ts:601-628).                       *)
ToldIsTrue ==
    /\ \A r \in QrCodes :
          /\ "cancelled" \in said[r] => qr[r].cancelled
                                        /\ qr[r].cart = "FAILED"
          /\ "bought" \in said[r] => qr[r].cart = "FULFILLED"
          /\ "in wallet" \in said[r] => qr[r].cart \in {"FAILED", "NONE"}
          /\ said[r] \cap {"recorded", "bought", "in wallet"} # {}
             => paid[r] = "credited"
    /\ \A h \in Talkers :
          Does(h, "checkout", "remembers") => ~talk[h].again
    /\ \A m \in DOMAIN prompts :
          ~prompts[m][2] => paid[prompts[m][1]] = "credited"
=============================================================================
