------------------------------- MODULE ShopBot -------------------------------
(***************************************************************************)
(* The bot's talk with one customer (shop.bot.ts).  Everything it keeps    *)
(* about the talk is one document of bot_sessions: the question that the   *)
(* next text answers, or the cart that waits for a confirmation.  Updates  *)
(* of Telegram are handled side by side, and buttons of old messages can   *)
(* be pressed again, so each access to the session is a step of its own.   *)
(***************************************************************************)
EXTENDS Integers, FiniteSets

CONSTANTS
    Handlers,    \* updates that are handled at the same time
    Questions,   \* the kinds of questions: subset of QuestionKinds
    Codes,       \* the coupon codes the customer may type
    NoCode,
    MaxCarts,    \* bound: quotes that are made
    MaxAsked     \* bound: questions that are asked

VARIABLES
    session,     \* the document: kind, the number of the question or the
                 \* nonce of the cart, and whether it was submitted or is old
    cart,        \* cart[n]: the coupon quoted under n, and the first cart of
                 \* the same selection
    carts,       \* how many carts there have been
    asked,       \* how many questions
    used,        \* used[q]: how many texts were taken as answers to q
    handler,     \* handler[h]: how far the handling of an update is
    calls,       \* carts whose order is on its way to the API
    ordered      \* carts that the API made an order or a QR code of

botVars == <<session, cart, carts, asked, used, handler, calls, ordered>>

QuestionKinds == {"PURCHASE_QUANTITY", "DEPOSIT_AMOUNT", "ORDER_LOOKUP",
                  "ORDER_COMPLAINT", "COMPLAINT_REPLY", "DIRECT_SUPPORT"}

ASSUME BotConstants ==
    /\ Questions \subseteq QuestionKinds /\ NoCode \notin Codes
    /\ {MaxCarts, MaxAsked} \subseteq Nat

Nonces == 1..MaxCarts
CartKinds == {"CHECKOUT_CONFIRMATION", "COUPON_CODE"}
NoSession == [kind |-> "NONE", of |-> 0, submitted |-> FALSE, old |-> FALSE]
Handled == [step |-> "none", of |-> 0, code |-> NoCode]

BotInit ==
    /\ session = NoSession
    /\ cart = [n \in Nonces |-> [code |-> NoCode, first |-> 0]]
    /\ carts = 0 /\ asked = 0
    /\ used = [q \in 1..MaxAsked |-> 0]
    /\ handler = [h \in Handlers |-> Handled]
    /\ calls = {} /\ ordered = {}

Turn(h, step, n, code) ==
    handler' = [handler EXCEPT ![h] = [step |-> step, of |-> n, code |-> code]]
Ends(h) == handler' = [handler EXCEPT ![h] = Handled]
At(h, step) == handler[h].step = step
CartsStay == UNCHANGED <<cart, carts>>
TalkStays == UNCHANGED <<asked, used>>
OrdersStay == UNCHANGED <<calls, ordered>>

-----------------------------------------------------------------------------
(* The session document.                                                   *)

(* savePendingInput(): whatever was there is replaced, a cart as well.     *)
Saved(kind, of) ==
    session' = [kind |-> kind, of |-> of, submitted |-> FALSE, old |-> FALSE]

HasCart(n) == session.kind \in CartKinds /\ session.of = n

SessionAges ==
    /\ session # NoSession /\ ~session.old
    /\ session' = [session EXCEPT !.old = TRUE]
    /\ UNCHANGED handler /\ CartsStay /\ TalkStays /\ OrdersStay

-----------------------------------------------------------------------------
(* Questions and their answers.                                            *)

Ask(kind) ==
    /\ asked < MaxAsked /\ asked' = asked + 1
    /\ Saved(kind, asked + 1)
    /\ UNCHANGED <<used, handler>> /\ CartsStay /\ OrdersStay

(* Mutated: the question is read and stays.                                *)
LeftToAnswer == session

(* findOneAndDelete() of takePendingInput().                               *)
Left == NoSession

(* A text comes: the question is taken, or ...                             *)
ReadText(h) ==
    /\ handler[h] = Handled
    /\ IF session.kind \in QuestionKinds
       THEN /\ session' = Left
            /\ IF session.old THEN Ends(h)
               ELSE Turn(h, session.kind, session.of, NoCode)
       ELSE UNCHANGED session /\ Turn(h, "peek", 0, NoCode)
    /\ CartsStay /\ TalkStays /\ OrdersStay

(* ... a coupon code is expected, or nothing.                              *)
ReadCode(h) ==
    /\ At(h, "peek")
    /\ \/ Ends(h)
       \/ /\ session.kind = "COUPON_CODE" /\ ~session.old /\ ~session.submitted
          /\ \E c \in Codes : Turn(h, "quote", session.of, c)
    /\ UNCHANGED session /\ CartsStay /\ TalkStays /\ OrdersStay

(* A text that fits is used: an order is looked up, a deposit, a complaint *)
(* or a message goes to the API, or a quantity is quoted.  One that does   *)
(* not is refused, and some questions are asked again.                     *)
Answer(h) ==
    /\ \E kind \in Questions :
          /\ At(h, kind)
          /\ \/ /\ used' = [used EXCEPT ![handler[h].of] = @ + 1]
                /\ IF kind = "PURCHASE_QUANTITY"
                   THEN Turn(h, "quote", 0, NoCode) ELSE Ends(h)
                /\ UNCHANGED <<session, asked>>
             \/ /\ kind \in {"ORDER_LOOKUP", "ORDER_COMPLAINT"}
                /\ asked < MaxAsked /\ asked' = asked + 1
                /\ Saved(kind, asked + 1) /\ Ends(h) /\ UNCHANGED used
             \/ /\ kind \notin {"ORDER_LOOKUP", "ORDER_COMPLAINT"}
                /\ Ends(h) /\ UNCHANGED <<session, asked, used>>
    /\ CartsStay /\ OrdersStay

-----------------------------------------------------------------------------
(* Carts.                                                                  *)

(* A quantity is chosen by a button or a command: purchaseQuantity().      *)
Choose(h) ==
    /\ handler[h] = Handled /\ Turn(h, "quote", 0, NoCode)
    /\ UNCHANGED session /\ CartsStay /\ TalkStays /\ OrdersStay

(* Mutated: a cart that was submitted can still be quoted anew.            *)
RequotableAlways(n) == HasCart(n) /\ ~session.old

(* "A coupon edit cannot replace a cart that another callback already      *)
(* submitted."                                                             *)
Requotable(n) == HasCart(n) /\ ~session.submitted /\ ~session.old

(* quoteCart(): the quote of the API, stored as a cart with a new nonce,   *)
(* whether it is to be paid from the wallet or by a transfer.              *)
Quote(h) ==
    LET n == carts + 1
        previous == handler[h].of
    IN
    /\ At(h, "quote")
    /\ \/ UNCHANGED session /\ CartsStay
       \/ /\ carts < MaxCarts
          /\ IF previous = 0 THEN TRUE ELSE Requotable(previous)
          /\ Saved("CHECKOUT_CONFIRMATION", n) /\ carts' = n
          /\ cart' = [cart EXCEPT ![n] =
                 [code |-> handler[h].code, first |->
                    IF previous = 0 THEN n ELSE cart[previous].first]]
    /\ Ends(h)
    /\ TalkStays /\ OrdersStay

(* cart:pay, :coupon, :clear or :refresh: the cart must be the session's.  *)
Press(h, n) ==
    /\ handler[h] = Handled /\ n <= carts
    /\ HasCart(n) /\ ~session.old
    /\ \/ Turn(h, "pay", n, NoCode)
       \/ ~session.submitted /\ Turn(h, "coupon", n, NoCode)
       \/ /\ ~session.submitted
          /\ \E c \in {NoCode, cart[n].code} : Turn(h, "quote", n, c)
    /\ UNCHANGED session /\ CartsStay /\ TalkStays /\ OrdersStay

AskForCode(h) ==
    /\ At(h, "coupon") /\ Ends(h)
    /\ IF HasCart(handler[h].of) /\ ~session.submitted
       THEN session' = [session EXCEPT !.kind = "COUPON_CODE"]
       ELSE UNCHANGED session
    /\ CartsStay /\ TalkStays /\ OrdersStay

(* Mutated: the cart that was read when the button was pressed will do.    *)
ConfirmableAsRead(n) == TRUE

Confirmable(n) == HasCart(n) /\ ~session.old

(* confirmCheckout() marks the cart, ...                                   *)
Confirm(h) ==
    /\ At(h, "pay")
    /\ IF Confirmable(handler[h].of)
       THEN /\ session' = [session EXCEPT !.kind = "CHECKOUT_CONFIRMATION",
                                          !.submitted = TRUE]
            /\ Turn(h, "send", handler[h].of, NoCode)
       ELSE UNCHANGED session /\ Ends(h)
    /\ CartsStay /\ TalkStays /\ OrdersStay

(* ... and sends the order or createQuickCheckout() under the cart's key.  *)
(* Nobody waits for the answer for ever; the call may still be served.     *)
SendOrder(h) ==
    /\ At(h, "send") /\ Ends(h)
    /\ calls' = calls \cup {handler[h].of}
    /\ UNCHANGED <<session, ordered>> /\ CartsStay /\ TalkStays

(* The API makes one order or one code per key, or refuses.                *)
ServeOrder(n) ==
    /\ n \in calls /\ calls' = calls \ {n}
    /\ ordered' \in {ordered, ordered \cup {n}}
    /\ UNCHANGED <<session, handler>> /\ CartsStay /\ TalkStays

(* The function that handles an update dies.                               *)
HandlerDies(h) ==
    /\ handler[h] # Handled /\ Ends(h)
    /\ UNCHANGED session /\ CartsStay /\ TalkStays /\ OrdersStay

BotNext ==
    \/ SessionAges
    \/ \E kind \in Questions : Ask(kind)
    \/ \E h \in Handlers :
          \/ ReadText(h) \/ ReadCode(h) \/ Answer(h) \/ Choose(h) \/ Quote(h)
          \/ AskForCode(h) \/ Confirm(h) \/ SendOrder(h) \/ HandlerDies(h)
          \/ \E n \in Nonces : Press(h, n)
    \/ \E n \in Nonces : ServeOrder(n)

BotSpec == BotInit /\ [][BotNext]_botVars

BotTypeOK ==
    /\ session.kind \in {"NONE"} \cup QuestionKinds \cup CartKinds
    /\ session.of \in IF session.kind \in CartKinds THEN 1..carts ELSE 0..asked
    /\ carts \in 0..MaxCarts /\ asked \in 0..MaxAsked
    /\ calls \cup ordered \subseteq 1..carts

(* What the customer says once is done once: of a cart and all that new    *)
(* quotes made of it, at most one becomes an order or a QR code, however   *)
(* often buttons are pressed and whatever codes are typed meanwhile        *)
(* (shop.bot.ts:1041-1047, 1070-1073, 1089-1090); and of two texts sent in *)
(* a hurry, only one is taken as the answer to a question and makes a      *)
(* deposit, a complaint or a message (shop.bot.ts:1143-1144).              *)
SaidOnceDoneOnce ==
    /\ \A n, m \in ordered : cart[n].first = cart[m].first => n = m
    /\ \A q \in 1..MaxAsked : used[q] <= 1
=============================================================================
