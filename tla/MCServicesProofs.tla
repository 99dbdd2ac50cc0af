-------------------------- MODULE MCServicesProofs ---------------------------
(***************************************************************************)
(* What holds of the services together, of which one moves in a behaviour: *)
(* the talk of the bot and the chat about payment codes, which are proved  *)
(* here, and what modules AdminProofs and CatalogProofs prove of the others.*)
(***************************************************************************)
EXTENDS MCServices, AdminProofs, CatalogProofs, SequenceTheorems

-----------------------------------------------------------------------------
(* The talk of the bot.                                                    *)

HandlerSteps ==
    {"none", "peek", "quote", "pay", "coupon", "send"} \cup QuestionKinds

SessionKinds == {"NONE"} \cup QuestionKinds \cup CartKinds

(* The session, the carts and the updates in the bot's hands.              *)
BotTyped ==
    /\ session \in [kind : SessionKinds, of : Nat,
                    submitted : BOOLEAN, old : BOOLEAN]
    /\ cart \in [Nonces -> [code : Codes \cup {NoCode}, first : 0..MaxCarts]]
    /\ carts \in 0..MaxCarts /\ asked \in 0..MaxAsked
    /\ used \in [1..MaxAsked -> Nat]
    /\ handler \in [Handlers -> [step : HandlerSteps, of : Nat,
                                 code : Codes \cup {NoCode}]]
    /\ calls \cup ordered \subseteq 1..carts

(* What a session or a handler refers to has been there.                   *)
RefersToMade ==
    /\ session.kind \in CartKinds => session.of \in 1..carts
    /\ session.kind \in QuestionKinds => session.of \in 1..asked
    /\ session.kind = "NONE" => session.of = 0
    /\ \A h \in Handlers :
          /\ handler[h].step \in QuestionKinds => handler[h].of \in 1..asked
          /\ handler[h].step \in {"pay", "coupon", "send"}
                => handler[h].of \in 1..carts
          /\ handler[h].step = "quote" => handler[h].of \in 0..carts

(* A selection begins with its first cart.                                 *)
FirstIsEarlier == \A n \in 1..carts : cart[n].first \in 1..n

Asking(h) == handler[h].step \in QuestionKinds

(* A question is in the session, in the hands of one handler, or used.     *)
AskedOnce ==
    /\ \A q \in 1..MaxAsked : used[q] <= 1 /\ (q > asked => used[q] = 0)
    /\ session.kind \in QuestionKinds => used[session.of] = 0
    /\ \A h \in Handlers :
          Asking(h) =>
             /\ used[handler[h].of] = 0
             /\ session.kind \in QuestionKinds => session.of # handler[h].of
             /\ \A g \in Handlers \ {h} :
                   Asking(g) => handler[g].of # handler[h].of

(* A cart is spent when its confirmation was sent or is about to be.       *)
Sending(n) == \E h \in Handlers : At(h, "send") /\ handler[h].of = n

Spent(n) == n \in calls \cup ordered \/ Sending(n)

(* Once a cart is confirmed no other of its selection can be.              *)
SpentOnce ==
    /\ \A n, m \in 1..carts :
          Spent(n) /\ Spent(m) /\ cart[n].first = cart[m].first => n = m
    /\ \A n, m \in 1..carts :
          Spent(n) /\ HasCart(m) /\ cart[n].first = cart[m].first
          => n = m /\ session.submitted

(* A question is taken once and a selection is confirmed once, because     *)
(* what was taken or confirmed is not in the session any more.             *)
BotInvariant ==
    BotTyped /\ RefersToMade /\ FirstIsEarlier /\ AskedOnce /\ SpentOnce

LEMMA KindsApart ==
    /\ QuestionKinds \cap CartKinds = {}
    /\ "NONE" \notin QuestionKinds /\ "NONE" \notin CartKinds
    /\ QuestionKinds \cap {"none", "peek", "quote", "pay", "coupon", "send"}
         = {}
    /\ "CHECKOUT_CONFIRMATION" \in CartKinds /\ "COUPON_CODE" \in CartKinds
BY DEF QuestionKinds, CartKinds

LEMMA SpentKeeps ==
    ASSUME NEW n, UNCHANGED <<calls, ordered>>,
           \A h \in Handlers :
              handler'[h] = handler[h] \/ handler'[h].step # "send"
    PROVE  Spent(n)' => Spent(n)
BY DEF Spent, Sending, At

(* The orders of a step that spends nothing and makes no cart.             *)
LEMMA SpentOnceKeeps ==
    ASSUME SpentOnce, CartsStay,
           \A n \in 1..carts : Spent(n)' => Spent(n),
           \A n \in 1..carts :
              HasCart(n)' =>
                 HasCart(n) /\ session'.submitted = session.submitted
    PROVE  SpentOnce'
BY DEF SpentOnce, CartsStay

LEMMA AskedOnceKeeps ==
    ASSUME BotTyped, RefersToMade, AskedOnce, TalkStays,
           session'.kind \in QuestionKinds
              => session'.kind = session.kind /\ session'.of = session.of,
           \A h \in Handlers : handler'[h] = handler[h]
              \/ handler'[h].step \notin QuestionKinds
    PROVE  AskedOnce'
BY DEF AskedOnce, Asking, TalkStays, BotTyped, RefersToMade

LEMMA BotInitInvariant == BotInit => BotInvariant
<1> SUFFICES ASSUME BotInit PROVE BotInvariant
    OBVIOUS
<1> USE BotConstants, KindsApart
    DEF BotInit, NoSession, Handled
<1>1. BotTyped
    BY DEF BotTyped, SessionKinds, HandlerSteps, Nonces
<1>2. RefersToMade
    BY DEF RefersToMade
<1>3. AskedOnce
    BY DEF AskedOnce, Asking
<1>4. FirstIsEarlier /\ SpentOnce
    BY DEF FirstIsEarlier, SpentOnce
<1> QED
    BY <1>1, <1>2, <1>3, <1>4 DEF BotInvariant

(* A step in which one handler goes on, and the talk and the carts stay.   *)
LEMMA TurnTyped ==
    ASSUME BotTyped, NEW h \in Handlers, NEW step \in HandlerSteps,
           NEW n \in Nat, NEW c \in Codes \cup {NoCode}, Turn(h, step, n, c)
    PROVE  /\ handler' \in [Handlers -> [step : HandlerSteps, of : Nat,
                                         code : Codes \cup {NoCode}]]
           /\ handler'[h].step = step /\ handler'[h].of = n
           /\ \A g \in Handlers \ {h} : handler'[g] = handler[g]
BY DEF BotTyped, Turn

LEMMA TurnOnly ==
    ASSUME BotTyped, NEW h \in Handlers, NEW step \in HandlerSteps,
           NEW n \in Nat, Turn(h, step, n, NoCode)
    PROVE  /\ handler' \in [Handlers -> [step : HandlerSteps, of : Nat,
                                         code : Codes \cup {NoCode}]]
           /\ handler'[h].step = step /\ handler'[h].of = n
           /\ \A g \in Handlers \ {h} : handler'[g] = handler[g]
<1>1. NoCode \in Codes \cup {NoCode}
    OBVIOUS
<1> QED
    BY <1>1, TurnTyped

LEMMA EndsTyped ==
    ASSUME BotTyped, NEW h \in Handlers, Ends(h)
    PROVE  /\ handler' \in [Handlers -> [step : HandlerSteps, of : Nat,
                                         code : Codes \cup {NoCode}]]
           /\ handler'[h] = Handled
           /\ handler'[h].step = "none" /\ handler'[h].step # "send"
           /\ handler'[h].step \notin QuestionKinds
           /\ \A g \in Handlers \ {h} : handler'[g] = handler[g]
<1>1. Handled \in [step : HandlerSteps, of : Nat,
                   code : Codes \cup {NoCode}]
    BY DEF Handled, HandlerSteps
<1> QED
    BY <1>1, KindsApart DEF BotTyped, Ends, Handled

LEMMA SessionAgesInvariant == BotInvariant /\ SessionAges => BotInvariant'
<1> SUFFICES ASSUME BotInvariant, SessionAges PROVE BotInvariant'
    OBVIOUS
<1> USE DEF BotInvariant
<1>1. /\ UNCHANGED <<handler, cart, carts, asked, used, calls, ordered>>
      /\ session' \in [kind : SessionKinds, of : Nat,
                    submitted : BOOLEAN, old : BOOLEAN]
      /\ session'.kind = session.kind /\ session'.of = session.of
      /\ session'.submitted = session.submitted
    BY DEF SessionAges, BotTyped, CartsStay, TalkStays, OrdersStay
<1>2. BotTyped' /\ RefersToMade' /\ FirstIsEarlier'
    BY <1>1 DEF BotTyped, RefersToMade, FirstIsEarlier
<1>3. AskedOnce'
    BY <1>1, AskedOnceKeeps DEF TalkStays
<1>4. \A n \in 1..carts : Spent(n)' => Spent(n)
    BY <1>1, SpentKeeps
<1>5. SpentOnce'
    BY <1>1, <1>4, SpentOnceKeeps DEF CartsStay, HasCart
<1> QED
    BY <1>2, <1>3, <1>5

(* Nothing is asked, quoted, confirmed or ordered: one handler goes on.    *)
LEMMA HandlerMoves ==
    ASSUME BotInvariant, UNCHANGED session, CartsStay, TalkStays, OrdersStay,
           NEW h \in Handlers,
           handler' \in [Handlers -> [step : HandlerSteps, of : Nat,
                                      code : Codes \cup {NoCode}]],
           \A g \in Handlers \ {h} : handler'[g] = handler[g],
           handler'[h].step \notin QuestionKinds \cup {"send"},
           handler'[h].step \in {"pay", "coupon"}
              => handler'[h].of \in 1..carts,
           handler'[h].step = "quote" => handler'[h].of \in 0..carts
    PROVE  BotInvariant'
<1> USE DEF BotInvariant
<1>0. UNCHANGED <<cart, carts, asked, used, calls, ordered>>
    BY DEF CartsStay, TalkStays, OrdersStay
<1>2. BotTyped' /\ FirstIsEarlier'
    BY <1>0 DEF BotTyped, FirstIsEarlier
<1>3. RefersToMade'
    BY <1>0 DEF RefersToMade
<1>4. AskedOnce'
    BY AskedOnceKeeps
<1>5. \A n \in 1..carts : Spent(n)' => Spent(n)
    BY <1>0, SpentKeeps
<1>6. SpentOnce'
    BY <1>5, SpentOnceKeeps DEF HasCart
<1> QED
    BY <1>2, <1>3, <1>4, <1>6

LEMMA ChooseInvariant ==
    ASSUME BotInvariant, NEW h \in Handlers, Choose(h)
    PROVE  BotInvariant'
<1>0. Turn(h, "quote", 0, NoCode) /\ "quote" \in HandlerSteps /\ 0 \in Nat
    BY DEF Choose, HandlerSteps
<1>1. /\ handler' \in [Handlers -> [step : HandlerSteps, of : Nat,
                                     code : Codes \cup {NoCode}]]
      /\ handler'[h].step = "quote" /\ handler'[h].of = 0
      /\ \A g \in Handlers \ {h} : handler'[g] = handler[g]
    BY <1>0, TurnOnly DEF BotInvariant
<1>2. 0 \in 0..carts
    BY BotConstants DEF BotInvariant, BotTyped
<1> QED
    BY <1>1, <1>2, HandlerMoves, KindsApart DEF Choose

LEMMA HandlerDiesInvariant ==
    ASSUME BotInvariant, NEW h \in Handlers, HandlerDies(h)
    PROVE  BotInvariant'
BY EndsTyped, HandlerMoves DEF HandlerDies, BotInvariant

LEMMA ReadCodeInvariant ==
    ASSUME BotInvariant, NEW h \in Handlers, ReadCode(h)
    PROVE  BotInvariant'
<1>0. UNCHANGED session /\ CartsStay /\ TalkStays /\ OrdersStay
    BY DEF ReadCode
<1>1. CASE Ends(h)
    BY <1>0, <1>1, EndsTyped, HandlerMoves DEF BotInvariant
<1>2. CASE /\ session.kind = "COUPON_CODE"
           /\ \E c \in Codes : Turn(h, "quote", session.of, c)
    <2>1. PICK c \in Codes : Turn(h, "quote", session.of, c)
        BY <1>2
    <2>2. session.of \in 1..carts /\ session.of \in Nat /\ carts \in Nat
        BY <1>2, KindsApart, BotConstants
        DEF BotInvariant, RefersToMade, BotTyped
    <2>3. /\ handler' \in [Handlers -> [step : HandlerSteps, of : Nat,
                                         code : Codes \cup {NoCode}]]
          /\ handler'[h].step = "quote" /\ handler'[h].of = session.of
          /\ \A g \in Handlers \ {h} : handler'[g] = handler[g]
        BY <2>1, <2>2, TurnTyped DEF BotInvariant, HandlerSteps
    <2>4. handler'[h].step = "quote" /\ handler'[h].of \in 0..carts
        BY <2>2, <2>3
    <2> QED
        BY <1>0, <2>3, <2>4, HandlerMoves, KindsApart
<1> QED
    BY <1>1, <1>2 DEF ReadCode

LEMMA PressInvariant ==
    ASSUME BotInvariant, NEW h \in Handlers, NEW n \in Nonces, Press(h, n)
    PROVE  BotInvariant'
<1>0. UNCHANGED session /\ CartsStay /\ TalkStays /\ OrdersStay
    BY DEF Press
<1>1. n \in Nat /\ n \in 1..carts /\ n \in 0..carts
    BY BotConstants DEF Press, Nonces, BotInvariant, BotTyped
<1>2. cart[n].code \in Codes \cup {NoCode}
    BY DEF BotInvariant, BotTyped
<1>3. PICK step \in {"pay", "coupon", "quote"}, c \in Codes \cup {NoCode} :
         Turn(h, step, n, c)
    BY <1>2 DEF Press
<1>4. /\ handler' \in [Handlers -> [step : HandlerSteps, of : Nat,
                                     code : Codes \cup {NoCode}]]
      /\ handler'[h].step = step /\ handler'[h].of = n
      /\ \A g \in Handlers \ {h} : handler'[g] = handler[g]
    BY <1>1, <1>3, TurnTyped DEF BotInvariant, HandlerSteps
<1>5. /\ handler'[h].step \notin QuestionKinds \cup {"send"}
      /\ handler'[h].of = n
    BY <1>4, KindsApart
<1> QED
    BY <1>0, <1>1, <1>4, <1>5, HandlerMoves

LEMMA AskInvariant ==
    ASSUME BotInvariant, NEW kind \in Questions, Ask(kind)
    PROVE  BotInvariant'
<1> USE DEF BotInvariant
<1>0. /\ UNCHANGED <<handler, cart, carts, used, calls, ordered>>
      /\ asked' = asked + 1 /\ asked < MaxAsked
      /\ session' = [kind |-> kind, of |-> asked + 1, submitted |-> FALSE,
                     old |-> FALSE]
      /\ kind \in QuestionKinds
    BY BotConstants DEF Ask, Saved, CartsStay, OrdersStay
<1>1. BotTyped' /\ FirstIsEarlier'
    BY <1>0, BotConstants DEF BotTyped, SessionKinds, FirstIsEarlier
<1>2. RefersToMade'
    BY <1>0, BotConstants, KindsApart DEF RefersToMade, BotTyped
<1>3. AskedOnce'
    BY <1>0, BotConstants DEF AskedOnce, Asking, RefersToMade, BotTyped
<1>4. \A n \in 1..carts : Spent(n)' => Spent(n)
    BY <1>0, SpentKeeps
<1>5. SpentOnce'
    BY <1>0, <1>4, SpentOnceKeeps, KindsApart DEF HasCart, CartsStay
<1> QED
    BY <1>1, <1>2, <1>3, <1>5

(* A question is asked again, and its handler ends.                        *)
LEMMA AsksAgain ==
    ASSUME BotInvariant, NEW h \in Handlers, NEW kind \in QuestionKinds,
           asked < MaxAsked, asked' = asked + 1, Saved(kind, asked + 1),
           Ends(h), UNCHANGED used, CartsStay, OrdersStay
    PROVE  BotInvariant'
<1> USE DEF BotInvariant
<1>0. /\ UNCHANGED <<cart, carts, calls, ordered>>
      /\ session' = [kind |-> kind, of |-> asked + 1, submitted |-> FALSE,
                     old |-> FALSE]
    BY DEF Saved, CartsStay, OrdersStay
<1>1. /\ handler' \in [Handlers -> [step : HandlerSteps, of : Nat,
                                     code : Codes \cup {NoCode}]]
      /\ handler'[h].step = "none" /\ handler'[h].step # "send"
      /\ handler'[h].step \notin QuestionKinds
      /\ \A g \in Handlers \ {h} : handler'[g] = handler[g]
    BY EndsTyped
<1>2. BotTyped' /\ FirstIsEarlier'
    BY <1>0, <1>1, BotConstants DEF BotTyped, SessionKinds, FirstIsEarlier
<1>r. /\ session'.kind = kind /\ session'.of = asked'
      /\ asked \in Nat /\ asked' \in 1..MaxAsked
    BY <1>0, BotConstants DEF BotTyped
<1>3. RefersToMade'
    <2>1. \A g \in Handlers :
             \/ handler'[g] = handler[g]
             \/ handler'[g].step = "none"
        BY <1>1
    <2> QED
        BY <1>0, <1>r, <2>1, KindsApart DEF RefersToMade
<1>4. AskedOnce'
    <2>1. \A g \in Handlers :
             Asking(g)' => /\ Asking(g) /\ handler'[g] = handler[g]
                           /\ handler[g].of \in 1..asked
        BY <1>1 DEF Asking, RefersToMade
    <2>2. \A q \in 1..MaxAsked :
             used'[q] <= 1 /\ (q > asked' => used'[q] = 0)
        BY <1>r DEF AskedOnce
    <2>3. used'[session'.of] = 0
        BY <1>r DEF AskedOnce
    <2> QED
        BY <1>r, <2>1, <2>2, <2>3 DEF AskedOnce
<1>5. \A n \in 1..carts : Spent(n)' => Spent(n)
    BY <1>0, <1>1, SpentKeeps
<1>6. SpentOnce'
    BY <1>0, <1>5, SpentOnceKeeps, KindsApart DEF HasCart, CartsStay
<1> QED
    BY <1>2, <1>3, <1>4, <1>6

(* A question is used, and its handler quotes or ends.                     *)
LEMMA QuestionIsUsed ==
    ASSUME BotInvariant, NEW h \in Handlers, Asking(h),
           used' = [used EXCEPT ![handler[h].of] = @ + 1],
           Turn(h, "quote", 0, NoCode) \/ Ends(h),
           UNCHANGED <<session, asked>>, CartsStay, OrdersStay
    PROVE  BotInvariant'
<1> USE DEF BotInvariant
<1>0. UNCHANGED <<session, asked, cart, carts, calls, ordered>>
    BY DEF CartsStay, OrdersStay
<1>1. /\ handler' \in [Handlers -> [step : HandlerSteps, of : Nat,
                                     code : Codes \cup {NoCode}]]
      /\ \A g \in Handlers \ {h} : handler'[g] = handler[g]
      /\ handler'[h].step \in {"quote", "none"}
      /\ handler'[h].of = 0
    <2>1. CASE Ends(h)
        BY <2>1, EndsTyped DEF Handled
    <2>2. CASE Turn(h, "quote", 0, NoCode)
        <3>1. "quote" \in HandlerSteps /\ 0 \in Nat
            BY DEF HandlerSteps
        <3> QED
            BY <2>2, <3>1, TurnOnly
    <2> QED
        BY <2>1, <2>2
<1>2. handler'[h].step \notin QuestionKinds \cup {"send", "pay", "coupon"}
    BY <1>1, KindsApart
<1>3. handler[h].of \in 1..MaxAsked
    BY BotConstants DEF RefersToMade, Asking, BotTyped
<1>4. /\ used' \in [1..MaxAsked -> Nat] /\ used'[handler[h].of] = 1
      /\ \A q \in 1..MaxAsked \ {handler[h].of} : used'[q] = used[q]
    BY <1>3 DEF BotTyped, AskedOnce
<1>5. BotTyped' /\ FirstIsEarlier'
    BY <1>0, <1>1, <1>4 DEF BotTyped, FirstIsEarlier
<1>6. carts \in Nat
    BY BotConstants DEF BotTyped
<1>7. RefersToMade'
    BY <1>0, <1>1, <1>2, <1>6 DEF RefersToMade
<1>8. AskedOnce'
    <2>1. \A g \in Handlers :
             Asking(g)' => /\ Asking(g) /\ handler'[g] = handler[g]
                           /\ g # h /\ handler[g].of \in 1..MaxAsked
                           /\ handler[g].of # handler[h].of
        BY <1>1, <1>2, BotConstants
        DEF Asking, RefersToMade, AskedOnce, BotTyped
    <2>2. \A q \in 1..MaxAsked :
             used'[q] <= 1 /\ (q > asked' => used'[q] = 0)
        BY <1>0, <1>3, <1>4, BotConstants
        DEF AskedOnce, RefersToMade, Asking, BotTyped
    <2>3. session.kind \in QuestionKinds => used'[session.of] = 0
        BY <1>4, BotConstants DEF AskedOnce, RefersToMade, BotTyped
    <2>4. \A g \in Handlers : Asking(g)' => used'[handler'[g].of] = 0
        BY <1>4, <2>1 DEF AskedOnce
    <2> QED
        BY <1>0, <2>1, <2>2, <2>3, <2>4 DEF AskedOnce
<1>9. \A n \in 1..carts : Spent(n)' => Spent(n)
    BY <1>0, <1>1, <1>2, SpentKeeps
<1>10. SpentOnce'
    BY <1>0, <1>9, SpentOnceKeeps DEF HasCart, CartsStay
<1> QED
    BY <1>5, <1>7, <1>8, <1>10

LEMMA AnswerTakenInvariant ==
    ASSUME BotInvariant, NEW h \in Handlers, Answer(h)
    PROVE  BotInvariant'
<1>0. CartsStay /\ OrdersStay
    BY DEF Answer
<1>1. PICK kind \in Questions :
          /\ At(h, kind)
          /\ \/ /\ used' = [used EXCEPT ![handler[h].of] = @ + 1]
                /\ IF kind = "PURCHASE_QUANTITY"
                   THEN Turn(h, "quote", 0, NoCode) ELSE Ends(h)
                /\ UNCHANGED <<session, asked>>
             \/ /\ kind \in {"ORDER_LOOKUP", "ORDER_COMPLAINT"}
                /\ asked < MaxAsked /\ asked' = asked + 1
                /\ Saved(kind, asked + 1) /\ Ends(h) /\ UNCHANGED used
             \/ /\ kind \notin {"ORDER_LOOKUP", "ORDER_COMPLAINT"}
                /\ Ends(h) /\ UNCHANGED <<session, asked, used>>
    BY DEF Answer
<1>2. kind \in QuestionKinds /\ Asking(h)
    BY <1>1, BotConstants DEF At, Asking
<1>3. CASE /\ used' = [used EXCEPT ![handler[h].of] = @ + 1]
           /\ IF kind = "PURCHASE_QUANTITY"
              THEN Turn(h, "quote", 0, NoCode) ELSE Ends(h)
           /\ UNCHANGED <<session, asked>>
    BY <1>0, <1>2, <1>3, QuestionIsUsed
<1>4. CASE /\ asked < MaxAsked /\ asked' = asked + 1
           /\ Saved(kind, asked + 1) /\ Ends(h) /\ UNCHANGED used
    BY <1>0, <1>2, <1>4, AsksAgain
<1>5. CASE Ends(h) /\ UNCHANGED <<session, asked, used>>
    <2>1. TalkStays
        BY <1>5 DEF TalkStays
    <2> QED
        BY <1>0, <1>5, <2>1, EndsTyped, HandlerMoves DEF BotInvariant
<1> QED
    BY <1>1, <1>3, <1>4, <1>5

LEMMA ReadTextInvariant ==
    ASSUME BotInvariant, NEW h \in Handlers, ReadText(h)
    PROVE  BotInvariant'
<1> USE DEF BotInvariant
<1>0. CartsStay /\ TalkStays /\ OrdersStay
      /\ UNCHANGED <<cart, carts, asked, used, calls, ordered>>
    BY DEF ReadText, CartsStay, TalkStays, OrdersStay
<1>1. CASE session.kind \notin QuestionKinds
    <2>1. UNCHANGED session /\ Turn(h, "peek", 0, NoCode)
        BY <1>1 DEF ReadText
    <2>2. "peek" \in HandlerSteps /\ 0 \in Nat
        BY DEF HandlerSteps
    <2>3. /\ handler' \in [Handlers -> [step : HandlerSteps, of : Nat,
                                         code : Codes \cup {NoCode}]]
          /\ handler'[h].step = "peek"
          /\ \A g \in Handlers \ {h} : handler'[g] = handler[g]
        BY <2>1, <2>2, TurnOnly
    <2> QED
        BY <1>0, <2>1, <2>3, HandlerMoves, KindsApart
<1>2. CASE session.kind \in QuestionKinds
    <2>1. session' = NoSession
        BY <1>2 DEF ReadText, Left
    <2>2. session.kind \in HandlerSteps /\ session.of \in Nat
          /\ session.of \in 1..asked
        BY <1>2 DEF HandlerSteps, BotTyped, RefersToMade
    <2>3. /\ handler' \in [Handlers -> [step : HandlerSteps, of : Nat,
                                         code : Codes \cup {NoCode}]]
          /\ \A g \in Handlers \ {h} : handler'[g] = handler[g]
          /\ \/ handler'[h].step = "none"
             \/ /\ handler'[h].step = session.kind
                /\ handler'[h].of = session.of
        <3>1. CASE Ends(h)
            BY <3>1, EndsTyped
        <3>2. CASE Turn(h, session.kind, session.of, NoCode)
            BY <3>2, <2>2, TurnOnly
        <3> QED
            BY <1>2, <3>1, <3>2 DEF ReadText
    <2>4. session' \in [kind : SessionKinds, of : Nat,
                        submitted : BOOLEAN, old : BOOLEAN]
          /\ session'.kind = "NONE" /\ session'.of = 0
        BY <2>1 DEF NoSession, SessionKinds
    <2>5. BotTyped' /\ FirstIsEarlier'
        BY <1>0, <2>3, <2>4 DEF BotTyped, FirstIsEarlier
    <2>6. RefersToMade'
        BY <1>0, <1>2, <2>2, <2>3, <2>4, KindsApart DEF RefersToMade
    <2>7. AskedOnce'
        BY <1>0, <1>2, <2>2, <2>3, <2>4, KindsApart DEF AskedOnce, Asking
    <2>8. \A n \in 1..carts : Spent(n)' => Spent(n)
        BY <1>0, <1>2, <2>3, SpentKeeps, KindsApart
    <2>9. SpentOnce'
        BY <1>0, <2>4, <2>8, SpentOnceKeeps, KindsApart DEF HasCart
    <2> QED
        BY <2>5, <2>6, <2>7, <2>9
<1> QED
    BY <1>1, <1>2

LEMMA AskForCodeInvariant ==
    ASSUME BotInvariant, NEW h \in Handlers, AskForCode(h)
    PROVE  BotInvariant'
<1> USE DEF BotInvariant
<1>0. Ends(h) /\ CartsStay /\ TalkStays /\ OrdersStay
      /\ UNCHANGED <<cart, carts, asked, used, calls, ordered>>
    BY DEF AskForCode, CartsStay, TalkStays, OrdersStay
<1>1. CASE UNCHANGED session
    BY <1>0, <1>1, EndsTyped, HandlerMoves
<1>2. CASE /\ HasCart(handler[h].of)
           /\ session' = [session EXCEPT !.kind = "COUPON_CODE"]
    <2>1. /\ handler' \in [Handlers -> [step : HandlerSteps, of : Nat,
                                         code : Codes \cup {NoCode}]]
          /\ handler'[h].step = "none" /\ handler'[h].step # "send"
          /\ handler'[h].step \notin QuestionKinds
          /\ \A g \in Handlers \ {h} : handler'[g] = handler[g]
        BY <1>0, EndsTyped
    <2>2. /\ session' \in [kind : SessionKinds, of : Nat,
                           submitted : BOOLEAN, old : BOOLEAN]
          /\ session'.kind = "COUPON_CODE" /\ session'.of = session.of
          /\ session'.submitted = session.submitted
          /\ session.kind \in CartKinds
        BY <1>2, KindsApart DEF BotTyped, SessionKinds, HasCart
    <2>3. BotTyped' /\ FirstIsEarlier'
        BY <1>0, <2>1, <2>2 DEF BotTyped, FirstIsEarlier
    <2>4. RefersToMade'
        BY <1>0, <2>1, <2>2, KindsApart DEF RefersToMade
    <2>5. AskedOnce'
        BY <1>0, <2>1, <2>2, AskedOnceKeeps, KindsApart
    <2>6. \A n \in 1..carts : Spent(n)' => Spent(n)
        BY <1>0, <2>1, SpentKeeps
    <2>7. SpentOnce'
        BY <1>0, <2>2, <2>6, SpentOnceKeeps, KindsApart DEF HasCart
    <2> QED
        BY <2>3, <2>4, <2>5, <2>7
<1> QED
    BY <1>1, <1>2 DEF AskForCode

LEMMA ConfirmInvariant ==
    ASSUME BotInvariant, NEW h \in Handlers, Confirm(h)
    PROVE  BotInvariant'
<1> USE DEF BotInvariant
<1>0. At(h, "pay") /\ CartsStay /\ TalkStays /\ OrdersStay
      /\ UNCHANGED <<cart, carts, asked, used, calls, ordered>>
    BY DEF Confirm, CartsStay, TalkStays, OrdersStay
<1>1. CASE UNCHANGED session /\ Ends(h)
    BY <1>0, <1>1, EndsTyped, HandlerMoves
<1>2. CASE /\ Confirmable(handler[h].of)
           /\ session' = [session EXCEPT !.kind = "CHECKOUT_CONFIRMATION",
                                         !.submitted = TRUE]
           /\ Turn(h, "send", handler[h].of, NoCode)
    <2>0. PICK n \in Nat : n = handler[h].of /\ n \in 1..carts
        BY <1>0 DEF RefersToMade, At, BotTyped
    <2>1. /\ handler' \in [Handlers -> [step : HandlerSteps, of : Nat,
                                         code : Codes \cup {NoCode}]]
          /\ handler'[h].step = "send" /\ handler'[h].of = n
          /\ handler'[h].step \notin QuestionKinds
          /\ \A g \in Handlers \ {h} : handler'[g] = handler[g]
        <3>1. Turn(h, "send", n, NoCode) /\ "send" \in HandlerSteps
            BY <1>2, <2>0 DEF HandlerSteps
        <3> QED
            BY <2>0, <3>1, TurnOnly, KindsApart
    <2>2. /\ session' \in [kind : SessionKinds, of : Nat,
                           submitted : BOOLEAN, old : BOOLEAN]
          /\ session'.kind = "CHECKOUT_CONFIRMATION" /\ session'.of = n
          /\ session'.submitted = TRUE
          /\ session.kind \in CartKinds /\ session.of = n
        BY <1>2, <2>0, KindsApart
        DEF BotTyped, SessionKinds, HasCart, Confirmable
    <2>3. BotTyped' /\ FirstIsEarlier'
        BY <1>0, <2>1, <2>2 DEF BotTyped, FirstIsEarlier
    <2>4. RefersToMade'
        BY <1>0, <2>0, <2>1, <2>2, KindsApart DEF RefersToMade
    <2>5. AskedOnce'
        BY <1>0, <2>1, <2>2, AskedOnceKeeps, KindsApart
    <2>6. \A m \in 1..carts : Spent(m)' => Spent(m) \/ m = n
        BY <1>0, <2>0, <2>1 DEF Spent, Sending, At
    <2>7. HasCart(n) /\ \A m \in 1..carts : HasCart(m)' => m = n
        BY <2>2 DEF HasCart
    <2>8. SpentOnce'
        BY <1>0, <2>0, <2>2, <2>6, <2>7 DEF SpentOnce
    <2> QED
        BY <2>3, <2>4, <2>5, <2>8
<1> QED
    BY <1>1, <1>2 DEF Confirm

LEMMA SendOrderInvariant ==
    ASSUME BotInvariant, NEW h \in Handlers, SendOrder(h)
    PROVE  BotInvariant'
<1> USE DEF BotInvariant
<1>0. /\ At(h, "send") /\ Ends(h) /\ CartsStay /\ TalkStays
      /\ calls' = calls \cup {handler[h].of}
      /\ UNCHANGED <<session, cart, carts, asked, used, ordered>>
    BY DEF SendOrder, CartsStay, TalkStays
<1>1. /\ handler' \in [Handlers -> [step : HandlerSteps, of : Nat,
                                     code : Codes \cup {NoCode}]]
      /\ handler'[h].step = "none" /\ handler'[h].step # "send"
      /\ handler'[h].step \notin QuestionKinds
      /\ \A g \in Handlers \ {h} : handler'[g] = handler[g]
    BY <1>0, EndsTyped
<1>2. handler[h].of \in 1..carts /\ Spent(handler[h].of)
    BY <1>0 DEF RefersToMade, At, Spent, Sending
<1>3. BotTyped' /\ FirstIsEarlier'
    BY <1>0, <1>1, <1>2 DEF BotTyped, FirstIsEarlier
<1>4. RefersToMade'
    BY <1>0, <1>1, KindsApart DEF RefersToMade
<1>5. AskedOnce'
    BY <1>0, <1>1, AskedOnceKeeps
<1>6. \A n \in 1..carts : Spent(n)' => Spent(n)
    BY <1>0, <1>1, <1>2 DEF Spent, Sending, At
<1>7. SpentOnce'
    BY <1>0, <1>6, SpentOnceKeeps DEF HasCart
<1> QED
    BY <1>3, <1>4, <1>5, <1>7

LEMMA ServeOrderInvariant ==
    ASSUME BotInvariant, NEW n \in Nonces, ServeOrder(n)
    PROVE  BotInvariant'
<1> USE DEF BotInvariant
<1>0. /\ CartsStay /\ TalkStays /\ n \in calls
      /\ calls' \subseteq calls
      /\ ordered' \in {ordered, ordered \cup {n}}
      /\ UNCHANGED <<session, handler, cart, carts, asked, used>>
    BY DEF ServeOrder, CartsStay, TalkStays
<1>1. BotTyped' /\ FirstIsEarlier' /\ RefersToMade'
    BY <1>0 DEF BotTyped, FirstIsEarlier, RefersToMade
<1>2. AskedOnce'
    BY <1>0, AskedOnceKeeps
<1>3. \A m \in 1..carts : Spent(m)' => Spent(m)
    BY <1>0 DEF Spent, Sending, At
<1>4. SpentOnce'
    BY <1>0, <1>3, SpentOnceKeeps DEF HasCart
<1> QED
    BY <1>1, <1>2, <1>4

LEMMA QuoteInvariant ==
    ASSUME BotInvariant, NEW h \in Handlers, Quote(h)
    PROVE  BotInvariant'
<1> USE DEF BotInvariant
<1>0. At(h, "quote") /\ Ends(h) /\ TalkStays /\ OrdersStay
      /\ UNCHANGED <<asked, used, calls, ordered>>
    BY DEF Quote, TalkStays, OrdersStay
<1>1. CASE UNCHANGED session /\ CartsStay
    BY <1>0, <1>1, EndsTyped, HandlerMoves
<1>2. CASE /\ carts < MaxCarts
           /\ IF handler[h].of = 0 THEN TRUE ELSE Requotable(handler[h].of)
           /\ Saved("CHECKOUT_CONFIRMATION", carts + 1) /\ carts' = carts + 1
           /\ cart' = [cart EXCEPT ![carts + 1] =
                 [code |-> handler[h].code, first |->
                    IF handler[h].of = 0 THEN carts + 1
                    ELSE cart[handler[h].of].first]]
    <2> DEFINE n == carts + 1
               p == handler[h].of
               first == IF p = 0 THEN n ELSE cart[p].first
    <2>0. p \in 0..carts /\ n \in Nonces /\ carts \in Nat
          /\ (p # 0 => p \in 1..carts)
        BY <1>0, <1>2, BotConstants DEF RefersToMade, At, BotTyped, Nonces
    <2>1. /\ handler' \in [Handlers -> [step : HandlerSteps, of : Nat,
                                         code : Codes \cup {NoCode}]]
          /\ handler'[h].step = "none" /\ handler'[h].step # "send"
          /\ handler'[h].step \notin QuestionKinds
          /\ \A g \in Handlers \ {h} : handler'[g] = handler[g]
        BY <1>0, EndsTyped
    <2>2. /\ session' \in [kind : SessionKinds, of : Nat,
                           submitted : BOOLEAN, old : BOOLEAN]
          /\ session'.kind = "CHECKOUT_CONFIRMATION" /\ session'.of = n
        BY <1>2, <2>0, KindsApart DEF Saved, SessionKinds
    <2>3. first \in 1..n
        BY <2>0 DEF FirstIsEarlier
    <2>4. /\ cart' \in [Nonces -> [code : Codes \cup {NoCode},
                                   first : 0..MaxCarts]]
          /\ cart'[n].first = first
          /\ \A m \in 1..carts : cart'[m] = cart[m]
        <3>1. handler[h].code \in Codes \cup {NoCode}
            BY DEF BotTyped
        <3>2. cart' = [cart EXCEPT ![n] = [code |-> handler[h].code,
                                           first |-> first]]
            BY <1>2
        <3>3. [code |-> handler[h].code, first |-> first]
                 \in [code : Codes \cup {NoCode}, first : 0..MaxCarts]
            BY <2>0, <2>3, <3>1, BotConstants DEF Nonces
        <3> HIDE DEF first
        <3> QED
            BY <2>0, <3>2, <3>3 DEF BotTyped, Nonces
    <2>5. carts' = n /\ n \in 0..MaxCarts
        BY <1>2, <2>0 DEF Nonces
    <2>6. BotTyped'
        BY <1>0, <2>0, <2>1, <2>2, <2>4, <2>5 DEF BotTyped
    <2>7. FirstIsEarlier'
        <3> SUFFICES ASSUME NEW m \in 1..n PROVE cart'[m].first \in 1..m
            BY <2>5 DEF FirstIsEarlier
        <3>1. m = n \/ m \in 1..carts
            BY <2>0
        <3> HIDE DEF first
        <3> QED
            BY <3>1, <2>3, <2>4 DEF FirstIsEarlier
    <2>8. RefersToMade'
        BY <1>0, <2>0, <2>1, <2>2, <2>5, KindsApart DEF RefersToMade
    <2>9. AskedOnce'
        BY <1>0, <2>1, <2>2, AskedOnceKeeps, KindsApart
    <2>10. \A m \in 1..n : Spent(m)' => m \in 1..carts /\ Spent(m)
        <3> SUFFICES ASSUME NEW m \in 1..n, Spent(m)'
                     PROVE  m \in 1..carts /\ Spent(m)
            OBVIOUS
        <3>1. Spent(m)
            BY <1>0, <2>1, SpentKeeps
        <3>2. m \in 1..carts
            BY <3>1 DEF Spent, Sending, At, BotTyped, RefersToMade
        <3> QED
            BY <3>1, <3>2
    <2>11. \A m \in 1..carts : Spent(m) => cart[m].first # first
        <3> SUFFICES ASSUME NEW m \in 1..carts, Spent(m),
                            cart[m].first = first
                     PROVE  FALSE
            OBVIOUS
        <3>1. CASE p = 0
            BY <2>0, <3>1 DEF FirstIsEarlier
        <3>2. CASE p # 0
            <4>1. HasCart(p) /\ ~session.submitted
                BY <1>2, <3>2 DEF Requotable
            <4>2. cart[m].first = cart[p].first
                BY <3>2
            <4> QED
                BY <2>0, <3>2, <4>1, <4>2 DEF SpentOnce
        <3> QED
            BY <3>1, <3>2
    <2>12. SpentOnce'
        <3>1. ASSUME NEW m \in 1..n, NEW k \in 1..n, Spent(m)', Spent(k)',
                     cart'[m].first = cart'[k].first
              PROVE  m = k
            BY <2>4, <2>10, <3>1 DEF SpentOnce
        <3>2. ASSUME NEW m \in 1..n, NEW k \in 1..n, Spent(m)', HasCart(k)',
                     cart'[m].first = cart'[k].first
              PROVE  FALSE
            <4>1. k = n
                BY <2>2, <3>2 DEF HasCart
            <4> HIDE DEF first
            <4> QED
                BY <2>4, <2>10, <2>11, <3>2, <4>1
        <3> HIDE DEF n
        <3> QED
            BY <2>5, <3>1, <3>2 DEF SpentOnce
    <2> QED
        BY <2>6, <2>7, <2>8, <2>9, <2>12
<1> QED
    BY <1>1, <1>2 DEF Quote

LEMMA BotKeepsInvariant == BotInvariant /\ [BotNext]_botVars => BotInvariant'
<1> SUFFICES ASSUME BotInvariant, [BotNext]_botVars PROVE BotInvariant'
    OBVIOUS
<1>1. CASE BotNext
    <2>1. ASSUME NEW kind \in Questions, Ask(kind) PROVE BotInvariant'
        BY <2>1, AskInvariant
    <2>2. ASSUME NEW h \in Handlers,
                 ReadText(h) \/ ReadCode(h) \/ Answer(h) \/ Choose(h)
          PROVE  BotInvariant'
        BY <2>2, ReadTextInvariant, ReadCodeInvariant, AnswerTakenInvariant,
           ChooseInvariant
    <2>3. ASSUME NEW h \in Handlers,
                 Quote(h) \/ AskForCode(h) \/ Confirm(h) \/ SendOrder(h)
          PROVE  BotInvariant'
        BY <2>3, QuoteInvariant, AskForCodeInvariant, ConfirmInvariant,
           SendOrderInvariant
    <2>4. ASSUME NEW h \in Handlers, NEW n \in Nonces,
                 HandlerDies(h) \/ Press(h, n)
          PROVE  BotInvariant'
        BY <2>4, HandlerDiesInvariant, PressInvariant
    <2>5. ASSUME NEW n \in Nonces, ServeOrder(n) PROVE BotInvariant'
        BY <2>5, ServeOrderInvariant
    <2>6. ASSUME NEW h \in Handlers, HandlerDies(h) PROVE BotInvariant'
        BY <2>6, HandlerDiesInvariant
    <2> QED
        BY <1>1, <2>1, <2>2, <2>3, <2>4, <2>5, <2>6, SessionAgesInvariant
        DEF BotNext
<1>2. CASE UNCHANGED botVars
    BY <1>2 DEF botVars, BotInvariant, BotTyped, RefersToMade,
       FirstIsEarlier, AskedOnce, Asking, SpentOnce, Spent, Sending, At,
       HasCart
<1> QED
    BY <1>1, <1>2

LEMMA BotSaysOnce == BotInvariant => BotTypeOK /\ SaidOnceDoneOnce
<1> SUFFICES ASSUME BotInvariant PROVE BotTypeOK /\ SaidOnceDoneOnce
    OBVIOUS
<1> USE DEF BotInvariant
<1>1. BotTypeOK
    BY BotConstants DEF BotTypeOK, BotTyped, RefersToMade, SessionKinds
<1>2. SaidOnceDoneOnce
    BY DEF SaidOnceDoneOnce, AskedOnce, SpentOnce, Spent, BotTyped
<1> QED
    BY <1>1, <1>2

(* A confirmation makes one order and an answer is taken once, however     *)
(* many updates bring it, for any number of handlers, chats and questions  *)
(* (shop.bot.ts:432-585).                                                  *)
THEOREM WhatIsSaidIsDoneOnce == BotSpec => [](BotTypeOK /\ SaidOnceDoneOnce)
BY BotInitInvariant, BotKeepsInvariant, BotSaysOnce, PTL DEF BotSpec

-----------------------------------------------------------------------------
(* The chat about payment codes.                                           *)

QrStatuses == {"NONE", "PENDING", "EXPIRED", "APPROVED"}

Qrs == [status : QrStatuses, cart : CartSteps, cancelled : BOOLEAN,
        lapsed : BOOLEAN, prompt : Nat]

Deeds == {"none", "checkout", "deposit", "check", "cancel"}
TalkSteps == {"none", "calls", "answers", "remembers", "reads"}

Talks == [does : Deeds, of : QrCodes \cup {0}, step : TalkSteps, got : Qrs,
          from : Nat, again : BOOLEAN]

News == {"recorded", "closed", "cancelled", "bought", "in wallet",
         "not found"}

(* The requests, their messages and the updates about them.                *)
ChatTyped ==
    /\ qr \in [QrCodes -> Qrs]
    /\ paid \in [QrCodes -> {"no", "sent", "credited"}]
    /\ parcel \in [QrCodes -> {"no", "sent", "clean"}]
    /\ prompts \in Seq(QrCodes \X BOOLEAN) /\ Len(prompts) <= MaxShown
    /\ talk \in [Talkers -> Talks]
    /\ said \in [QrCodes -> SUBSET News]

(* A request that was cancelled has lost its cart, and nothing is bought   *)
(* before there is money.                                                  *)
Sound(q) ==
    /\ q.cancelled => q.cart = "FAILED"
    /\ q.cart \in {"FULFILLED", "PROCESSING"} => q.status = "APPROVED"
    /\ q.status = "NONE" => q.cart = "NONE"

(* What was final in p is so in q, which the request became.               *)
Follows(q, p) ==
    /\ p.status # "NONE" => q.status # "NONE"
    /\ p.status \notin {"NONE", "PENDING"}
          => q.status \notin {"NONE", "PENDING"}
    /\ p.status = "APPROVED" => q.status = "APPROVED"
    /\ p.cart \in {"FULFILLED", "FAILED"} => q.cart = p.cart
    /\ p.cart = "NONE" /\ p.status # "NONE" => q.cart = "NONE"
    /\ p.cart # "NONE" => q.cart # "NONE"
    /\ p.cancelled => q.cancelled

(* A request is approved when its money is in the wallet, and its message  *)
(* is about it.                                                            *)
QrsAreSound ==
    \A r \in QrCodes :
       /\ Sound(qr[r])
       /\ paid[r] = "credited" <=> qr[r].status = "APPROVED"
       /\ parcel[r] # "no" => qr[r].cart = "FULFILLED"
       /\ qr[r].prompt \in 0..Len(prompts)
       /\ qr[r].prompt # 0 => prompts[qr[r].prompt][1] = r

(* What the handling of an update knows may be old, and is not wrong.      *)
Knows(h) ==
    /\ talk[h].does = "none" => talk[h].step = "none"
    /\ talk[h].does # "none" =>
       /\ talk[h].of \in QrCodes
       /\ Sound(talk[h].got) /\ Follows(qr[talk[h].of], talk[h].got)
       /\ talk[h].does = "cancel" => IsCheckout(talk[h].of)
       /\ talk[h].from \in 0..Len(prompts)
       /\ talk[h].from # 0 => prompts[talk[h].from][1] = talk[h].of
       /\ talk[h].again =>
             /\ qr[talk[h].of].status \notin {"NONE", "PENDING"}
             /\ talk[h].step = "answers" => talk[h].got.status # "PENDING"
             /\ ~(talk[h].does = "checkout" /\ talk[h].step = "remembers")

(* What the bot told of a request is what became of it.                    *)
SaidIsSo ==
    \A r \in QrCodes :
       /\ "cancelled" \in said[r] => qr[r].cancelled
                                     /\ qr[r].cart = "FAILED"
       /\ "bought" \in said[r] => qr[r].cart = "FULFILLED"
       /\ "in wallet" \in said[r] => qr[r].cart \in {"FAILED", "NONE"}
       /\ said[r] \cap {"recorded", "bought", "in wallet"} # {}
          => paid[r] = "credited"

(* Only the code of a request that is paid is taken from the screen.       *)
GoneIsPaid ==
    \A m \in 1..Len(prompts) :
       ~prompts[m][2] => paid[prompts[m][1]] = "credited"

(* No update knows what is wrong by now, so none tells it.                 *)
ChatInvariant ==
    /\ ChatTyped /\ QrsAreSound /\ SaidIsSo /\ GoneIsPaid
    /\ \A h \in Talkers : Knows(h)

LEMMA FollowsItself == \A q : Follows(q, q)
BY DEF Follows

LEMMA FollowsOn ==
    \A q, p, o : Follows(q, p) /\ Follows(p, o) /\ Sound(o) /\ Sound(p)
                 => Follows(q, o)
BY DEF Follows, Sound

LEMMA NoQrIsSound ==
    /\ NoQr \in Qrs /\ Sound(NoQr) /\ \A q : Follows(q, NoQr)
    /\ NoQr.status = "NONE" /\ NoQr.cart = "NONE" /\ NoQr.prompt = 0
BY DEF NoQr, Qrs, Sound, Follows, QrStatuses, CartSteps

LEMMA SilentIsTyped ==
    Silent \in Talks /\ Silent.does = "none" /\ Silent.step = "none"
BY NoQrIsSound DEF Silent, Talks, Deeds, TalkSteps

LEMMA ChatInitInvariant == ChatInit => ChatInvariant
<1> SUFFICES ASSUME ChatInit PROVE ChatInvariant
    OBVIOUS
<1>1. /\ qr \in [QrCodes -> Qrs] /\ talk \in [Talkers -> Talks]
      /\ \A r \in QrCodes : qr[r] = NoQr
      /\ \A h \in Talkers : talk[h].does = "none" /\ talk[h].step = "none"
    BY NoQrIsSound, SilentIsTyped DEF ChatInit
<1>2. prompts = <<>> /\ prompts \in Seq(QrCodes \X BOOLEAN)
      /\ Len(prompts) = 0
    BY DEF ChatInit
<1>3. ChatTyped
    BY <1>1, <1>2, ChatConstants DEF ChatTyped, ChatInit
<1>4. QrsAreSound
    <2>1. \A r \in QrCodes : paid[r] = "no" /\ parcel[r] = "no"
        BY DEF ChatInit
    <2>2. \A r \in QrCodes : qr[r].prompt = 0 /\ qr[r].status = "NONE"
                              /\ Sound(qr[r])
        BY <1>1, NoQrIsSound, Zenon
    <2>3. 0 \in 0..Len(prompts)
        BY <1>2
    <2> QED
        BY <2>1, <2>2, <2>3 DEF QrsAreSound
<1>5. SaidIsSo
    BY DEF SaidIsSo, ChatInit
<1>6. GoneIsPaid
    <2> SUFFICES ASSUME NEW m \in 1..Len(prompts) PROVE FALSE
        BY DEF GoneIsPaid
    <2>1. m \in 1..0
        BY <1>2
    <2> QED
        BY <2>1
<1> QED
    BY <1>1, <1>3, <1>4, <1>5, <1>6 DEF ChatInvariant, Knows

(* The QR messages are those that were there, and perhaps more.            *)
PromptsGrow ==
    /\ Len(prompts') \in Nat /\ Len(prompts') >= Len(prompts)
    /\ \A m \in 1..Len(prompts) : prompts'[m][1] = prompts[m][1]

QrsFollow ==
    \A r \in QrCodes :
       /\ Follows(qr'[r], qr[r])
       /\ paid[r] = "credited" => paid'[r] = "credited"

(* Who does not move knows what it knew, and it is still not wrong.        *)
LEMMA StillKnows ==
    ASSUME ChatInvariant, QrsFollow, PromptsGrow, NEW h \in Talkers,
           talk'[h] = talk[h]
    PROVE  Knows(h)'
<1> SUFFICES ASSUME talk[h].does # "none" PROVE Knows(h)'
    BY DEF Knows, ChatInvariant
<1>1. Knows(h) /\ talk[h].of \in QrCodes
    BY DEF ChatInvariant, Knows
<1>2. /\ Follows(qr'[talk[h].of], qr[talk[h].of]) /\ Sound(qr[talk[h].of])
    BY <1>1 DEF QrsFollow, ChatInvariant, QrsAreSound
<1>3. Follows(qr'[talk[h].of], talk[h].got)
    BY <1>1, <1>2, FollowsOn DEF Knows
<1>4. /\ talk[h].from \in 0..Len(prompts')
      /\ talk[h].from # 0 => prompts'[talk[h].from][1] = talk[h].of
    <2>1. /\ talk[h].from \in 0..Len(prompts)
          /\ talk[h].from # 0 => prompts[talk[h].from][1] = talk[h].of
        BY <1>1 DEF Knows
    <2>2. Len(prompts) \in Nat
        BY DEF ChatInvariant, ChatTyped
    <2>3. Len(prompts') \in Nat /\ Len(prompts') >= Len(prompts)
        BY DEF PromptsGrow
    <2>4. talk[h].from # 0 => talk[h].from \in 1..Len(prompts)
        BY <2>1, <2>2
    <2>5. talk[h].from # 0 => prompts'[talk[h].from][1] = talk[h].of
        BY <2>1, <2>4, Zenon DEF PromptsGrow
    <2> QED
        BY <2>1, <2>2, <2>3, <2>5
<1>5. talk[h].does = "cancel" => qr'[talk[h].of].cart # "NONE"
    BY <1>1, <1>2 DEF Knows, IsCheckout, Follows
<1>6. talk[h].again => qr'[talk[h].of].status \notin {"NONE", "PENDING"}
    BY <1>1, <1>2 DEF Knows, Follows
<1> QED
    BY <1>1, <1>3, <1>4, <1>5, <1>6 DEF Knows, IsCheckout
LEMMA StillSaid ==
    ASSUME ChatInvariant, QrsFollow, UNCHANGED said
    PROVE  SaidIsSo'
<1> SUFFICES ASSUME NEW r \in QrCodes
             PROVE  /\ "cancelled" \in said[r] => qr'[r].cancelled
                                                  /\ qr'[r].cart = "FAILED"
                    /\ "bought" \in said[r] => qr'[r].cart = "FULFILLED"
                    /\ "in wallet" \in said[r]
                         => qr'[r].cart \in {"FAILED", "NONE"}
                    /\ said[r] \cap {"recorded", "bought", "in wallet"} # {}
                         => paid'[r] = "credited"
    BY DEF SaidIsSo
<1>1. /\ Follows(qr'[r], qr[r])
      /\ paid[r] = "credited" => paid'[r] = "credited"
    BY DEF QrsFollow
<1>2. paid[r] = "credited" <=> qr[r].status = "APPROVED"
    BY DEF ChatInvariant, QrsAreSound
<1>3. "in wallet" \in said[r] => paid[r] = "credited"
    BY DEF ChatInvariant, SaidIsSo
<1> QED
    BY <1>1, <1>2, <1>3 DEF ChatInvariant, SaidIsSo, Follows

LEMMA StillPaid ==
    ASSUME ChatInvariant, QrsFollow, UNCHANGED prompts
    PROVE  GoneIsPaid' /\ PromptsGrow
<1>1. prompts \in Seq(QrCodes \X BOOLEAN)
    BY DEF ChatInvariant, ChatTyped
<1>2. Len(prompts) \in Nat
      /\ \A m \in 1..Len(prompts) : prompts[m][1] \in QrCodes
    BY <1>1
<1> QED
    BY <1>2 DEF ChatInvariant, GoneIsPaid, QrsFollow, PromptsGrow

(* One request goes on, with what handlers know of it.                     *)
LEMMA QrGoesOn ==
    ASSUME ChatInvariant, NEW r \in QrCodes, NEW q \in Qrs,
           Sound(q), Follows(q, qr[r]), q.prompt \in {0, qr[r].prompt},
           qr' = [qr EXCEPT ![r] = q],
           paid' \in [QrCodes -> {"no", "sent", "credited"}],
           \A s \in QrCodes \ {r} : paid'[s] = paid[s],
           paid'[r] = "credited" <=> q.status = "APPROVED",
           UNCHANGED <<parcel, prompts, said>>,
           talk' \in [Talkers -> Talks],
           \A h \in Talkers : talk'[h] # talk[h] => Knows(h)'
    PROVE  ChatInvariant'
<1>1. /\ qr' \in [QrCodes -> Qrs] /\ qr'[r] = q
      /\ \A s \in QrCodes \ {r} : qr'[s] = qr[s]
    BY DEF ChatInvariant, ChatTyped
<1>2. ChatTyped'
    BY <1>1 DEF ChatInvariant, ChatTyped
<1>3. QrsFollow
    <2>1. ASSUME NEW s \in QrCodes
          PROVE  /\ Follows(qr'[s], qr[s])
                 /\ paid[s] = "credited" => paid'[s] = "credited"
        <3>1. CASE s = r
            BY <1>1, <3>1 DEF Follows, ChatInvariant, QrsAreSound
        <3>2. CASE s # r
            BY <1>1, <3>2, FollowsItself
        <3> QED
            BY <3>1, <3>2
    <2> QED
        BY <2>1 DEF QrsFollow
<1>4. QrsAreSound'
    <2> SUFFICES ASSUME NEW s \in QrCodes
                 PROVE  /\ Sound(qr'[s])
                        /\ paid'[s] = "credited" <=> qr'[s].status = "APPROVED"
                        /\ parcel[s] # "no" => qr'[s].cart = "FULFILLED"
                        /\ qr'[s].prompt \in 0..Len(prompts)
                        /\ qr'[s].prompt # 0
                             => prompts[qr'[s].prompt][1] = s
        BY DEF QrsAreSound
    <2>1. CASE s = r
        BY <1>1, <2>1 DEF ChatInvariant, QrsAreSound, Follows
    <2>2. CASE s # r
        BY <1>1, <2>2 DEF ChatInvariant, QrsAreSound
    <2> QED
        BY <2>1, <2>2
<1>5. SaidIsSo' /\ GoneIsPaid' /\ PromptsGrow
    BY <1>3, StillSaid, StillPaid
<1>6. \A h \in Talkers : Knows(h)'
    BY <1>3, <1>5, StillKnows
<1> QED
    BY <1>2, <1>4, <1>5, <1>6 DEF ChatInvariant

(* Nothing happens to the requests: a handler goes on.                     *)
LEMMA TalkGoesOn ==
    ASSUME ChatInvariant, UNCHANGED <<qr, paid, parcel, prompts, said>>,
           talk' \in [Talkers -> Talks],
           \A h \in Talkers : talk'[h] # talk[h] => Knows(h)'
    PROVE  ChatInvariant'
<1>1. QrsFollow
    BY FollowsItself DEF QrsFollow
<1>2. ChatTyped' /\ QrsAreSound'
    BY DEF ChatInvariant, ChatTyped, QrsAreSound
<1>3. SaidIsSo' /\ GoneIsPaid' /\ PromptsGrow
    BY <1>1, StillSaid, StillPaid
<1>4. \A h \in Talkers : Knows(h)'
    BY <1>1, <1>3, StillKnows
<1> QED
    BY <1>2, <1>3, <1>4 DEF ChatInvariant

LEMMA FallsKnows ==
    ASSUME ChatInvariant, NEW h \in Talkers, Falls(h)
    PROVE  /\ talk' \in [Talkers -> Talks] /\ Knows(h)'
           /\ \A g \in Talkers : talk'[g] # talk[g] => Knows(g)'
<1>1. /\ talk' \in [Talkers -> Talks] /\ talk'[h] = Silent
      /\ \A g \in Talkers \ {h} : talk'[g] = talk[g]
    BY SilentIsTyped DEF Falls, ChatInvariant, ChatTyped
<1>2. Knows(h)'
    BY <1>1, SilentIsTyped DEF Knows
<1> QED
    BY <1>1, <1>2

(* One handler goes on: what it is then, field by field.                   *)
LEMMA OneTalks ==
    ASSUME ChatInvariant, NEW h \in Talkers, NEW t \in Talks,
           talk' = [talk EXCEPT ![h] = t]
    PROVE  /\ talk' \in [Talkers -> Talks] /\ talk'[h] = t
           /\ \A g \in Talkers \ {h} : talk'[g] = talk[g]
BY DEF ChatInvariant, ChatTyped

Pressed(does, r, from, again) ==
    [Silent EXCEPT !.does = does, !.of = r, !.step = "calls",
                   !.from = from, !.again = again]

LEMMA PressedIsTyped ==
    ASSUME NEW does \in Deeds, NEW r \in QrCodes, NEW from \in Nat,
           NEW again \in BOOLEAN,
           NEW t, t = Pressed(does, r, from, again)
    PROVE  /\ t \in Talks /\ t.does = does /\ t.of = r /\ t.step = "calls"
           /\ t.from = from /\ t.again = again /\ t.got = NoQr
BY NoQrIsSound DEF Pressed, Silent, Talks, Deeds, TalkSteps

LEMMA PressButtonInvariant ==
    ASSUME ChatInvariant, NEW h \in Talkers, NEW does \in Deeds \ {"none"},
           NEW r \in QrCodes, NEW from \in 0..Len(prompts),
           from # 0 => prompts[from][1] = r,
           does = "cancel" => IsCheckout(r),
           PressButton(h, does, r, from)
    PROVE  ChatInvariant'
<1> DEFINE again == qr[r].status # "NONE" /\ qr[r].status # "PENDING"
           t == Pressed(does, r, from, again)
<1>1. talk' = [talk EXCEPT ![h] = t]
    BY DEF PressButton, Pressed
<1>2. from \in Nat /\ again \in BOOLEAN
    BY DEF ChatInvariant, ChatTyped
<1>3. /\ t \in Talks /\ t.does = does /\ t.of = r /\ t.step = "calls"
      /\ t.from = from /\ t.again = again /\ t.got = NoQr
    <2> HIDE DEF again
    <2> QED
        BY <1>2, PressedIsTyped
<1> HIDE DEF t
<1>4. /\ talk' \in [Talkers -> Talks] /\ talk'[h] = t
      /\ \A g \in Talkers \ {h} : talk'[g] = talk[g]
    BY <1>1, <1>3, OneTalks
<1>5. UNCHANGED <<qr, paid, parcel, prompts, said>>
    BY DEF PressButton
<1>6. Knows(h)'
    <2>1. /\ talk'[h].of = r /\ talk'[h].step = "calls"
          /\ talk'[h].does = does
          /\ talk'[h].from = from /\ Sound(talk'[h].got)
          /\ Follows(qr'[r], talk'[h].got)
        BY <1>3, <1>4, NoQrIsSound
    <2>2. talk'[h].again => qr[r].status \notin {"NONE", "PENDING"}
        BY <1>3, <1>4
    <2> HIDE DEF again
    <2> QED
        BY <1>5, <2>1, <2>2, Zenon DEF Knows, IsCheckout
<1> QED
    BY <1>4, <1>5, <1>6, TalkGoesOn

LEMMA ButtonsInvariant ==
    ASSUME ChatInvariant, NEW h \in Talkers,
           ConfirmCart(h) \/ AskDeposit(h) \/ PressCheck(h) \/ PressCancel(h)
    PROVE  ChatInvariant'
<1>0. 0 \in 0..Len(prompts) /\ DOMAIN prompts = 1..Len(prompts)
      /\ Len(prompts) \in Nat
    BY DEF ChatInvariant, ChatTyped
<1>1. CASE ConfirmCart(h)
    <2>1. PICK r \in QrCodes : PressButton(h, "checkout", r, 0)
        BY <1>1 DEF ConfirmCart, AsksFor
    <2>2. "checkout" \in Deeds \ {"none"}
        BY DEF Deeds
    <2> QED
        BY <1>0, <2>1, <2>2, PressButtonInvariant
<1>2. CASE AskDeposit(h)
    <2>1. PICK r \in QrCodes : PressButton(h, "deposit", r, 0)
        BY <1>2 DEF AskDeposit, AsksFor
    <2>2. "deposit" \in Deeds \ {"none"}
        BY DEF Deeds
    <2> QED
        BY <1>0, <2>1, <2>2, PressButtonInvariant
<1>3. CASE PressCancel(h)
    <2>1. PICK r \in QrCodes : IsCheckout(r) /\ PressButton(h, "cancel", r, 0)
        BY <1>3 DEF PressCancel, Existing
    <2>2. "cancel" \in Deeds \ {"none"}
        BY DEF Deeds
    <2> QED
        BY <1>0, <2>1, <2>2, PressButtonInvariant
<1>4. CASE PressCheck(h)
    <2>1. PICK r \in Existing :
             \E m \in {0} \cup {n \in DOMAIN prompts :
                                prompts[n] = <<r, TRUE>>} :
                PressButton(h, "check", r, m)
        BY <1>4 DEF PressCheck
    <2>4. r \in QrCodes
        BY DEF Existing
    <2>5. PICK m \in {0} \cup {n \in DOMAIN prompts :
                                 prompts[n] = <<r, TRUE>>} :
             PressButton(h, "check", r, m)
        BY <2>1
    <2>2. "check" \in Deeds \ {"none"}
        BY DEF Deeds
    <2>3. m \in 0..Len(prompts) /\ (m # 0 => prompts[m][1] = r)
        <3>1. CASE m = 0
            BY <1>0, <3>1
        <3>2. CASE m # 0
            <4>1. m \in 1..Len(prompts) /\ prompts[m] = <<r, TRUE>>
                BY <1>0, <3>2
            <4> QED
                BY <1>0, <4>1
        <3> QED
            BY <3>1, <3>2
    <2> QED
        BY <2>4, <2>5, <2>2, <2>3, PressButtonInvariant
<1> QED
    BY <1>1, <1>2, <1>3, <1>4

(* What is answered: the request as it is.                                 *)
LEMMA GetsTyped ==
    ASSUME ChatInvariant, NEW h \in Talkers, NEW got \in Qrs, Gets(h, got)
    PROVE  /\ talk' \in [Talkers -> Talks]
           /\ talk'[h].does = talk[h].does /\ talk'[h].of = talk[h].of
           /\ talk'[h].from = talk[h].from /\ talk'[h].again = talk[h].again
           /\ talk'[h].step = "answers" /\ talk'[h].got = got
           /\ \A g \in Talkers \ {h} : talk'[g] = talk[g]
<1>1. talk \in [Talkers -> Talks] /\ talk[h] \in Talks
    BY DEF ChatInvariant, ChatTyped
<1>2. PICK t \in Talks : t = [talk[h] EXCEPT !.step = "answers", !.got = got]
    BY <1>1 DEF Talks, TalkSteps
<1>3. /\ t.does = talk[h].does /\ t.of = talk[h].of
      /\ t.from = talk[h].from /\ t.again = talk[h].again
      /\ t.step = "answers" /\ t.got = got
    BY <1>1, <1>2 DEF Talks
<1>4. talk' = [talk EXCEPT ![h] = t]
    BY <1>1, <1>2 DEF Gets
<1> QED
    BY <1>3, <1>4, OneTalks

LEMMA StepsTyped ==
    ASSUME ChatInvariant, NEW h \in Talkers, Steps(h, "reads")
    PROVE  /\ talk' \in [Talkers -> Talks]
           /\ talk'[h].does = talk[h].does /\ talk'[h].of = talk[h].of
           /\ talk'[h].from = talk[h].from /\ talk'[h].again = talk[h].again
           /\ talk'[h].step = "reads" /\ talk'[h].got = talk[h].got
           /\ \A g \in Talkers \ {h} : talk'[g] = talk[g]
<1>1. talk \in [Talkers -> Talks] /\ talk[h] \in Talks
    BY DEF ChatInvariant, ChatTyped
<1>2. PICK t \in Talks : t = [talk[h] EXCEPT !.step = "reads"]
    BY <1>1 DEF Talks, TalkSteps
<1>3. /\ t.does = talk[h].does /\ t.of = talk[h].of
      /\ t.from = talk[h].from /\ t.again = talk[h].again
      /\ t.step = "reads" /\ t.got = talk[h].got
    BY <1>1, <1>2 DEF Talks
<1>4. talk' = [talk EXCEPT ![h] = t]
    BY <1>1, <1>2 DEF Steps
<1> QED
    BY <1>3, <1>4, OneTalks

LEMMA ReadBackInvariant ==
    ASSUME ChatInvariant, NEW h \in Talkers, ReadBack(h)
    PROVE  ChatInvariant'
<1>0. /\ talk[h].step = "reads" /\ Gets(h, qr[talk[h].of])
      /\ UNCHANGED <<qr, paid, parcel, prompts, said>>
    BY DEF ReadBack
<1>1. talk[h].does # "none" /\ talk[h].of \in QrCodes
    BY <1>0 DEF ChatInvariant, Knows
<1>2. qr[talk[h].of] \in Qrs /\ Sound(qr[talk[h].of])
    BY <1>1 DEF ChatInvariant, ChatTyped, QrsAreSound
<1>3. /\ talk' \in [Talkers -> Talks]
      /\ talk'[h].does = talk[h].does /\ talk'[h].of = talk[h].of
      /\ talk'[h].from = talk[h].from /\ talk'[h].again = talk[h].again
      /\ talk'[h].step = "answers" /\ talk'[h].got = qr[talk[h].of]
      /\ \A g \in Talkers \ {h} : talk'[g] = talk[g]
    BY <1>0, <1>2, GetsTyped
<1>4. Knows(h)'
    BY <1>0, <1>1, <1>2, <1>3, FollowsItself
    DEF Knows, ChatInvariant, IsCheckout
<1> QED
    BY <1>0, <1>3, <1>4, TalkGoesOn
LEMMA TalkerDiesInvariant ==
    ASSUME ChatInvariant, NEW h \in Talkers, TalkerDies(h)
    PROVE  ChatInvariant'
BY FallsKnows, TalkGoesOn DEF TalkerDies

LEMMA ServeNewInvariant ==
    ASSUME ChatInvariant, NEW h \in Talkers, ServeNew(h)
    PROVE  ChatInvariant'
<1> DEFINE r == talk[h].of
           new == [NoQr EXCEPT !.status = "PENDING",
                      !.cart = IF talk[h].does = "checkout"
                               THEN "PENDING_PAYMENT" ELSE "NONE"]
<1>0. /\ talk[h].does \in {"checkout", "deposit"} /\ talk[h].step = "calls"
      /\ UNCHANGED <<paid, parcel, prompts, said>>
    BY DEF ServeNew
<1>1. r \in QrCodes /\ Knows(h) /\ qr[r] \in Qrs /\ Sound(qr[r])
    BY <1>0 DEF ChatInvariant, Knows, ChatTyped, QrsAreSound
<1>2. CASE Falls(h) /\ UNCHANGED qr
    BY <1>0, <1>2, FallsKnows, TalkGoesOn
<1>3. CASE Gets(h, qr[r]) /\ UNCHANGED qr
    <2>1. /\ talk' \in [Talkers -> Talks]
          /\ talk'[h].does = talk[h].does /\ talk'[h].of = r
          /\ talk'[h].from = talk[h].from /\ talk'[h].again = talk[h].again
          /\ talk'[h].step = "answers" /\ talk'[h].got = qr[r]
          /\ \A g \in Talkers \ {h} : talk'[g] = talk[g]
        BY <1>1, <1>3, GetsTyped
    <2>2. Knows(h)'
        BY <1>0, <1>1, <1>3, <2>1, FollowsItself DEF Knows
    <2> QED
        BY <1>0, <1>3, <2>1, <2>2, TalkGoesOn
<1>4. CASE r \notin Existing /\ Gets(h, new) /\ qr' = [qr EXCEPT ![r] = new]
    <2>1. /\ new \in Qrs /\ Sound(new) /\ new.prompt = 0
          /\ new.status = "PENDING"
        BY DEF Sound, NoQr, Qrs, QrStatuses, CartSteps
    <2>2. qr[r].status = "NONE" /\ qr[r].cart = "NONE"
        BY <1>1, <1>4 DEF Existing, Sound
    <2> HIDE DEF new
    <2>3. Follows(new, qr[r])
        BY <1>1, <2>2 DEF Follows, Sound
    <2>4. /\ talk' \in [Talkers -> Talks]
          /\ talk'[h].does = talk[h].does /\ talk'[h].of = r
          /\ talk'[h].from = talk[h].from /\ talk'[h].again = talk[h].again
          /\ talk'[h].step = "answers" /\ talk'[h].got = new
          /\ \A g \in Talkers \ {h} : talk'[g] = talk[g]
        BY <1>4, <2>1, GetsTyped
    <2>5. qr'[r] = new
        BY <1>1, <1>4 DEF ChatInvariant, ChatTyped
    <2>6. ~talk[h].again
        BY <1>0, <1>1, <2>2 DEF Knows
    <2>7. Knows(h)'
        BY <1>0, <1>1, <2>1, <2>4, <2>5, <2>6, FollowsItself DEF Knows
    <2>9. paid[r] # "credited"
        BY <1>1, <2>2 DEF ChatInvariant, QrsAreSound
    <2> QED
        BY <1>0, <1>1, <1>4, <2>1, <2>3, <2>4, <2>7, <2>9, QrGoesOn
        DEF ChatInvariant, ChatTyped
<1> QED
    BY <1>1, <1>2, <1>3, <1>4 DEF ServeNew
LEMMA ExpiredGoesOn ==
    ASSUME NEW p \in Qrs, Sound(p), NEW q, q = Expired(p)
    PROVE  /\ q \in Qrs /\ Sound(q) /\ Follows(q, p) /\ q.prompt = p.prompt
           /\ q.status = "APPROVED" <=> p.status = "APPROVED"
<1>1. CASE q = p
    BY <1>1, FollowsItself
<1>2. CASE p.status = "PENDING" /\ q = [p EXCEPT !.status = "EXPIRED"]
    BY <1>2 DEF Qrs, QrStatuses, Sound, Follows
<1> QED
    BY <1>1, <1>2 DEF Expired

LEMMA CreditedGoesOn ==
    ASSUME NEW p \in Qrs, Sound(p), p.status # "APPROVED",
           NEW q \in Credited(p)
    PROVE  /\ q \in Qrs /\ Sound(q) /\ Follows(q, p) /\ q.prompt = p.prompt
           /\ q.status = "APPROVED"
<1>1. PICK c \in {p.cart, "FAILED"} :
         /\ q = [p EXCEPT !.status = "APPROVED", !.cart = c]
         /\ p.cart = "NONE" <=> c = "NONE"
    BY DEF Credited
<1>2. /\ q \in Qrs /\ q.cart = c /\ q.status = "APPROVED"
      /\ q.prompt = p.prompt /\ q.cancelled = p.cancelled
    BY <1>1 DEF Qrs, QrStatuses, CartSteps
<1> QED
    BY <1>1, <1>2 DEF Sound, Follows

LEMMA OrderedGoesOn ==
    ASSUME NEW p \in Qrs, Sound(p), NEW q \in Ordered(p)
    PROVE  /\ q \in Qrs /\ Sound(q) /\ Follows(q, p) /\ q.prompt = p.prompt
           /\ q.status = p.status
<1>1. CASE q = p
    BY <1>1, FollowsItself
<1>2. CASE /\ p.status = "APPROVED"
           /\ p.cart \in {"PENDING_PAYMENT", "PROCESSING"}
           /\ q \in {[p EXCEPT !.cart = c] :
                        c \in {"PROCESSING", "FULFILLED", "FAILED"}}
    <2>1. PICK c \in {"PROCESSING", "FULFILLED", "FAILED"} :
             q = [p EXCEPT !.cart = c]
        BY <1>2
    <2>2. /\ q \in Qrs /\ q.cart = c /\ q.status = p.status
          /\ q.prompt = p.prompt /\ q.cancelled = p.cancelled
        BY <2>1 DEF Qrs, CartSteps
    <2> QED
        BY <1>2, <2>2 DEF Sound, Follows
<1> QED
    BY <1>1, <1>2 DEF Ordered

LEMMA MoneyArrivesInvariant ==
    ASSUME ChatInvariant, NEW r \in QrCodes, MoneyArrives(r)
    PROVE  ChatInvariant'
<1>0. /\ paid[r] = "sent" /\ paid' = [paid EXCEPT ![r] = "credited"]
      /\ UNCHANGED <<parcel, prompts, talk, said>>
    BY DEF MoneyArrives
<1>1. PICK q \in Credited(qr[r]) : qr' = [qr EXCEPT ![r] = q]
    BY DEF MoneyArrives
<1>2. qr[r] \in Qrs /\ Sound(qr[r]) /\ qr[r].status # "APPROVED"
    BY <1>0 DEF ChatInvariant, ChatTyped, QrsAreSound
<1>3. /\ q \in Qrs /\ Sound(q) /\ Follows(q, qr[r])
      /\ q.prompt = qr[r].prompt /\ q.status = "APPROVED"
    BY <1>2, CreditedGoesOn
<1>4. /\ paid' \in [QrCodes -> {"no", "sent", "credited"}]
      /\ paid'[r] = "credited"
      /\ \A s \in QrCodes \ {r} : paid'[s] = paid[s]
      /\ talk' \in [Talkers -> Talks]
    BY <1>0 DEF ChatInvariant, ChatTyped
<1> QED
    BY <1>0, <1>1, <1>3, <1>4, QrGoesOn

LEMMA OrderGoesOnInvariant ==
    ASSUME ChatInvariant, NEW r \in QrCodes, OrderGoesOn(r)
    PROVE  ChatInvariant'
<1>1. PICK q \in Ordered(qr[r]) : qr' = [qr EXCEPT ![r] = q]
    BY DEF OrderGoesOn
<1>2. UNCHANGED <<paid, parcel, prompts, talk, said>>
    BY DEF OrderGoesOn
<1>3. /\ qr[r] \in Qrs /\ Sound(qr[r])
      /\ paid[r] = "credited" <=> qr[r].status = "APPROVED"
      /\ paid \in [QrCodes -> {"no", "sent", "credited"}]
      /\ talk \in [Talkers -> Talks]
    BY DEF ChatInvariant, ChatTyped, QrsAreSound
<1>4. /\ q \in Qrs /\ Sound(q) /\ Follows(q, qr[r])
      /\ q.prompt = qr[r].prompt /\ q.status = qr[r].status
    BY <1>3, OrderedGoesOn
<1> QED
    BY <1>1, <1>2, <1>3, <1>4, QrGoesOn

LEMMA TimeIsUpInvariant ==
    ASSUME ChatInvariant, NEW r \in QrCodes, TimeIsUp(r)
    PROVE  ChatInvariant'
<1>1. /\ qr[r] \in Qrs /\ Sound(qr[r])
      /\ paid[r] = "credited" <=> qr[r].status = "APPROVED"
      /\ paid \in [QrCodes -> {"no", "sent", "credited"}]
      /\ talk \in [Talkers -> Talks]
    BY DEF ChatInvariant, ChatTyped, QrsAreSound
<1>2. PICK q : /\ qr' = [qr EXCEPT ![r] = q]
               /\ q = Expired(qr[r]) \/ q = [qr[r] EXCEPT !.lapsed = TRUE]
    BY DEF TimeIsUp
<1>3. /\ q \in Qrs /\ Sound(q) /\ Follows(q, qr[r])
      /\ q.prompt = qr[r].prompt
      /\ q.status = "APPROVED" <=> qr[r].status = "APPROVED"
    <2>1. CASE q = Expired(qr[r])
        BY <1>1, <2>1, ExpiredGoesOn
    <2>2. CASE q = [qr[r] EXCEPT !.lapsed = TRUE]
        <3>1. /\ q \in Qrs /\ q.status = qr[r].status
              /\ q.cart = qr[r].cart /\ q.prompt = qr[r].prompt
              /\ q.cancelled = qr[r].cancelled
            BY <1>1, <2>2 DEF Qrs
        <3> QED
            BY <1>1, <3>1 DEF Sound, Follows
    <2> QED
        BY <1>2, <2>1, <2>2
<1> QED
    BY <1>1, <1>2, <1>3, QrGoesOn DEF TimeIsUp
LEMMA ServeCheckInvariant ==
    ASSUME ChatInvariant, NEW h \in Talkers, ServeCheck(h)
    PROVE  ChatInvariant'
<1> DEFINE r == talk[h].of
           late == Expired(qr[r])
<1>0. /\ talk[h].does = "check" /\ talk[h].step = "calls"
      /\ Steps(h, "reads") /\ UNCHANGED <<parcel, prompts, said>>
    BY DEF ServeCheck, Does
<1>1. /\ Knows(h) /\ r \in QrCodes /\ qr[r] \in Qrs /\ Sound(qr[r])
      /\ paid[r] = "credited" <=> qr[r].status = "APPROVED"
      /\ paid \in [QrCodes -> {"no", "sent", "credited"}]
    BY <1>0 DEF ChatInvariant, Knows, ChatTyped, QrsAreSound
<1>2. PICK found \in {FALSE, paid[r] = "sent"} :
         /\ paid' = IF found THEN [paid EXCEPT ![r] = "credited"] ELSE paid
         /\ \E q \in UNION {Ordered(c) : c \in IF found THEN Credited(late)
                                               ELSE {late}} :
               qr' = [qr EXCEPT ![r] = q]
    BY DEF ServeCheck
<1> DEFINE via == IF found THEN Credited(late) ELSE {late}
<1>a. PICK q : /\ \E c \in via : q \in Ordered(c)
               /\ qr' = [qr EXCEPT ![r] = q]
    <2> HIDE DEF via, late
    <2>1. \E q \in UNION {Ordered(c) : c \in via} : qr' = [qr EXCEPT ![r] = q]
        BY <1>2 DEF via
    <2> QED
        BY <2>1
<1>3. PICK c \in via : q \in Ordered(c)
    BY <1>a
<1>4. /\ late \in Qrs /\ Sound(late) /\ Follows(late, qr[r])
      /\ late.prompt = qr[r].prompt
      /\ late.status = "APPROVED" <=> qr[r].status = "APPROVED"
    BY <1>1, ExpiredGoesOn
<1>5. found => paid[r] = "sent"
    OBVIOUS
<1> HIDE DEF late
<1>6. /\ c \in Qrs /\ Sound(c) /\ Follows(c, late)
      /\ c.prompt = late.prompt
      /\ found => c.status = "APPROVED"
      /\ ~found => c = late
    <2>1. CASE found
        <3>1. c \in Credited(late) /\ late.status # "APPROVED"
            BY <1>1, <1>4, <1>5, <2>1
        <3> QED
            BY <1>4, <2>1, <3>1, CreditedGoesOn
    <2>2. CASE ~found
        BY <1>4, <2>2, FollowsItself
    <2> QED
        BY <2>1, <2>2
<1>7. /\ q \in Qrs /\ Sound(q) /\ Follows(q, c) /\ q.prompt = c.prompt
      /\ q.status = c.status
    BY <1>3, <1>6, OrderedGoesOn
<1>8. Follows(q, qr[r])
    <2>1. Follows(q, late)
        BY <1>4, <1>6, <1>7, FollowsOn
    <2> QED
        BY <1>1, <1>4, <2>1, FollowsOn
<1>9. /\ paid' \in [QrCodes -> {"no", "sent", "credited"}]
      /\ \A s \in QrCodes \ {r} : paid'[s] = paid[s]
      /\ paid'[r] = "credited" <=> q.status = "APPROVED"
    <2>1. CASE found
        BY <1>1, <1>2, <1>6, <1>7, <2>1
    <2>2. CASE ~found
        BY <1>1, <1>2, <1>4, <1>6, <1>7, <2>2
    <2> QED
        BY <2>1, <2>2
<1>10. /\ talk' \in [Talkers -> Talks]
       /\ talk'[h].does = talk[h].does /\ talk'[h].of = talk[h].of
       /\ talk'[h].from = talk[h].from /\ talk'[h].again = talk[h].again
       /\ talk'[h].step = "reads" /\ talk'[h].got = talk[h].got
       /\ \A g \in Talkers \ {h} : talk'[g] = talk[g]
    BY <1>0, StepsTyped
<1>11. Knows(h)'
    <2>1. qr'[r] = q
        BY <1>1, <1>a DEF ChatInvariant, ChatTyped
    <2>2. Follows(qr'[r], talk[h].got)
        BY <1>0, <1>1, <1>8, <2>1, FollowsOn DEF Knows
    <2>3. talk[h].again => q.status \notin {"NONE", "PENDING"}
        BY <1>0, <1>1, <1>8 DEF Knows, Follows
    <2> QED
        BY <1>0, <1>1, <1>10, <2>1, <2>2, <2>3 DEF Knows
<1> QED
    BY <1>0, <1>1, <1>a, <1>4, <1>6, <1>7, <1>8, <1>9, <1>10, <1>11, QrGoesOn

LEMMA ServeCancelInvariant ==
    ASSUME ChatInvariant, NEW h \in Talkers, ServeCancel(h)
    PROVE  ChatInvariant'
<1> DEFINE r == talk[h].of
<1>0. /\ talk[h].does = "cancel" /\ talk[h].step = "calls"
      /\ Steps(h, "reads") /\ UNCHANGED <<paid, parcel, prompts, said>>
    BY DEF ServeCancel, Does
<1>1. /\ Knows(h) /\ r \in QrCodes /\ qr[r] \in Qrs /\ Sound(qr[r])
      /\ paid[r] = "credited" <=> qr[r].status = "APPROVED"
      /\ paid \in [QrCodes -> {"no", "sent", "credited"}]
      /\ qr \in [QrCodes -> Qrs] /\ qr[r].cart # "NONE"
    BY <1>0 DEF ChatInvariant, Knows, ChatTyped, QrsAreSound, IsCheckout
<1>2. PICK q \in Qrs :
         /\ qr' = [qr EXCEPT ![r] = q]
         /\ \/ q = qr[r]
            \/ /\ qr[r].status = "PENDING" /\ q.status = "EXPIRED"
               /\ q.cancelled /\ q.cart = "FAILED"
               /\ q.prompt = qr[r].prompt
    <2>1. CASE StillOpen(qr[r])
        <3>1. PICK q \in Qrs :
                 q = [qr[r] EXCEPT !.status = "EXPIRED", !.cancelled = TRUE,
                                   !.cart = "FAILED"]
            BY <1>1 DEF Qrs, QrStatuses, CartSteps
        <3>2. /\ q.status = "EXPIRED" /\ q.cancelled /\ q.cart = "FAILED"
              /\ q.prompt = qr[r].prompt
            BY <1>1, <3>1 DEF Qrs
        <3>3. qr' = [qr EXCEPT ![r] = q]
            BY <1>1, <2>1, <3>1 DEF ServeCancel
        <3> QED
            BY <2>1, <3>2, <3>3 DEF StillOpen
    <2>2. CASE ~StillOpen(qr[r])
        <3>1. qr' = qr /\ qr = [qr EXCEPT ![r] = qr[r]]
            BY <1>1, <2>2 DEF ServeCancel
        <3> QED
            BY <1>1, <3>1
    <2> QED
        BY <2>1, <2>2
<1>3. /\ Sound(q) /\ Follows(q, qr[r]) /\ q.prompt = qr[r].prompt
      /\ q.status = "APPROVED" <=> qr[r].status = "APPROVED"
    <2>1. CASE q = qr[r]
        BY <1>1, <2>1, FollowsItself
    <2>2. CASE q # qr[r]
        BY <1>1, <1>2, <2>2 DEF Sound, Follows
    <2> QED
        BY <2>1, <2>2
<1>4. /\ talk' \in [Talkers -> Talks]
      /\ talk'[h].does = talk[h].does /\ talk'[h].of = talk[h].of
      /\ talk'[h].from = talk[h].from /\ talk'[h].again = talk[h].again
      /\ talk'[h].step = "reads" /\ talk'[h].got = talk[h].got
      /\ \A g \in Talkers \ {h} : talk'[g] = talk[g]
    BY <1>0, StepsTyped
<1>5. Knows(h)'
    <2>1. qr'[r] = q
        BY <1>1, <1>2
    <2>2. Follows(qr'[r], talk[h].got)
        BY <1>0, <1>1, <1>3, <2>1, FollowsOn DEF Knows
    <2>3. /\ talk[h].again => q.status \notin {"NONE", "PENDING"}
          /\ q.cart # "NONE"
        BY <1>0, <1>1, <1>3 DEF Knows, Follows
    <2> QED
        BY <1>0, <1>1, <1>4, <2>1, <2>2, <2>3 DEF Knows, IsCheckout
<1> QED
    BY <1>0, <1>1, <1>2, <1>3, <1>4, <1>5, QrGoesOn

(* The requests stay as they are.                                          *)
LEMMA QrsStay ==
    ASSUME ChatInvariant, UNCHANGED qr,
           paid' \in [QrCodes -> {"no", "sent", "credited"}],
           \A r \in QrCodes : paid'[r] = "credited" <=> paid[r] = "credited",
           parcel' \in [QrCodes -> {"no", "sent", "clean"}],
           \A r \in QrCodes : parcel'[r] # "no" => qr[r].cart = "FULFILLED",
           prompts' \in Seq(QrCodes \X BOOLEAN), Len(prompts') <= MaxShown,
           PromptsGrow, GoneIsPaid', SaidIsSo',
           said' \in [QrCodes -> SUBSET News],
           talk' \in [Talkers -> Talks],
           \A h \in Talkers : talk'[h] # talk[h] => Knows(h)'
    PROVE  ChatInvariant'
<1>1. ChatTyped'
    BY DEF ChatInvariant, ChatTyped
<1>2. QrsFollow
    BY FollowsItself DEF QrsFollow
<1>3. QrsAreSound'
    <2> SUFFICES ASSUME NEW r \in QrCodes
                 PROVE  /\ Sound(qr[r])
                        /\ paid'[r] = "credited" <=> qr[r].status = "APPROVED"
                        /\ parcel'[r] # "no" => qr[r].cart = "FULFILLED"
                        /\ qr[r].prompt \in 0..Len(prompts')
                        /\ qr[r].prompt # 0
                             => prompts'[qr[r].prompt][1] = r
        BY DEF QrsAreSound
    <2>1. /\ Sound(qr[r])
          /\ paid[r] = "credited" <=> qr[r].status = "APPROVED"
          /\ qr[r].prompt \in 0..Len(prompts)
          /\ qr[r].prompt # 0 => prompts[qr[r].prompt][1] = r
        BY DEF ChatInvariant, QrsAreSound
    <2>2. Len(prompts) \in Nat
        BY DEF ChatInvariant, ChatTyped
    <2>3. Len(prompts') \in Nat /\ Len(prompts') >= Len(prompts)
        BY DEF PromptsGrow
    <2>4. qr[r].prompt # 0 => qr[r].prompt \in 1..Len(prompts)
        BY <2>1, <2>2
    <2>5. qr[r].prompt # 0 => prompts'[qr[r].prompt][1] = r
        BY <2>1, <2>4, Zenon DEF PromptsGrow
    <2>6. qr[r].prompt \in 0..Len(prompts')
        BY <2>1, <2>2, <2>3
    <2> QED
        BY <2>1, <2>5, <2>6
<1>4. \A h \in Talkers : Knows(h)'
    BY <1>2, StillKnows
<1> QED
    BY <1>1, <1>3, <1>4 DEF ChatInvariant

LEMMA TransferInvariant ==
    ASSUME ChatInvariant, NEW r \in QrCodes, Transfer(r)
    PROVE  ChatInvariant'
<1>0. /\ paid[r] = "no" /\ paid' = [paid EXCEPT ![r] = "sent"]
      /\ UNCHANGED <<qr, parcel, prompts, talk, said>>
    BY DEF Transfer
<1>1. /\ paid' \in [QrCodes -> {"no", "sent", "credited"}]
      /\ \A s \in QrCodes : paid'[s] = "credited" <=> paid[s] = "credited"
    BY <1>0 DEF ChatInvariant, ChatTyped
<1>2. QrsFollow
    BY <1>0, <1>1, FollowsItself DEF QrsFollow
<1>3. GoneIsPaid' /\ PromptsGrow /\ SaidIsSo'
    BY <1>0, <1>2, StillPaid, StillSaid
<1> QED
    BY <1>0, <1>1, <1>3, QrsStay
    DEF ChatInvariant, ChatTyped, QrsAreSound

LEMMA DeliverParcelInvariant ==
    ASSUME ChatInvariant, NEW r \in QrCodes, DeliverParcel(r)
    PROVE  ChatInvariant'
<1>0. /\ qr[r].cart = "FULFILLED"
      /\ parcel' = [parcel EXCEPT ![r] = "sent"]
      /\ UNCHANGED <<qr, paid, prompts, talk, said>>
    BY DEF DeliverParcel
<1>1. /\ parcel' \in [QrCodes -> {"no", "sent", "clean"}]
      /\ \A s \in QrCodes : parcel'[s] # "no" => qr[s].cart = "FULFILLED"
    BY <1>0 DEF ChatInvariant, ChatTyped, QrsAreSound
<1>2. QrsFollow
    BY <1>0, FollowsItself DEF QrsFollow
<1>3. GoneIsPaid' /\ PromptsGrow /\ SaidIsSo'
    BY <1>0, <1>2, StillPaid, StillSaid
<1> QED
    BY <1>0, <1>1, <1>3, QrsStay DEF ChatInvariant, ChatTyped

TakenAway(t) == [t EXCEPT ![2] = FALSE]

LEMMA TakenAwayIs ==
    ASSUME NEW p, NEW b, NEW t, t = <<p, b>>
    PROVE  TakenAway(t) = <<p, FALSE>>
<1>1. ASSUME NEW c PROVE [<<p, b>> EXCEPT ![2] = c] = <<p, c>>
    OBVIOUS
<1>2. [<<p, b>> EXCEPT ![2] = FALSE] = <<p, FALSE>>
    BY <1>1
<1>3. TakenAway(<<p, b>>) = <<p, FALSE>>
    BY <1>2 DEF TakenAway
<1> QED
    BY <1>3, Zenon

(* A QR goes: only when its money has come.                                *)
LEMMA WithoutTyped ==
    ASSUME ChatInvariant, NEW m \in 0..Len(prompts),
           m # 0 => paid[prompts[m][1]] = "credited",
           UNCHANGED paid, prompts' \in {prompts, Without(m)}
    PROVE  /\ prompts' \in Seq(QrCodes \X BOOLEAN) /\ Len(prompts') <= MaxShown
           /\ PromptsGrow /\ GoneIsPaid'
<1>1. prompts \in Seq(QrCodes \X BOOLEAN) /\ Len(prompts) \in Nat
      /\ Len(prompts) <= MaxShown
    BY DEF ChatInvariant, ChatTyped
<1>2. CASE prompts' = prompts
    BY <1>1, <1>2 DEF ChatInvariant, GoneIsPaid, PromptsGrow
<1>3. CASE m # 0 /\ prompts' = Without(m)
    <2>1. m \in 1..Len(prompts) /\ prompts[m] \in QrCodes \X BOOLEAN
        BY <1>1, <1>3
    <2>2. PICK p \in QrCodes, b \in BOOLEAN : prompts[m] = <<p, b>>
        BY <2>1
    <2>3. TakenAway(prompts[m]) = <<p, FALSE>>
        BY <2>2, TakenAwayIs
    <2>4. prompts' = [prompts EXCEPT ![m] = TakenAway(prompts[m])]
        BY <1>3 DEF Without, TakenAway
    <2>5. <<p, FALSE>> \in QrCodes \X BOOLEAN
        OBVIOUS
    <2>6. /\ prompts' \in Seq(QrCodes \X BOOLEAN)
          /\ Len(prompts') = Len(prompts) /\ prompts'[m] = <<p, FALSE>>
          /\ \A n \in 1..Len(prompts) \ {m} : prompts'[n] = prompts[n]
        <3> DEFINE P == QrCodes \X BOOLEAN
                   e == <<p, FALSE>>
        <3>1. e \in P /\ prompts \in Seq(P)
              /\ prompts' = [prompts EXCEPT ![m] = e]
            BY <1>1, <2>3, <2>4, <2>5
        <3> HIDE DEF P, e
        <3>2. /\ prompts' \in Seq(P)
              /\ Len(prompts') = Len(prompts) /\ prompts'[m] = e
              /\ \A n \in 1..Len(prompts) \ {m} : prompts'[n] = prompts[n]
            BY <2>1, <3>1, OneReplaced
        <3> QED
            BY <3>2 DEF P, e
    <2>7. \A n \in 1..Len(prompts) : prompts'[n][1] = prompts[n][1]
        <3> SUFFICES ASSUME NEW n \in 1..Len(prompts)
                     PROVE  prompts'[n][1] = prompts[n][1]
            OBVIOUS
        <3>1. CASE n = m
            BY <2>2, <2>6, <3>1
        <3>2. CASE n # m
            BY <2>6, <3>2
        <3> QED
            BY <3>1, <3>2
    <2>8. PromptsGrow
        BY <1>1, <2>6, <2>7 DEF PromptsGrow
    <2>9. GoneIsPaid'
        <3> SUFFICES ASSUME NEW n \in 1..Len(prompts), ~(prompts'[n][2])
                     PROVE  paid[prompts[n][1]] = "credited"
            BY <2>6, <2>7 DEF GoneIsPaid
        <3>1. CASE n = m
            BY <1>3, <3>1
        <3>2. CASE n # m
            BY <2>6, <3>2 DEF ChatInvariant, GoneIsPaid
        <3> QED
            BY <3>1, <3>2
    <2> QED
        BY <1>1, <2>6, <2>8, <2>9
<1>4. m = 0 => Without(m) = prompts
    BY DEF Without
<1> QED
    BY <1>2, <1>3, <1>4

LEMMA ClearPromptInvariant ==
    ASSUME ChatInvariant, NEW r \in QrCodes, ClearPrompt(r)
    PROVE  ChatInvariant'
<1>0. /\ parcel[r] = "sent" /\ parcel' = [parcel EXCEPT ![r] = "clean"]
      /\ prompts' \in {prompts, Without(qr[r].prompt)}
      /\ UNCHANGED <<qr, paid, talk, said>>
    BY DEF ClearPrompt
<1>1. paid[r] = "credited"
    BY <1>0 DEF ChatInvariant, QrsAreSound, Sound
<1>2. /\ parcel' \in [QrCodes -> {"no", "sent", "clean"}]
      /\ \A s \in QrCodes : parcel'[s] # "no" => qr[s].cart = "FULFILLED"
    <2>1. parcel \in [QrCodes -> {"no", "sent", "clean"}]
          /\ \A s \in QrCodes : parcel[s] # "no" => qr[s].cart = "FULFILLED"
        BY DEF ChatInvariant, ChatTyped, QrsAreSound
    <2> QED
        BY <1>0, <2>1
<1>3. /\ qr[r].prompt \in 0..Len(prompts)
      /\ qr[r].prompt # 0 => paid[prompts[qr[r].prompt][1]] = "credited"
    BY <1>1 DEF ChatInvariant, QrsAreSound
<1>4. /\ prompts' \in Seq(QrCodes \X BOOLEAN) /\ Len(prompts') <= MaxShown
      /\ PromptsGrow /\ GoneIsPaid'
    BY <1>0, <1>3, WithoutTyped
<1>5. QrsFollow
    BY <1>0, FollowsItself DEF QrsFollow
<1>6. SaidIsSo'
    BY <1>0, <1>5, StillSaid
<1> QED
    BY <1>0, <1>2, <1>4, <1>6, QrsStay DEF ChatInvariant, ChatTyped
(* What is told now is so.                                                 *)
LEMMA ToldOne ==
    ASSUME ChatInvariant, NEW r \in QrCodes, NEW news \in News,
           Says(r, news), UNCHANGED <<qr, paid>>,
           news = "cancelled" => qr[r].cancelled /\ qr[r].cart = "FAILED",
           news = "bought" => qr[r].cart = "FULFILLED",
           news = "in wallet" => qr[r].cart \in {"FAILED", "NONE"},
           news \in {"recorded", "bought", "in wallet"}
             => paid[r] = "credited"
    PROVE  SaidIsSo' /\ said' \in [QrCodes -> SUBSET News]
<1>1. /\ said' \in [QrCodes -> SUBSET News]
      /\ said'[r] = said[r] \cup {news}
      /\ \A s \in QrCodes \ {r} : said'[s] = said[s]
    BY DEF Says, ChatInvariant, ChatTyped
<1>2. SaidIsSo
    BY DEF ChatInvariant
<1> SUFFICES ASSUME NEW s \in QrCodes
             PROVE  /\ "cancelled" \in said'[s] => qr[s].cancelled
                                                   /\ qr[s].cart = "FAILED"
                    /\ "bought" \in said'[s] => qr[s].cart = "FULFILLED"
                    /\ "in wallet" \in said'[s]
                         => qr[s].cart \in {"FAILED", "NONE"}
                    /\ said'[s] \cap {"recorded", "bought", "in wallet"} # {}
                         => paid[s] = "credited"
    BY <1>1 DEF SaidIsSo
<1>3. CASE s = r
    BY <1>1, <1>2, <1>3 DEF SaidIsSo
<1>4. CASE s # r
    BY <1>1, <1>2, <1>4 DEF SaidIsSo
<1> QED
    BY <1>3, <1>4

LEMMA CheckedAsSays ==
    ASSUME NEW got \in Qrs
    PROVE  /\ CheckedAs(got) \in News
           /\ CheckedAs(got) = "cancelled" => got.cancelled
           /\ CheckedAs(got) = "bought" => /\ got.status = "APPROVED"
                                           /\ got.cart = "FULFILLED"
           /\ CheckedAs(got) = "in wallet" =>
                 got.status = "APPROVED" /\ got.cart \in {"FAILED", "NONE"}
           /\ CheckedAs(got) = "recorded" => got.status = "APPROVED"
<1> DEFINE news == CheckedAs(got)
<1>1. got.cart \in CartSteps
    BY DEF Qrs
<1>2. CASE got.status = "APPROVED"
    <2>1. CASE got.cart = "FULFILLED"
        <3>1. news = "bought"
            BY <1>2, <2>1 DEF CheckedAs
        <3> QED
            BY <1>2, <2>1, <3>1 DEF News
    <2>2. CASE got.cart \in {"FAILED", "NONE"}
        <3>1. news = "in wallet"
            BY <1>2, <2>2 DEF CheckedAs
        <3> QED
            BY <1>2, <2>2, <3>1 DEF News
    <2>3. CASE got.cart \in {"PENDING_PAYMENT", "PROCESSING"}
        <3>1. news = "recorded"
            BY <1>2, <2>3 DEF CheckedAs
        <3> QED
            BY <1>2, <2>3, <3>1 DEF News
    <2> QED
        BY <1>1, <2>1, <2>2, <2>3 DEF CartSteps
<1>3. CASE got.status # "APPROVED"
    <2>1. CASE got.cancelled
        <3>1. news = "cancelled"
            BY <1>3, <2>1 DEF CheckedAs
        <3> QED
            BY <1>3, <2>1, <3>1 DEF News
    <2>2. CASE ~got.cancelled
        <3>1. news \in {"closed", "not found"}
            BY <1>3, <2>2 DEF CheckedAs
        <3> QED
            BY <1>3, <2>2, <3>1 DEF News
    <2> QED
        BY <2>1, <2>2
<1> QED
    BY <1>2, <1>3

LEMMA AnswerCheckInvariant ==
    ASSUME ChatInvariant, NEW h \in Talkers, AnswerCheck(h)
    PROVE  ChatInvariant'
<1> DEFINE r == talk[h].of
           news == CheckedAs(talk[h].got)
<1>0. /\ talk[h].does = "check" /\ talk[h].step = "answers"
      /\ Falls(h) /\ Says(r, news) /\ UNCHANGED <<qr, paid, parcel>>
      /\ prompts' \in IF news \in {"bought", "in wallet"}
                      THEN {prompts, Without(talk[h].from)} ELSE {prompts}
    BY DEF AnswerCheck, Does
<1>1. /\ Knows(h) /\ r \in QrCodes /\ talk[h].got \in Qrs
      /\ Sound(talk[h].got) /\ Follows(qr[r], talk[h].got)
      /\ paid[r] = "credited" <=> qr[r].status = "APPROVED"
      /\ Sound(qr[r]) /\ talk[h].from \in 0..Len(prompts)
      /\ talk[h].from # 0 => prompts[talk[h].from][1] = r
    BY <1>0 DEF ChatInvariant, Knows, ChatTyped, QrsAreSound, Talks
<1>2. /\ news \in News
      /\ news = "cancelled" => talk[h].got.cancelled
      /\ news = "bought" => /\ talk[h].got.status = "APPROVED"
                            /\ talk[h].got.cart = "FULFILLED"
      /\ news = "in wallet" => /\ talk[h].got.status = "APPROVED"
                               /\ talk[h].got.cart \in {"FAILED", "NONE"}
      /\ news = "recorded" => talk[h].got.status = "APPROVED"
    BY <1>1, CheckedAsSays
<1> HIDE DEF news
<1>3. /\ news = "cancelled" => qr[r].cancelled /\ qr[r].cart = "FAILED"
      /\ news = "bought" => qr[r].cart = "FULFILLED"
      /\ news = "in wallet" => qr[r].cart \in {"FAILED", "NONE"}
      /\ news \in {"recorded", "bought", "in wallet"}
           => paid[r] = "credited"
    BY <1>1, <1>2 DEF Follows, Sound
<1>4. SaidIsSo' /\ said' \in [QrCodes -> SUBSET News]
    BY <1>0, <1>1, <1>2, <1>3, ToldOne
<1>5. /\ prompts' \in Seq(QrCodes \X BOOLEAN) /\ Len(prompts') <= MaxShown
      /\ PromptsGrow /\ GoneIsPaid'
    <2>1. CASE news \in {"bought", "in wallet"}
        BY <1>0, <1>1, <1>3, <2>1, WithoutTyped
    <2>2. CASE prompts' = prompts
        <3>1. QrsFollow
            BY <1>0, FollowsItself DEF QrsFollow
        <3> QED
            BY <2>2, <3>1, StillPaid DEF ChatInvariant, ChatTyped
    <2> QED
        BY <1>0, <2>1, <2>2
<1>6. talk' \in [Talkers -> Talks]
      /\ \A g \in Talkers : talk'[g] # talk[g] => Knows(g)'
    BY <1>0, <1>4, <1>5, FallsKnows
<1> QED
    BY <1>0, <1>4, <1>5, <1>6, QrsStay
    DEF ChatInvariant, ChatTyped, QrsAreSound
LEMMA AnswerCancelInvariant ==
    ASSUME ChatInvariant, NEW h \in Talkers, AnswerCancel(h)
    PROVE  ChatInvariant'
<1> DEFINE r == talk[h].of
           got == talk[h].got
           news == CASE got.cancelled -> "cancelled"
                     [] ~got.cancelled /\ got.status = "APPROVED" ->
                          "recorded"
                     [] OTHER -> "closed"
<1>0. /\ talk[h].does = "cancel" /\ talk[h].step = "answers"
      /\ Falls(h) /\ Says(r, news)
      /\ UNCHANGED <<qr, paid, parcel, prompts>>
    BY DEF AnswerCancel, Does
<1>1. /\ r \in QrCodes /\ got \in Qrs
      /\ Follows(qr[r], got) /\ Sound(qr[r])
      /\ paid[r] = "credited" <=> qr[r].status = "APPROVED"
    BY <1>0 DEF ChatInvariant, Knows, ChatTyped, QrsAreSound, Talks
<1>2. /\ news \in {"cancelled", "recorded", "closed"}
      /\ news = "cancelled" => got.cancelled
      /\ news = "recorded" => got.status = "APPROVED"
    <2>1. CASE got.cancelled
        BY <2>1
    <2>2. CASE ~got.cancelled
        BY <2>2
    <2> QED
        BY <2>1, <2>2
<1> HIDE DEF news
<1>3. /\ news = "cancelled" => qr[r].cancelled /\ qr[r].cart = "FAILED"
      /\ news \notin {"bought", "in wallet"}
      /\ news = "recorded" => paid[r] = "credited"
    BY <1>1, <1>2 DEF Follows, Sound
<1>4. SaidIsSo' /\ said' \in [QrCodes -> SUBSET News]
    BY <1>0, <1>1, <1>2, <1>3, ToldOne DEF News
<1>5. QrsFollow
    BY <1>0, FollowsItself DEF QrsFollow
<1>6. PromptsGrow /\ GoneIsPaid'
    BY <1>0, <1>5, StillPaid
<1>7. talk' \in [Talkers -> Talks]
      /\ \A g \in Talkers : talk'[g] # talk[g] => Knows(g)'
    BY <1>0, FallsKnows
<1> QED
    BY <1>0, <1>4, <1>6, <1>7, QrsStay
    DEF ChatInvariant, ChatTyped, QrsAreSound

LEMMA RememberInvariant ==
    ASSUME ChatInvariant, NEW h \in Talkers, Remember(h)
    PROVE  ChatInvariant'
<1> DEFINE r == talk[h].of
<1>0. /\ talk[h].step = "remembers" /\ Falls(h)
      /\ UNCHANGED <<paid, parcel, prompts, said>>
    BY DEF Remember
<1>1. /\ Knows(h) /\ r \in QrCodes /\ talk[h].does # "none"
      /\ talk[h].from \in 0..Len(prompts)
      /\ talk[h].from # 0 => prompts[talk[h].from][1] = r
      /\ qr \in [QrCodes -> Qrs] /\ talk[h] \in Talks
    BY <1>0 DEF ChatInvariant, Knows, ChatTyped
<1>2. talk' \in [Talkers -> Talks]
      /\ \A g \in Talkers : talk'[g] # talk[g] => Knows(g)'
    BY <1>0, FallsKnows
<1>3. CASE qr' = qr
    BY <1>0, <1>2, <1>3, TalkGoesOn
<1>4. CASE qr' = [qr EXCEPT ![r].prompt = talk[h].from]
    <2>1. PICK q \in Qrs : q = [qr[r] EXCEPT !.prompt = talk[h].from]
        BY <1>1 DEF Qrs, Talks
    <2>2. /\ q.status = qr[r].status /\ q.cart = qr[r].cart
          /\ q.cancelled = qr[r].cancelled /\ q.prompt = talk[h].from
        BY <1>1, <2>1 DEF Qrs
    <2>3. /\ qr' \in [QrCodes -> Qrs] /\ qr'[r] = q
          /\ \A s \in QrCodes \ {r} : qr'[s] = qr[s]
        BY <1>1, <1>4, <2>1
    <2>4. QrsFollow
        BY <1>0, <2>2, <2>3, FollowsItself DEF QrsFollow, Follows
    <2>5. SaidIsSo' /\ GoneIsPaid' /\ PromptsGrow
        BY <1>0, <2>4, StillSaid, StillPaid
    <2>6. ChatTyped'
        BY <1>0, <1>2, <2>3 DEF ChatInvariant, ChatTyped
    <2>7. QrsAreSound'
        <3> SUFFICES ASSUME NEW s \in QrCodes
                 PROVE  /\ Sound(qr'[s])
                        /\ paid[s] = "credited" <=> qr'[s].status = "APPROVED"
                        /\ parcel[s] # "no" => qr'[s].cart = "FULFILLED"
                        /\ qr'[s].prompt \in 0..Len(prompts)
                        /\ qr'[s].prompt # 0
                             => prompts[qr'[s].prompt][1] = s
            BY <1>0 DEF QrsAreSound
        <3>1. CASE s = r
            BY <1>1, <2>2, <2>3, <3>1 DEF ChatInvariant, QrsAreSound, Sound
        <3>2. CASE s # r
            BY <2>3, <3>2 DEF ChatInvariant, QrsAreSound
        <3> QED
            BY <3>1, <3>2
    <2>8. \A g \in Talkers : Knows(g)'
        BY <1>2, <2>4, <2>5, StillKnows
    <2> QED
        BY <2>5, <2>6, <2>7, <2>8 DEF ChatInvariant
<1> QED
    BY <1>3, <1>4 DEF Remember

LEMMA ManyAppended ==
    ASSUME NEW S, NEW s \in Seq(S), NEW e \in S, NEW n \in Nat,
           NEW u, u = s \o [k \in 1..n |-> e]
    PROVE  /\ u \in Seq(S) /\ Len(u) = Len(s) + n
           /\ \A m \in 1..Len(s) : u[m] = s[m]
           /\ \A m \in Len(s) + 1..Len(s) + n : u[m] = e
<1>1. PICK t : t = [k \in 1..n |-> e]
    OBVIOUS
<1>2. t \in Seq(S) /\ Len(t) = n /\ \A k \in 1..n : t[k] = e
    BY <1>1
<1>3. /\ u \in Seq(S) /\ Len(u) = Len(s) + n
      /\ \A m \in 1..Len(s) + n :
            u[m] = IF m <= Len(s) THEN s[m] ELSE t[m - Len(s)]
    BY <1>1, <1>2, ConcatProperties
<1>4. Len(s) \in Nat
    OBVIOUS
<1>5. ASSUME NEW m \in Len(s) + 1..Len(s) + n PROVE u[m] = e
    <2>1. m - Len(s) \in 1..n /\ m \in 1..Len(s) + n /\ ~(m <= Len(s))
        BY <1>4
    <2> QED
        BY <1>2, <1>3, <2>1
<1>6. ASSUME NEW m \in 1..Len(s) PROVE u[m] = s[m]
    <2>1. m \in 1..Len(s) + n /\ m <= Len(s)
        BY <1>4
    <2> QED
        BY <1>3, <2>1
<1> QED
    BY <1>3, <1>5, <1>6

LEMMA ShownTyped ==
    ASSUME ChatInvariant, NEW r \in QrCodes, NEW n \in 1..2,
           Len(prompts) + n <= MaxShown,
           prompts' = prompts \o [k \in 1..n |-> <<r, TRUE>>], UNCHANGED paid
    PROVE  /\ prompts' \in Seq(QrCodes \X BOOLEAN) /\ Len(prompts') <= MaxShown
           /\ PromptsGrow /\ GoneIsPaid' /\ Len(prompts') = Len(prompts) + n
           /\ prompts'[Len(prompts')][1] = r
<1> DEFINE P == QrCodes \X BOOLEAN
           e == <<r, TRUE>>
<1>1. e \in P /\ prompts \in Seq(P) /\ e[1] = r /\ e[2] = TRUE
    BY DEF ChatInvariant, ChatTyped
<1>2. prompts' = prompts \o [k \in 1..n |-> e] /\ n \in Nat
    OBVIOUS
<1> HIDE DEF P, e
<1>4. /\ prompts' \in Seq(P) /\ Len(prompts') = Len(prompts) + n
      /\ \A m \in 1..Len(prompts) : prompts'[m] = prompts[m]
      /\ \A m \in Len(prompts) + 1..Len(prompts) + n : prompts'[m] = e
    <2> DEFINE later == prompts'
    <2>1. later = prompts \o [k \in 1..n |-> e]
        BY <1>2
    <2> HIDE DEF later
    <2>2. /\ later \in Seq(P) /\ Len(later) = Len(prompts) + n
          /\ \A m \in 1..Len(prompts) : later[m] = prompts[m]
          /\ \A m \in Len(prompts) + 1..Len(prompts) + n : later[m] = e
        BY <1>1, <1>2, <2>1, ManyAppended
    <2> QED
        BY <2>2 DEF later
<1>3. Len(prompts) \in Nat
    BY <1>1
<1>5. PromptsGrow
    BY <1>3, <1>4 DEF PromptsGrow
<1>6. GoneIsPaid'
    <2> SUFFICES ASSUME NEW m \in 1..Len(prompts'), ~(prompts'[m][2])
                 PROVE  paid[prompts'[m][1]] = "credited"
        BY DEF GoneIsPaid
    <2>1. CASE m \in 1..Len(prompts)
        BY <1>3, <1>4, <2>1 DEF ChatInvariant, GoneIsPaid
    <2>2. CASE m \in Len(prompts) + 1..Len(prompts) + n
        BY <1>1, <1>3, <1>4, <2>2
    <2> QED
        BY <1>3, <1>4, <2>1, <2>2
<1>7. prompts'[Len(prompts')] = e
    <2>1. Len(prompts') \in Len(prompts) + 1..Len(prompts) + n
        BY <1>3, <1>4
    <2> QED
        BY <1>4, <2>1
<1> QED
    BY <1>1, <1>4, <1>5, <1>6, <1>7 DEF P

LEMMA ShowQrInvariant ==
    ASSUME ChatInvariant, NEW h \in Talkers, ShowQr(h)
    PROVE  ChatInvariant'
<1> DEFINE r == talk[h].of
           got == talk[h].got
<1>0. /\ talk[h].does \in {"checkout", "deposit"}
      /\ talk[h].step = "answers" /\ UNCHANGED <<qr, paid, parcel>>
    BY DEF ShowQr
<1>1. /\ Knows(h) /\ r \in QrCodes /\ got \in Qrs /\ Sound(got)
      /\ Follows(qr[r], got) /\ talk[h] \in Talks
      /\ paid[r] = "credited" <=> qr[r].status = "APPROVED"
    BY <1>0 DEF ChatInvariant, Knows, ChatTyped, QrsAreSound, Talks
<1>2. QrsFollow
    BY <1>0, FollowsItself DEF QrsFollow
<1>3. ASSUME NEW news \in {"recorded", "closed"}, Says(r, news), Falls(h),
             UNCHANGED prompts, news = "recorded" => Taken(got)
      PROVE  ChatInvariant'
    <2>1. news = "recorded" => paid[r] = "credited"
        BY <1>1, <1>3 DEF Taken, Sound, Follows
    <2>2. SaidIsSo' /\ said' \in [QrCodes -> SUBSET News]
        BY <1>0, <1>1, <1>3, <2>1, ToldOne DEF News
    <2>3. PromptsGrow /\ GoneIsPaid'
        BY <1>2, <1>3, StillPaid
    <2>4. talk' \in [Talkers -> Talks]
          /\ \A g \in Talkers : talk'[g] # talk[g] => Knows(g)'
        BY <1>3, FallsKnows
    <2> QED
        BY <1>0, <1>3, <2>2, <2>3, <2>4, QrsStay
        DEF ChatInvariant, ChatTyped, QrsAreSound
<1>4. CASE /\ talk[h].does = "checkout" => got.status = "PENDING"
           /\ \E n \in 1..2 :
                 /\ Len(prompts) + n <= MaxShown
                 /\ prompts' = prompts \o [k \in 1..n |-> <<r, TRUE>>]
                 /\ talk' = [talk EXCEPT ![h].step = "remembers",
                                         ![h].from = Len(prompts')]
                 /\ UNCHANGED said
    <2>1. PICK n \in 1..2 :
                 /\ Len(prompts) + n <= MaxShown
                 /\ prompts' = prompts \o [k \in 1..n |-> <<r, TRUE>>]
                 /\ talk' = [talk EXCEPT ![h].step = "remembers",
                                         ![h].from = Len(prompts')]
                 /\ UNCHANGED said
        BY <1>4
    <2>2. /\ prompts' \in Seq(QrCodes \X BOOLEAN) /\ Len(prompts') <= MaxShown
          /\ PromptsGrow /\ GoneIsPaid' /\ Len(prompts') = Len(prompts) + n
          /\ prompts'[Len(prompts')][1] = r
        BY <1>0, <1>1, <2>1, ShownTyped
    <2>3. PICK m \in Nat : m = Len(prompts')
        BY <2>2 DEF PromptsGrow
    <2>4. PICK t \in Talks :
             t = [talk[h] EXCEPT !.step = "remembers", !.from = m]
        BY <1>1 DEF Talks, TalkSteps
    <2>5. /\ t.does = talk[h].does /\ t.of = r /\ t.step = "remembers"
          /\ t.got = got /\ t.from = m /\ t.again = talk[h].again
        BY <1>1, <2>4 DEF Talks
    <2>6. talk' = [talk EXCEPT ![h] = t]
        BY <2>1, <2>3, <2>4
    <2>7. /\ talk' \in [Talkers -> Talks] /\ talk'[h] = t
          /\ \A g \in Talkers \ {h} : talk'[g] = talk[g]
        BY <2>6, OneTalks
    <2>8. talk[h].again /\ talk[h].does = "checkout" => FALSE
        BY <1>0, <1>1, <1>4 DEF Knows
    <2>9. m \in 0..Len(prompts') /\ prompts'[m][1] = r
        BY <2>2, <2>3
    <2>10. Knows(h)'
        BY <1>0, <1>1, <2>5, <2>7, <2>8, <2>9 DEF Knows
    <2>11. SaidIsSo'
        BY <1>2, <2>1, StillSaid
    <2> QED
        BY <1>0, <2>1, <2>2, <2>7, <2>10, <2>11, QrsStay
        DEF ChatInvariant, ChatTyped, QrsAreSound
<1>5. CASE talk[h].does = "checkout" /\ Taken(got)
    <2>1. Says(r, "recorded") /\ Falls(h) /\ UNCHANGED prompts
        BY <1>5 DEF ShowQr
    <2> QED
        BY <1>3, <1>5, <2>1
<1>6. CASE /\ talk[h].does = "checkout" /\ ~Taken(got)
           /\ NoLonger(got, qr[r].lapsed)
    <2>1. Says(r, "closed") /\ Falls(h) /\ UNCHANGED prompts
        BY <1>6 DEF ShowQr
    <2> QED
        BY <1>3, <2>1
<1>7. CASE ~(talk[h].does = "checkout"
             /\ (Taken(got) \/ NoLonger(got, qr[r].lapsed)))
    <2>1. talk[h].does = "checkout" => got.status = "PENDING"
        BY <1>7 DEF NoLonger
    <2>2. \E n \in 1..2 :
             /\ Len(prompts) + n <= MaxShown
             /\ prompts' = prompts \o [k \in 1..n |-> <<r, TRUE>>]
             /\ talk' = [talk EXCEPT ![h].step = "remembers",
                                     ![h].from = Len(prompts')]
             /\ UNCHANGED said
        BY <1>7 DEF ShowQr
    <2> QED
        BY <1>3, <1>4, <2>1, <2>2
<1> QED
    BY <1>5, <1>6, <1>7

LEMMA ChatKeepsInvariant ==
    ChatInvariant /\ [ChatNext]_chatVars => ChatInvariant'
<1> SUFFICES ASSUME ChatInvariant, [ChatNext]_chatVars PROVE ChatInvariant'
    OBVIOUS
<1>1. ASSUME NEW h \in Talkers,
             ConfirmCart(h) \/ AskDeposit(h) \/ PressCheck(h) \/ PressCancel(h)
      PROVE  ChatInvariant'
    BY <1>1, ButtonsInvariant
<1>2. ASSUME NEW h \in Talkers,
             ServeNew(h) \/ ShowQr(h) \/ Remember(h) \/ TalkerDies(h)
      PROVE  ChatInvariant'
    BY <1>2, ServeNewInvariant, ShowQrInvariant, RememberInvariant,
       TalkerDiesInvariant
<1>3. ASSUME NEW h \in Talkers,
             \/ ServeCheck(h) \/ ServeCancel(h) \/ ReadBack(h)
             \/ AnswerCheck(h) \/ AnswerCancel(h)
      PROVE  ChatInvariant'
    BY <1>3, ServeCheckInvariant, ServeCancelInvariant, ReadBackInvariant,
       AnswerCheckInvariant, AnswerCancelInvariant
<1>4. ASSUME NEW r \in QrCodes,
             \/ Transfer(r) \/ MoneyArrives(r) \/ OrderGoesOn(r)
             \/ TimeIsUp(r) \/ DeliverParcel(r) \/ ClearPrompt(r)
      PROVE  ChatInvariant'
    BY <1>4, TransferInvariant, MoneyArrivesInvariant, OrderGoesOnInvariant,
       TimeIsUpInvariant, DeliverParcelInvariant, ClearPromptInvariant
<1>5. CASE UNCHANGED chatVars
    BY <1>5, TalkGoesOn DEF chatVars, ChatInvariant, ChatTyped
<1> QED
    BY <1>1, <1>2, <1>3, <1>4, <1>5 DEF ChatNext

LEMMA ChatTellsTheTruth == ChatInvariant => ChatTypeOK /\ ToldIsTrue
<1> SUFFICES ASSUME ChatInvariant PROVE ChatTypeOK /\ ToldIsTrue
    OBVIOUS
<1>1. ChatTypeOK
    BY DEF ChatInvariant, ChatTyped, QrsAreSound, ChatTypeOK, Qrs, Talks,
       QrStatuses
<1>2. \A h \in Talkers : Does(h, "checkout", "remembers") => ~talk[h].again
    BY DEF ChatInvariant, Knows, Does
<1>3. DOMAIN prompts = 1..Len(prompts)
    BY DEF ChatInvariant, ChatTyped
<1> QED
    BY <1>1, <1>2, <1>3 DEF ToldIsTrue, ChatInvariant, SaidIsSo, GoneIsPaid

-----------------------------------------------------------------------------
(* The types of the parts whose other properties are proved elsewhere.     *)

(* A complaint that is being made is a complaint.                          *)
FilingIsReport == filing \subseteq Reports /\ covered \in BOOLEAN

LEMMA FilingKeeps ==
    ASSUME FilingIsReport, [SupportNext]_supportVars PROVE FilingIsReport'
<1> USE DEF FilingIsReport
<1>1. CASE WarrantyEnds
    BY <1>1 DEF WarrantyEnds
<1>2. ASSUME NEW r \in Reports,
             FileReport(r) \/ StoreReport(r) \/ EnsureOpening(r) \/ Decide(r)
      PROVE  FilingIsReport'
    BY <1>2 DEF FileReport, StoreReport, EnsureOpening, Decide
<1>3. CASE \/ \E d \in Desks : \/ \E m \in Messages : Compose(d, m)
                               \/ ClaimMessage(d) \/ SendMessage(d)
                               \/ SettleMessage(d) \/ DeskDies(d)
           \/ \E m \in Messages : ClaimAges(m)
    <2>1. UNCHANGED <<filing, covered>>
        BY <1>3 DEF Compose, ClaimMessage, SendMessage, SettleMessage,
                    DeskDies, ClaimAges, AboutMessages
    <2> QED
        BY <2>1
<1>4. CASE UNCHANGED supportVars
    BY <1>4 DEF supportVars
<1> QED
    BY <1>1, <1>2, <1>3, <1>4 DEF SupportNext

SupportInvariant == MessageInvariant /\ FilingIsReport

LEMMA SupportInitInvariant == SupportInit => SupportInvariant
BY MessagesBegin DEF SupportInvariant, SupportInit, FilingIsReport

LEMMA SupportKeepsInvariant ==
    SupportInvariant /\ [SupportNext]_supportVars => SupportInvariant'
BY MessagesKept, FilingKeeps DEF SupportInvariant

LEMMA SupportTypes == SupportInvariant => SupportTypeOK
BY DEF SupportInvariant, MessageInvariant, MessageTypes, ComplaintInvariant,
       FilingIsReport, SupportTypeOK

(* The accounts are typed whether or not a change overruns its lease.      *)
LEMMA BankTyped ==
    ASSUME BankTypeOK, [BankNext]_bankVars PROVE BankTypeOK'
<1>1. CASE BankLeaseEnds
    BY <1>1 DEF BankTypeOK, BankLeaseEnds, SameBanks, Stored
<1>2. ASSUME NEW e \in Edits, TakeBankLease(e) PROVE BankTypeOK'
    BY <1>2 DEF BankTypeOK, TakeBankLease, Advances, SameBanks, Stored
<1>3. ASSUME NEW e \in Edits, ReadBanks(e) PROVE BankTypeOK'
    <2>1. Stored' = Stored
        BY <1>3 DEF ReadBanks, SameBanks, Stored
    <2> QED
        BY <1>3, <2>1 DEF BankTypeOK, ReadBanks, SameBanks
<1>4. ASSUME NEW e \in Edits, WriteBanks(e) PROVE BankTypeOK'
    <2>1. edit[e].seen \in Value /\ edit[e].seen.included \subseteq Edits
        BY DEF BankTypeOK, Value
    <2>2. /\ accounts' \in [Banks -> {"absent", "usable", "archived"}]
          /\ inUse' \in Banks \cup {NoBank}
        BY <1>4, <2>1, OutcomeIsValue DEF WriteBanks
    <2>3. Stored' \in Value
        BY <1>4, <2>1, <2>2 DEF WriteBanks, Stored, Value
    <2> QED
        BY <1>4, <2>3 DEF BankTypeOK, WriteBanks, Advances
<1>5. ASSUME NEW e \in Edits, ReturnBankLease(e) \/ EditFails(e)
      PROVE  BankTypeOK'
    <2>1. /\ UNCHANGED <<accounts, inUse, included>>
          /\ confirmed' \subseteq confirmed \cup {e}
          /\ lease' \in {lease, NoBank}
          /\ edit' = [edit EXCEPT ![e].step = "over"]
        BY <1>5 DEF ReturnBankLease, EditFails, Advances, SameBanks
    <2> QED
        BY <2>1 DEF BankTypeOK, Stored
<1>6. CASE UNCHANGED bankVars
    BY <1>6 DEF bankVars, BankTypeOK, Stored
<1> QED
    BY <1>1, <1>2, <1>3, <1>4, <1>5, <1>6 DEF BankNext

LEMMA SessionTypes == SessionInvariant => SessionTypeOK
<1> SUFFICES ASSUME SessionInvariant PROVE SessionTypeOK
    OBVIOUS
<1>1. ASSUME NEW i \in Tokens, token[i] # "NONE" PROVE parent[i] < i
    BY <1>1, TokensAreNumbers DEF SessionInvariant, Chain, Issued
<1> QED
    BY <1>1 DEF SessionInvariant, Documents, SessionTypeOK

-----------------------------------------------------------------------------
(* The services together.                                                  *)

(* The invariant of the part that moves.                                   *)
ServicesInvariant ==
    /\ part \in Parts
    /\ part = "bot" => BotInvariant
    /\ part = "catalog" => CatalogInvariant /\ CountInvariant
    /\ part = "support" => SupportInvariant
    /\ part = "list" => CacheInvariant
    /\ part = "banks" => BankTypeOK
    /\ part = "token" => TokenInvariant
    /\ part = "session" => SessionInvariant
    /\ part = "migration" => MigrationInvariant
    /\ part = "page" => PageInvariant
    /\ part = "screens" => ListInvariant
    /\ part = "center" => CenterInvariant
    /\ part = "reports" => SalesInvariant
    /\ part = "chat" => ChatInvariant
    /\ part = "pattern" => PatternInvariant

(* A step is one of the part that moves, and stays in it.                  *)
LEMMA PartMoves ==
    ASSUME [ServicesNext]_serviceVars
    PROVE  /\ UNCHANGED part
           /\ part = "bot" => [BotNext]_botVars
           /\ part = "catalog" => [CatalogNext]_catalogVars
           /\ part = "support" => [SupportNext]_supportVars
           /\ part = "list" => [CacheNext]_cacheVars
           /\ part = "banks" => [BankNext]_bankVars
           /\ part = "token" => [TokenNext]_tokenVars
           /\ part = "session" => [SessionNext]_sessionVars
           /\ part = "migration" => [MigrationNext]_migrationVars
           /\ part = "page" => [PageNext]_<<sessionVars, pageVars>>
           /\ part = "screens" => [ListNext]_listVars
           /\ part = "center" => [CenterNext]_centerVars
           /\ part = "reports" => [ReportNext]_reportVars
           /\ part = "chat" => [ChatNext]_chatVars
           /\ part = "pattern" => [PatternNext]_patternVars
<1>1. CASE ServicesNext
    BY <1>1 DEF ServicesNext, BotMoves, CatalogMoves, SupportMoves,
                ListMoves, BanksMove, TokenMoves, SessionMoves, GateMoves,
                MigrationMoves, PageMoves, ScreensMove, CenterMoves,
                ReportsMove, ChatMoves, PatternMoves, AccountsMove
<1>2. CASE UNCHANGED serviceVars
    BY <1>2 DEF serviceVars
<1> QED
    BY <1>1, <1>2

LEMMA ServicesBegin == ServicesInit => ServicesInvariant
<1> SUFFICES ASSUME ServicesInit PROVE ServicesInvariant
    OBVIOUS
<1>1. /\ part \in Parts /\ BotInit /\ CatalogInit /\ SupportInit /\ CacheInit
      /\ BankInit /\ SessionInit /\ MigrationInit /\ PageInit /\ ListInit
      /\ CenterInit /\ ReportInit /\ ChatInit /\ PatternInit /\ TokenInit
    BY DEF ServicesInit
<1>2. BotInvariant /\ CatalogInvariant /\ CountInvariant /\ SupportInvariant
    BY <1>1, BotInitInvariant, CatalogInitInvariant, CatalogInitCounts,
       SupportInitInvariant
<1>3. CacheInvariant /\ BankTypeOK
    BY <1>1, CacheBegins, BankBegins DEF BankInvariant
<1>4. SessionInvariant /\ MigrationInvariant /\ PageInvariant
    BY <1>1, SessionBegins, MigrationInitInvariant, PageInitInvariant
<1>5. ListInvariant /\ CenterInvariant /\ SalesInvariant /\ ChatInvariant
    BY <1>1, ListInitInvariant, CenterInitInvariant, SalesBegin,
       ChatInitInvariant
<1>6. PatternInvariant /\ TokenInvariant
    BY <1>1, PatternStarts, TokenBegins
<1> QED
    BY <1>1, <1>2, <1>3, <1>4, <1>5, <1>6 DEF ServicesInvariant

LEMMA ServicesKeep ==
    ServicesInvariant /\ [ServicesNext]_serviceVars => ServicesInvariant'
<1> SUFFICES ASSUME ServicesInvariant, [ServicesNext]_serviceVars
             PROVE  ServicesInvariant'
    OBVIOUS
<1>1. UNCHANGED part /\ part \in Parts
    BY PartMoves DEF ServicesInvariant
<1>2. ASSUME part = "bot" PROVE BotInvariant'
    <2>1. BotInvariant /\ [BotNext]_botVars
        BY <1>2, PartMoves DEF ServicesInvariant
    <2> QED
        BY <2>1, BotKeepsInvariant
<1>3. ASSUME part = "catalog" PROVE CatalogInvariant' /\ CountInvariant'
    <2>1. CatalogInvariant /\ CountInvariant /\ [CatalogNext]_catalogVars
        BY <1>3, PartMoves DEF ServicesInvariant
    <2> QED
        BY <2>1, CatalogKeepsInvariant, CatalogKeepsCount
<1>4. ASSUME part = "support" PROVE SupportInvariant'
    <2>1. SupportInvariant /\ [SupportNext]_supportVars
        BY <1>4, PartMoves DEF ServicesInvariant
    <2> QED
        BY <2>1, SupportKeepsInvariant
<1>5. ASSUME part = "list" PROVE CacheInvariant'
    <2>1. CacheInvariant /\ [CacheNext]_cacheVars
        BY <1>5, PartMoves DEF ServicesInvariant
    <2> QED
        BY <2>1, CacheKept
<1>6. ASSUME part = "banks" PROVE BankTypeOK'
    <2>1. BankTypeOK /\ [BankNext]_bankVars
        BY <1>6, PartMoves DEF ServicesInvariant
    <2> QED
        BY <2>1, BankTyped
<1>7. ASSUME part = "session" PROVE SessionInvariant'
    <2>1. SessionInvariant /\ [SessionNext]_sessionVars
        BY <1>7, PartMoves DEF ServicesInvariant
    <2> QED
        BY <2>1, SessionKeeps
<1>8. ASSUME part = "migration" PROVE MigrationInvariant'
    <2>1. MigrationInvariant /\ [MigrationNext]_migrationVars
        BY <1>8, PartMoves DEF ServicesInvariant
    <2> QED
        BY <2>1, MigrationKeepsInvariant
<1>9. ASSUME part = "page" PROVE PageInvariant'
    <2>1. PageInvariant /\ [PageNext]_<<sessionVars, pageVars>>
        BY <1>9, PartMoves DEF ServicesInvariant
    <2> QED
        BY <2>1, PageKeepsInvariant
<1>10. ASSUME part = "screens" PROVE ListInvariant'
    <2>1. ListInvariant /\ [ListNext]_listVars
        BY <1>10, PartMoves DEF ServicesInvariant
    <2> QED
        BY <2>1, ListKeepsInvariant
<1>11. ASSUME part = "center" PROVE CenterInvariant'
    <2>1. CenterInvariant /\ [CenterNext]_centerVars
        BY <1>11, PartMoves DEF ServicesInvariant
    <2> QED
        BY <2>1, CenterKeepsInvariant
<1>12. ASSUME part = "reports" PROVE SalesInvariant'
    <2>1. SalesInvariant /\ [ReportNext]_reportVars
        BY <1>12, PartMoves DEF ServicesInvariant
    <2> QED
        BY <2>1, SalesKeep
<1>13. ASSUME part = "chat" PROVE ChatInvariant'
    <2>1. ChatInvariant /\ [ChatNext]_chatVars
        BY <1>13, PartMoves DEF ServicesInvariant
    <2> QED
        BY <2>1, ChatKeepsInvariant
<1>14. ASSUME part = "pattern" PROVE PatternInvariant'
    <2>1. PatternInvariant /\ [PatternNext]_patternVars
        BY <1>14, PartMoves DEF ServicesInvariant
    <2> QED
        BY <2>1, PatternSteps, PatternConstants
<1>15. ASSUME part = "token" PROVE TokenInvariant'
    <2>1. TokenInvariant /\ [TokenNext]_tokenVars
        BY <1>15, PartMoves DEF ServicesInvariant
    <2> QED
        BY <2>1, TokenKept
<1> QED
    BY <1>1, <1>2, <1>3, <1>4, <1>5, <1>6, <1>7, <1>8, <1>9, <1>10,
       <1>11, <1>12, <1>13, <1>14, <1>15 DEF ServicesInvariant

LEMMA ServicesTyped == ServicesInvariant => ServicesTypeOK
<1> SUFFICES ASSUME ServicesInvariant PROVE ServicesTypeOK
    OBVIOUS
<1>1. /\ part = "bot" => BotTypeOK
      /\ part = "chat" => ChatTypeOK
    BY BotSaysOnce, ChatTellsTheTruth DEF ServicesInvariant
<1>2. /\ part = "catalog" => CatalogTypeOK
      /\ part = "support" => SupportTypeOK
      /\ part = "session" => SessionTypeOK
      /\ part = "migration" => MigrationTypeOK
    BY CatalogIsTyped, SupportTypes, SessionTypes, MigrationTyped
    DEF ServicesInvariant
<1>3. /\ part = "page" => PageTypeOK
      /\ part = "screens" => ListTypeOK
      /\ part = "center" => CenterTypeOK
    BY PageTypes, CenterTypes DEF ServicesInvariant, ListInvariant,
                                   ListsTyped
<1>4. /\ part = "banks" => BankTypeOK
      /\ part = "reports" => ReportTypeOK
    BY DEF ServicesInvariant, SalesInvariant, SalesTyped
<1>5. /\ part \in Parts
      /\ part = "list" => CacheTypeOK
      /\ part = "token" => TokenTypeOK
      /\ part = "pattern" => PatternTypeOK
    <2>1. CacheInvariant => CacheTypeOK
        BY DEF CacheInvariant
    <2>2. TokenInvariant => TokenTypeOK
        BY DEF TokenInvariant
    <2>3. PatternInvariant => PatternTypeOK
        BY DEF PatternInvariant, PatternTypeOK
    <2> QED
        BY <2>1, <2>2, <2>3 DEF ServicesInvariant
<1>6. CASE part = "bot"
    BY <1>1, <1>6, Zenon DEF ServicesTypeOK
<1>7. CASE part = "catalog"
    BY <1>2, <1>7, Zenon DEF ServicesTypeOK
<1>8. CASE part = "support"
    BY <1>2, <1>8, Zenon DEF ServicesTypeOK
<1>9. CASE part = "banks"
    BY <1>4, <1>9, Zenon DEF ServicesTypeOK
<1>10. CASE part = "session"
    BY <1>2, <1>10, Zenon DEF ServicesTypeOK
<1>11. CASE part = "migration"
    BY <1>2, <1>11, Zenon DEF ServicesTypeOK
<1>12. CASE part = "page"
    BY <1>3, <1>12, Zenon DEF ServicesTypeOK
<1>13. CASE part = "screens"
    BY <1>3, <1>13, Zenon DEF ServicesTypeOK
<1>14. CASE part = "center"
    BY <1>3, <1>14, Zenon DEF ServicesTypeOK
<1>15. CASE part = "reports"
    BY <1>4, <1>15, Zenon DEF ServicesTypeOK
<1>16. CASE part = "chat"
    BY <1>1, <1>16, Zenon DEF ServicesTypeOK
<1>17. CASE part = "gate" \/ part = "accounts"
    BY <1>17, Zenon DEF ServicesTypeOK
<1>18. CASE part = "list"
    BY <1>5, <1>18, Zenon DEF ServicesTypeOK
<1>19. CASE part = "token"
    BY <1>5, <1>19, Zenon DEF ServicesTypeOK
<1>20. CASE part = "pattern"
    BY <1>5, <1>20, Zenon DEF ServicesTypeOK
<1> QED
    BY <1>5, <1>6, <1>7, <1>8, <1>9, <1>10, <1>11, <1>12, <1>13, <1>14,
       <1>15, <1>16, <1>17, <1>18, <1>19, <1>20 DEF Parts

LEMMA ServicesTalk == ServicesInvariant => TalkIsHonest
BY BotSaysOnce, ChatTellsTheTruth DEF ServicesInvariant, TalkIsHonest

LEMMA ServicesShow == ServicesInvariant => ScreensAreTrue
BY PageIsRight DEF ServicesInvariant, ScreensAreTrue, ListInvariant,
                   CenterInvariant, CacheInvariant

LEMMA ServicesCount == ServicesInvariant => ReportsAgree
BY EveryRangeHolds DEF ServicesInvariant, ReportsAgree

LEMMA ServicesStock == ServicesInvariant => StockIsAsPasted
BY SentIsPasted, PatternConstants
   DEF ServicesInvariant, StockIsAsPasted, CountInvariant

(* Whatever the handlers, desks, requests, tokens, pages and migrations    *)
(* do, every document of the services is one that its schema describes     *)
(* (the gate and the accounts have no clause here, see ServicesTypeOK).    *)
THEOREM ServicesAreTyped == ServicesSpec => []ServicesTypeOK
BY ServicesBegin, ServicesKeep, ServicesTyped, PTL DEF ServicesSpec

(* However many updates of a chat come, twice or at the same time, the bot *)
(* makes one order of a confirmation and takes one answer to a question,   *)
(* and what it told about a payment code is so and stays so.               *)
THEOREM TheBotIsHonest == ServicesSpec => []TalkIsHonest
BY ServicesBegin, ServicesKeep, ServicesTalk, PTL DEF ServicesSpec

(* However many requests are on their way and in whatever order they are   *)
(* answered, a screen shows what was asked for last, in its own session    *)
(* and of the customer it names, and with the messages it was told are     *)
(* sent.                                                                   *)
THEOREM ScreensShowTheTruth == ServicesSpec => []ScreensAreTrue
BY ServicesBegin, ServicesKeep, ServicesShow, PTL DEF ServicesSpec

(* Whatever was sold and whoever looked, at any moment and for any days:   *)
(* the rows by day add up to the totals of their range; so do the lists of *)
(* customers and products unless they are cut at their limit, when they    *)
(* tell no more; a range is the sum of its parts, the ways to group        *)
(* purchases and to find the longest streak agree, and so does the         *)
(* dashboard.                                                              *)
THEOREM TheReportsAgree == ServicesSpec => []ReportsAgree
BY ServicesBegin, ServicesKeep, ServicesCount, PTL DEF ServicesSpec

(* For texts, patterns and values of any kind and length: what an import   *)
(* reports is what it wrote, and a customer is sent the line that was      *)
(* pasted, but for the blanks around values, as long as the product keeps  *)
(* its pattern; a concealed field leaves no trace in the message, and no   *)
(* value swallows the separator behind it.                                 *)
THEOREM TheStockIsAsPasted == ServicesSpec => []StockIsAsPasted
BY ServicesBegin, ServicesKeep, ServicesStock, PTL DEF ServicesSpec
=============================================================================
