---------------------------- MODULE ScreensProofs ----------------------------
(***************************************************************************)
(* Theorems about the screens of a customer: the payment screen of the     *)
(* app, the checkout of the browser and the checkout of the app.  Each is  *)
(* about the whole behaviour of its screen, without the scenes to which    *)
(* MCScreens confines the runs, and has an invariant of its own.           *)
(***************************************************************************)
EXTENDS MCScreens, WellFoundedInduction, TLAPS

USE ScreensAssumption

-----------------------------------------------------------------------------
(* The payment screen *)

SaleRec == [pay : {"PENDIENTE", "COMPLETADO", "REEMBOLSADO", "FALLIDO"},
            status : {"PENDIENTE", "PROCESANDO", "CANCELADO"},
            by : {"nobody", "card", "qr", "staff"},
            proof : {"none", "PENDIENTE", "APROBADO", "RECHAZADO"},
            charge : {"none", "open", "processing", "succeeded", "canceled"}]
Tabs    == {"stripe", "qr", "wallet"}
PaneRec == [open : BOOLEAN, kept : BOOLEAN, loading : BOOLEAN, ready : BOOLEAN, success : BOOLEAN,
            tab : Tabs, tabs : SUBSET Tabs]
CallStep == {"idle", "sent", "checked"} \cup Payment!Answers

PaymentTypes == sale \in SaleRec /\ pane \in PaneRec /\ call \in [Payment!Requested -> CallStep]

\* The order was paid, or a proof of its payment was handed in.
PaidFor == Payment!Settled \/ sale.proof # "none"

\* What an answer that is on its way to the screen says stays true.
AnswersMean ==
  /\ call["intent"] = "paid" => PaidFor
  /\ call["poll"] = "paid" => PaidFor
  /\ call["card"] = "ok" => PaidFor
  /\ call["proof"] = "ok" => PaidFor
  /\ call["qr"] = "ok" => PaidFor \/ sale.status = "CANCELADO"

\* Somebody who paid the order is known, and an order that was cancelled
\* without a payment or a proof has no charge that can still succeed.
SaleConsistent ==
  /\ sale.by # "nobody" => PaidFor
  /\ sale.status = "CANCELADO" => PaidFor \/ sale.charge \in {"none", "canceled"}

PaymentInv == PaymentTypes /\ AnswersMean /\ SaleConsistent

\* The order is as it was, or a payment or a proof stays.
SaleSteps ==
  /\ sale' \in SaleRec /\ SaleConsistent'
  /\ PaidFor => PaidFor'
  /\ sale.status = "CANCELADO" => PaidFor' \/ sale'.status = "CANCELADO"

\* Settling an order that is not cancelled pays it.
LEMMA Settles ==
  ASSUME PaymentInv, NEW who \in {"card", "qr", "staff"}, sale' = Payment!SettledBy(who)
  PROVE  /\ SaleSteps
         /\ PaidFor' \/ sale'.status = "CANCELADO"
         /\ sale'.by = "card" => PaidFor'
         /\ sale'.charge = sale.charge
  BY ZenonT(60) DEF PaymentInv, PaymentTypes, SaleRec, SaleConsistent, SaleSteps, PaidFor, Payment!SettledBy,
     Payment!Settled

\* What the answer s to the request c says.
Says(c, s) ==
  /\ s = "paid" /\ c \in {"intent", "poll"} => PaidFor
  /\ s = "ok" /\ c \in {"card", "proof"} => PaidFor
  /\ s = "ok" /\ c = "qr" => PaidFor \/ sale.status = "CANCELADO"

\* What the answers mean, one request at a time.
LEMMA AnswersSay == AnswersMean <=> \A c \in Payment!Requested : Says(c, call[c])
  BY DEF AnswersMean, Says, Payment!Requested

\* What an answer says stays true as long as payments stay.
LEMMA SaysStays ==
  ASSUME SaleSteps, NEW c, NEW s, Says(c, s)
  PROVE  Says(c, s)'
  BY DEF SaleSteps, Says

\* A step of the server or the provider for one request.
LEMMA ServerStep ==
  ASSUME PaymentInv, SaleSteps, NEW c \in Payment!Requested, NEW s \in CallStep,
         call' = [call EXCEPT ![c] = s], pane' = pane, Says(c, s)'
  PROVE  PaymentInv'
<1>1. PaymentTypes'
  BY DEF PaymentInv, PaymentTypes, SaleSteps
<1>2. ASSUME NEW d \in Payment!Requested PROVE Says(d, call[d])'
  <2>1. CASE d = c
    BY <2>1 DEF PaymentInv, PaymentTypes
  <2>2. CASE d # c
    <3>1. PICK s0 \in CallStep : s0 = call[d]
      BY DEF PaymentInv, PaymentTypes
    <3>2. Says(d, s0) /\ call'[d] = s0
      BY <2>2, <3>1, AnswersSay DEF PaymentInv, PaymentTypes
    <3>3. Says(d, s0)'
      BY <3>2, SaysStays
    <3> QED
      BY <3>2, <3>3 DEF Says
  <2> QED
    BY <2>1, <2>2
<1>3. AnswersMean'
  BY <1>2 DEF Says, AnswersMean, Payment!Requested
<1> QED
  BY <1>1, <1>3 DEF PaymentInv, SaleSteps

\* A step of somebody else.
LEMMA OthersStep ==
  ASSUME PaymentInv, SaleSteps, UNCHANGED <<pane, call>>
  PROVE  PaymentInv'
  BY DEF PaymentInv, PaymentTypes, SaleSteps, AnswersMean

\* A step of the screen takes answers, and sends requests.
LEMMA ScreenStep ==
  ASSUME PaymentInv, sale' = sale, pane' \in PaneRec, call' \in [Payment!Requested -> CallStep],
         \A c \in Payment!Requested : call'[c] \in {call[c], "idle", "sent", "lost"}
  PROVE  PaymentInv'
  BY DEF PaymentInv, PaymentTypes, AnswersMean, SaleConsistent, PaidFor, Payment!Settled, Payment!Requested

\* A step that leaves the order alone takes nothing from it.
LEMMA SaleStays == ASSUME PaymentInv, sale' = sale PROVE SaleSteps /\ (PaidFor <=> PaidFor')
  BY DEF PaymentInv, PaymentTypes, SaleConsistent, SaleSteps, PaidFor, Payment!Settled

\* The server and the provider answer only what is so.
LEMMA ServerKeeps == ASSUME PaymentInv, Payment!ServerNext PROVE PaymentInv'
<1> USE DEF Payment!Reach, Payment!At, Payment!Requested, CallStep, Payment!Answers
<1>0. PaymentTypes /\ SaleConsistent
  BY DEF PaymentInv
<1>1. CASE Payment!OpenIntent
  <2>1. SaleSteps
    BY <1>0, <1>1, SaleStays DEF PaymentInv, PaymentTypes, SaleRec, SaleConsistent, SaleSteps, PaidFor,
       Payment!Settled,
       Payment!OpenIntent, Payment!Payable
  <2>2. PICK s \in CallStep : call' = [call EXCEPT !["intent"] = s] /\ (s = "paid" => Payment!Settled /\ sale' = sale)
    BY <1>1 DEF Payment!OpenIntent
  <2>3. Says("intent", s)'
    BY <2>2 DEF Says, PaidFor, Payment!Settled
  <2> QED
    BY <1>1, <2>1, <2>2, <2>3, ServerStep DEF Payment!OpenIntent
<1>2. CASE Payment!ObtainIntent
  <2>1. CASE sale.charge = "succeeded" /\ sale' = Payment!SettledBy("card") /\ Payment!Reach("intent", "paid")
    <3>1. SaleSteps /\ PaidFor'
      BY <2>1, Settles DEF SaleConsistent, SaleSteps
    <3> QED
      BY <1>2, <2>1, <3>1, ServerStep DEF Says, Payment!ObtainIntent
  <2>2. CASE sale' = sale /\ \E s \in {"pending", "ok", "sent"} : call' = [call EXCEPT !["intent"] = s]
    BY <1>2, <2>2, SaleStays, ServerStep DEF Says, Payment!ObtainIntent
  <2> QED
    BY <1>2, <2>1, <2>2 DEF Payment!ObtainIntent
<1>3. CASE Payment!ChargeCard
  <2>1. SaleSteps
    BY <1>0, <1>3 DEF PaymentTypes, SaleRec, SaleConsistent, SaleSteps, PaidFor, Payment!Settled,
       Payment!ChargeCard
  <2> QED
    BY <1>3, <2>1, ServerStep DEF Says, Payment!ChargeCard
<1>4. CASE Payment!ConfirmCard
  <2>1. CASE sale' = sale /\ \E s \in {"pending", "error"} : call' = [call EXCEPT !["card"] = s]
    BY <1>4, <2>1, SaleStays, ServerStep DEF Says, Payment!ConfirmCard
  <2>2. CASE /\ sale' = Payment!SettledBy("card")
             /\ \E s \in {"ok", "error"} : /\ call' = [call EXCEPT !["card"] = s]
                                          /\ s = "ok" => sale'.by = "card"
    <3>1. SaleSteps /\ (sale'.by = "card" => PaidFor')
      BY <2>2, Settles
    <3> QED
      BY <1>4, <2>2, <3>1, ServerStep DEF Says, Payment!ConfirmCard
  <2> QED
    BY <1>4, <2>1, <2>2 DEF Payment!ConfirmCard
<1>5. CASE Payment!PollOrder
  <2>1. SaleSteps /\ (PaidFor <=> PaidFor')
    BY <1>5, SaleStays DEF Payment!PollOrder
  <2>2. PICK s \in {"paid", "ok"} : call' = [call EXCEPT !["poll"] = s] /\ (s = "paid" => PaidFor)
    BY <1>5 DEF Payment!PollOrder, PaidFor, Payment!Settled
  <2> QED
    BY <1>5, <2>1, <2>2, ServerStep DEF Says, Payment!PollOrder
<1>6. CASE Payment!CheckQr
  BY <1>6, SaleStays, ServerStep DEF Says, Payment!CheckQr
<1>7. CASE Payment!SettleQr
  <2>1. SaleSteps /\ (PaidFor' \/ sale'.status = "CANCELADO")
    BY <1>7, Settles DEF Payment!SettleQr
  <2> QED
    BY <1>7, <2>1, ServerStep DEF Says, Payment!SettleQr
<1>8. CASE Payment!CheckProof
  <2>1. SaleSteps
    <3>1. CASE sale' = Payment!SettledBy("card")
      BY <3>1, Settles
    <3>2. CASE sale' = sale
      BY <3>2, SaleStays
    <3>3. CASE sale' = [sale EXCEPT !.charge = "canceled"]
      BY <1>0, <3>3 DEF PaymentTypes, SaleRec, SaleConsistent, SaleSteps, PaidFor, Payment!Settled
    <3> QED
      BY <1>8, <3>1, <3>2, <3>3 DEF Payment!CheckProof
  <2>2. PICK s \in {"error", "checked"} : call' = [call EXCEPT !["proof"] = s]
    BY <1>8 DEF Payment!CheckProof
  <2> QED
    BY <1>8, <2>1, <2>2, ServerStep DEF Says, Payment!CheckProof
<1>9. CASE Payment!SaveProof
  <2>1. CASE sale' = [sale EXCEPT !.proof = "PENDIENTE"] /\ Payment!Reach("proof", "ok")
    <3>1. SaleSteps /\ PaidFor'
      BY <1>0, <2>1 DEF PaymentTypes, SaleRec, SaleConsistent, SaleSteps, PaidFor, Payment!Settled
    <3> QED
      BY <1>9, <2>1, <3>1, ServerStep DEF Says, Payment!SaveProof
  <2>2. CASE sale' = sale /\ Payment!Reach("proof", "error")
    BY <1>9, <2>2, SaleStays, ServerStep DEF Says, Payment!SaveProof
  <2> QED
    BY <1>9, <2>1, <2>2 DEF Payment!SaveProof
<1>10. CASE Payment!Options
  BY <1>10, SaleStays, ServerStep DEF Says, Payment!Options
<1>11. CASE Payment!PayElsewhere
  <2>1. CASE sale' = Payment!SettledBy("card")
    BY <1>11, <2>1, Settles, OthersStep DEF Payment!PayElsewhere
  <2>2. ASSUME sale.charge \in {"open", "processing"}, NEW c \in {"open", "processing", "succeeded"},
               sale' = [sale EXCEPT !.charge = c]
        PROVE  SaleSteps
    BY <1>0, <2>2 DEF PaymentTypes, SaleRec, SaleConsistent, SaleSteps, PaidFor, Payment!Settled
  <2> QED
    BY <1>11, <2>1, <2>2, OthersStep DEF Payment!PayElsewhere
<1>12. CASE Payment!ReviewProof
  <2>1. CASE sale.status # "CANCELADO" /\ sale' = [Payment!SettledBy("staff") EXCEPT !.proof = "APROBADO"]
    <3>1. SaleSteps
      BY ZenonT(60), <1>0, <2>1 DEF PaymentTypes, SaleRec, SaleConsistent, SaleSteps, PaidFor, Payment!Settled,
         Payment!SettledBy
    <3> QED
      BY <1>12, <3>1, OthersStep DEF Payment!ReviewProof
  <2>2. CASE sale' = [sale EXCEPT !.proof = "RECHAZADO", !.pay = "FALLIDO",
                                  !.status = IF sale.status = "PENDIENTE" THEN "CANCELADO" ELSE sale.status]
    <3>1. SaleSteps
      BY ZenonT(60), <1>0, <2>2 DEF PaymentTypes, SaleRec, SaleConsistent, SaleSteps, PaidFor, Payment!Settled
    <3> QED
      BY <1>12, <3>1, OthersStep DEF Payment!ReviewProof
  <2> QED
    BY <1>12, <2>1, <2>2 DEF Payment!ReviewProof
<1>13. CASE Payment!Refund
  <2>1. SaleSteps
    BY <1>0, <1>13 DEF PaymentTypes, SaleRec, SaleConsistent, SaleSteps, PaidFor, Payment!Settled,
       Payment!Refund
  <2> QED
    BY <1>13, <2>1, OthersStep DEF Payment!Refund
<1>14. CASE Payment!CancelOrder
  <2>1. SaleSteps
    BY ZenonT(60), <1>0, <1>14 DEF PaymentTypes, SaleRec, SaleConsistent, SaleSteps, PaidFor, Payment!Settled,
       Payment!CancelOrder,
       Payment!Payable
  <2> QED
    BY <1>14, <2>1, OthersStep DEF Payment!CancelOrder
<1> QED
  BY <1>1, <1>2, <1>3, <1>4, <1>5, <1>6, <1>7, <1>8, <1>9, <1>10, <1>11, <1>12, <1>13, <1>14
     DEF Payment!ServerNext

\* A screen that opens, is left, or takes an answer leaves the order as it is.
LEMMA ScreenKeeps == ASSUME PaymentInv, Payment!ScreenNext PROVE PaymentInv'
<1> USE DEF Payment!Reach, Payment!Requested, CallStep, Payment!Answers
<1>0. pane \in PaneRec /\ call \in [Payment!Requested -> CallStep]
  BY DEF PaymentInv, PaymentTypes
<1>1. CASE Payment!OpenPayment
  <2>1. pane' \in PaneRec
    BY <1>0, <1>1 DEF Payment!OpenPayment, Payment!Blank, PaneRec, Tabs
  <2> QED
    BY <1>0, <1>1, <2>1, ScreenStep DEF Payment!OpenPayment
<1>2. CASE Payment!LeavePayment
  <2>1. pane' \in PaneRec
    BY <1>0, <1>2 DEF Payment!LeavePayment, Payment!Blank, PaneRec, Tabs
  <2> QED
    BY <1>0, <1>2, <2>1, ScreenStep DEF Payment!LeavePayment
<1>3. CASE Payment!OptionsAnswered
  <2>1. PICK tabs \in SUBSET Tabs :
          /\ pane' = [pane EXCEPT !.tabs = tabs, !.loading = "stripe" \in tabs, !.tab = Payment!FirstTab(tabs)]
          /\ call' = [call EXCEPT !["options"] = "idle", !["intent"] = IF "stripe" \in tabs THEN "sent" ELSE @]
    BY ZenonT(60), <1>3 DEF Payment!OptionsAnswered, Payment!Show, Tabs
  <2>2. Payment!FirstTab(tabs) \in Tabs
    BY <1>0 DEF Payment!FirstTab, PaneRec, Tabs
  <2>3. ASSUME NEW b \in BOOLEAN PROVE [pane EXCEPT !.tabs = tabs, !.loading = b, !.tab = Payment!FirstTab(tabs)] \in PaneRec
    BY <1>0, <2>2 DEF PaneRec
  <2>4. pane' \in PaneRec
    <3>1. CASE "stripe" \in tabs
      <4>1. pane' = [pane EXCEPT !.tabs = tabs, !.loading = TRUE, !.tab = Payment!FirstTab(tabs)]
        BY <2>1, <3>1
      <4> QED
        BY ZenonT(60), <4>1, <2>3
    <3>2. CASE ~("stripe" \in tabs)
      <4>1. pane' = [pane EXCEPT !.tabs = tabs, !.loading = FALSE, !.tab = Payment!FirstTab(tabs)]
        <5>1. ("stripe" \in tabs) = FALSE
          BY <3>2
        <5> QED
          BY <2>1, <5>1
      <4> QED
        BY ZenonT(60), <4>1, <2>3
    <3> QED
      BY <3>1, <3>2
  <2> QED
    BY <1>0, <1>3, <2>1, <2>4, ScreenStep DEF Payment!OptionsAnswered, Payment!Show
<1>4. CASE Payment!IntentAnswered
  <2>1. pane' \in PaneRec
    BY ZenonT(60), <1>0, <1>4 DEF Payment!IntentAnswered, Payment!Show, PaneRec, Tabs
  <2> QED
    BY <1>0, <1>4, <2>1, ScreenStep DEF Payment!IntentAnswered, Payment!Show
<1>5. CASE Payment!Poll
  BY <1>0, <1>5, ScreenStep DEF Payment!Poll
<1>6. CASE Payment!Forget
  <2>1. pane' \in PaneRec
    BY <1>0, <1>6 DEF Payment!Forget, Payment!Show, PaneRec, Tabs
  <2> QED
    BY <1>0, <1>6, <2>1, ScreenStep DEF Payment!Forget, Payment!Show
<1>7. ASSUME NEW m \in {"stripe", "qr", "wallet"}, Payment!SelectTab(m) PROVE PaymentInv'
  <2>1. pane' \in PaneRec
    BY <1>0, <1>7 DEF Payment!SelectTab, Payment!Show, PaneRec, Tabs
  <2> QED
    BY <1>0, <1>7, <2>1, ScreenStep DEF Payment!SelectTab, Payment!Show
<1>8. ASSUME NEW c \in Payment!Requested, NEW tab, Payment!Send(c, tab) PROVE PaymentInv'
  BY <1>0, <1>8, ScreenStep DEF Payment!Send
<1>9. ASSUME NEW c \in {"poll", "qr", "proof", "card"}, Payment!ButtonAnswered(c) PROVE PaymentInv'
  <2>1. pane' \in PaneRec
    BY <1>0, <1>9 DEF Payment!ButtonAnswered, Payment!Show, PaneRec, Tabs
  <2> QED
    BY <1>0, <1>9, <2>1, ScreenStep DEF Payment!ButtonAnswered, Payment!Show
<1>10. ASSUME NEW c \in Payment!Requested, Payment!Ignored(c) PROVE PaymentInv'
  BY <1>0, <1>10, ScreenStep DEF Payment!Ignored
<1>11. ASSUME NEW c \in Payment!Requested, Payment!Lose(c) PROVE PaymentInv'
  BY <1>0, <1>11, ScreenStep DEF Payment!Lose
<1> QED
  BY <1>1, <1>2, <1>3, <1>4, <1>5, <1>6, <1>7, <1>8, <1>9, <1>10, <1>11 DEF Payment!ScreenNext

\* The invariant of the payment screen holds in every state.
THEOREM PaymentInvariance == Payment!PayingSpec => []PaymentInv
<1>1. Payment!PayingInit => PaymentInv
  BY DEF Payment!PayingInit, Payment!Blank, Payment!Quiet, Payment!Requested, Payment!Settled, PaymentInv,
     PaymentTypes, SaleRec,
     PaneRec, Tabs, CallStep, AnswersMean, SaleConsistent, PaidFor
<1>2. PaymentInv /\ [Payment!PayingNext]_payingVars => PaymentInv'
  <2>1. CASE UNCHANGED payingVars
    BY <2>1, OthersStep, SaleStays DEF payingVars
  <2> QED
    BY <2>1, ServerKeeps, ScreenKeeps DEF Payment!PayingNext
<1> QED
  BY <1>1, <1>2, PTL DEF Payment!PayingSpec, Payment!payingVars, payingVars

\* What the payment screen calls a success is one: the answers it takes for a
\* success were given for an order that was paid, had a proof of payment, or was
\* cancelled while its QR payment was being confirmed (PaymentScreen.tsx).
THEOREM SuccessIsRealHolds == Payment!PayingSpec => SuccessIsReal
<1>1. PaymentInv /\ [Payment!PayingNext]_(Payment!payingVars) =>
        [~pane.success /\ pane'.success =>
           Payment!Settled \/ sale.proof # "none" \/ (call["qr"] = "ok" /\ sale.status = "CANCELADO")]_(Payment!payingVars)
  <2> SUFFICES ASSUME PaymentInv, Payment!PayingNext, ~pane.success, pane'.success
               PROVE  PaidFor \/ (call["qr"] = "ok" /\ sale.status = "CANCELADO")
    BY DEF PaidFor, Payment!payingVars
  <2>0. pane \in PaneRec
    BY DEF PaymentInv, PaymentTypes
  <2>1. CASE Payment!IntentAnswered
    BY <2>0, <2>1 DEF Payment!IntentAnswered, Payment!Show, PaneRec, PaymentInv, AnswersMean
  <2>2. ASSUME NEW c \in {"poll", "qr", "proof", "card"}, Payment!ButtonAnswered(c)
        PROVE  PaidFor \/ (call["qr"] = "ok" /\ sale.status = "CANCELADO")
    BY <2>0, <2>2 DEF Payment!ButtonAnswered, Payment!Show, PaneRec, PaymentInv, AnswersMean
  <2>3. ~Payment!ServerNext
    BY DEF Payment!ServerNext, Payment!OpenIntent, Payment!ObtainIntent, Payment!ChargeCard,
       Payment!ConfirmCard,
       Payment!PollOrder, Payment!CheckQr, Payment!SettleQr, Payment!CheckProof, Payment!SaveProof, Payment!Options,
       Payment!PayElsewhere, Payment!ReviewProof, Payment!Refund, Payment!CancelOrder
  <2>4. /\ ~Payment!OpenPayment /\ ~Payment!LeavePayment /\ ~Payment!OptionsAnswered /\ ~Payment!Poll /\ ~Payment!Forget
        /\ \A m : ~Payment!SelectTab(m)
        /\ \A c, tab : ~Payment!Send(c, tab) /\ ~Payment!Ignored(c) /\ ~Payment!Lose(c)
    BY ZenonT(60), <2>0 DEF PaneRec, Payment!Blank, Payment!Show, Payment!OpenPayment, Payment!LeavePayment,
       Payment!OptionsAnswered,
       Payment!Poll, Payment!Forget, Payment!SelectTab, Payment!Send, Payment!Ignored, Payment!Lose
  <2> QED
    BY <2>1, <2>2, <2>3, <2>4 DEF Payment!PayingNext, Payment!ScreenNext
<1> QED
  BY <1>1, PaymentInvariance, PTL DEF Payment!PayingSpec, SuccessIsReal, Payment!SuccessIsReal

-----------------------------------------------------------------------------
(* The checkout of the browser *)

\* Numbers have a least one, and attempts a newest and a first one.
LEMMA LeastNumber ==
  ASSUME NEW S, S \subseteq Nat, S # {}
  PROVE  \E x \in S : \A y \in S : x <= y
<1>1. PICK x \in S : \A y \in S : ~(<<y, x>> \in OpToRel(<, Nat))
  BY ZenonT(60), NatLessThanWellFounded, WFMin
<1>2. ASSUME NEW y \in S PROVE x <= y
  <2>1. x \in Nat /\ y \in Nat /\ ~(y < x)
    BY <1>1 DEF OpToRel
  <2> QED
    BY <2>1
<1> QED
  BY <1>2

\* A set of keys has a last one, by the well-ordering of the numbers.
LEMMA NewestNumber ==
  ASSUME NEW S, S \subseteq 1..MaxKeys, S # {}
  PROVE  \E x \in S : \A y \in S : y <= x
<1> DEFINE T == {MaxKeys - x : x \in S}
<1>1. T \subseteq Nat /\ T # {}
  <2>1. ASSUME NEW x \in S PROVE MaxKeys - x \in Nat
    OBVIOUS
  <2>2. PICK x \in S : TRUE
    OBVIOUS
  <2>3. MaxKeys - x \in T
    OBVIOUS
  <2> QED
    BY <2>1, <2>3
<1>2. PICK z \in T : \A y \in T : z <= y
  BY <1>1, LeastNumber
<1>3. PICK x \in S : z = MaxKeys - x
  OBVIOUS
<1>4. ASSUME NEW y \in S PROVE y <= x
  <2>1. MaxKeys - y \in T
    OBVIOUS
  <2>2. MaxKeys - x <= MaxKeys - y
    BY <1>2, <1>3, <2>1
  <2>3. x \in Int /\ y \in Int
    OBVIOUS
  <2> QED
    BY <2>2, <2>3
<1> QED
  BY <1>4

Maybe     == Web!Keys \cup {None}
WebSteps  == {"idle", "look", "sync", "sent", "bought", "next", "ask"}
ScreenRec == [open : BOOLEAN, step : {1, 2}, method : {"none", "auto", "manual"}, failed : BOOLEAN,
              verifying : BOOLEAN, order : Maybe, attempt : Maybe]
WebTask   == [step : WebSteps, key : Maybe, list : SUBSET Web!Keys]

\* The purchases that were started in this browser.
Started == {k \in Web!Keys : draftOf[k] # "unused"}

\* A task that has something sent, asks for it or has bought it knows the attempt,
\* which was started, and what it has bought has an order.
Fits(x) ==
  /\ x.step \in {"sent", "ask", "bought"} => x.key \in Started
  /\ x.step = "bought" => Web!Ordered(x.key)
  /\ x.list \subseteq Started

TaskTypes ==
  /\ task \in [Web!Tasks -> WebTask]
  /\ \A t \in Web!Tasks : Fits(task[t])
  /\ task["recovery"].step \notin {"look", "sync"}

BrowserTypes ==
  /\ db \in [Web!Keys -> {"none", "SENDING", "IN_DOUBT", "CONFIRMED"}]
  /\ draftOf \in [Web!Keys -> Drafts \cup {None, "unused"}]
  /\ verdict \in [Web!Keys -> {"none", "open", "done", "REJECTED"}]
  /\ drafts \in [Drafts -> {"none", "kept", "discarded", "gone"}]
  /\ session \in Drafts \cup {None}

WebTypes ==
  /\ BrowserTypes /\ TaskTypes
  /\ screen \in ScreenRec /\ events \subseteq Web!Keys \cup {Web!Read} /\ stray \subseteq Web!Keys

\* The key of the next purchase is one that was never used.
LEMMA FirstUnused == Web!Unused # {} => Web!NextKey \in Web!Keys /\ Web!NextKey \in Web!Unused
<1> SUFFICES ASSUME Web!Unused # {} PROVE Web!NextKey \in Web!Unused
  BY DEF Web!Unused
<1>1. Web!Unused \subseteq Nat
  BY DEF Web!Unused, Web!Keys
<1>2. \E x \in Web!Unused : \A y \in Web!Unused : x <= y
  BY <1>1, LeastNumber
<1> QED
  BY <1>2, Zenon DEF Web!NextKey

\* The attempt that the browser goes on with is its own last one, if it has any.
LEMMA NewestOwn ==
  Web!Newest \in Maybe /\ (Web!Own # {} => Web!Newest \in Web!Own) /\ (Web!Own = {} => Web!Newest = None)
<1>1. CASE Web!Own = {}
  BY <1>1 DEF Web!Newest, Maybe
<1>2. CASE Web!Own # {}
  <2>1. \E x \in Web!Own : \A y \in Web!Own : y <= x
    BY <1>2, NewestNumber DEF Web!Own, Web!Keys
  <2>2. Web!Newest \in Web!Own
    BY <1>2, <2>1 DEF Web!Newest
  <2> QED
    BY <2>2 DEF Maybe, Web!Own
<1> QED
  BY <1>1, <1>2

\* While the screen was not left in the middle of a purchase and no other tab
\* started one: there is one attempt at most, none when a new one is about to be
\* started, and it is the one that the button has sent or that the screen shows.
Button == task["button"]
OneAtATime ==
  /\ task["left"].step = "idle" /\ task["tab"].step = "idle"
  /\ \A j, k \in Web!Own : j = k
  /\ Button.step = "sync" => Web!Own = {}
  /\ Button.step \in {"sent", "bought"} => Web!Own \subseteq {Button.key}
  /\ Button.step = "idle" /\ screen.attempt # None => Web!Own \subseteq {screen.attempt}

\* A refusal the customer has not reacted to left no attempt, and the screen
\* shows its failure.
Ready    == screen.open /\ screen.step = 2 /\ ~screen.failed
Reviewed == refused => Web!Own = {} /\ Button.step = "idle" /\ ~Ready

\* What was not started is nowhere.  What was started is remembered until its
\* refusal or its end is known, or was forgotten upon an answer that decided nothing.
Final == {"REJECTED", "done"}
Remembered ==
  /\ \A k \in Web!Keys \ Started : db[k] = "none" /\ verdict[k] = "none"
  /\ \A k \in Started : db[k] = "none" => verdict[k] \in Final \/ k \in dropped
  /\ stray \subseteq Started /\ screen.attempt \in Started \cup {None}

WebInv == WebTypes /\ Web!DraftKept /\ Remembered /\ (crossed \/ (OneAtATime /\ Reviewed))

\* A draft that is gone has an order, and stays so.
DraftSteps ==
  /\ \A k \in Web!Keys : Web!Ordered(k) => Web!Ordered(k)'
  /\ \A k \in Web!Keys : draftOf[k] \in Drafts => draftOf'[k] = draftOf[k]
  /\ \A d \in Drafts : drafts'[d] = "gone" =>
       drafts[d] = "gone" \/ \E k \in Web!Keys : draftOf[k] = d /\ Web!Ordered(k)'

\* A step that keeps the drafts, or bought what they hold, keeps the property.
LEMMA DraftStays ==
  ASSUME Web!DraftKept, DraftSteps
  PROVE  Web!DraftKept'
  BY DEF Web!DraftKept, DraftSteps

\* A purchase that was started, and an order, are so for ever.
KeysGrow ==
  /\ Started \subseteq Started'
  /\ \A k \in Web!Keys : Web!Ordered(k) => Web!Ordered(k)'

\* A step that starts no purchase forgets one only when it is over.
MemorySteps ==
  /\ draftOf' = draftOf /\ dropped \subseteq dropped'
  /\ \A k \in Web!Keys : verdict'[k] = verdict[k] \/ (k \in Started /\ verdict[k] \in {"none", "open"})
  /\ \A k \in Web!Keys : db[k] = "none" => db'[k] = "none"
  /\ \A k \in Web!Keys : db[k] # "none" /\ db'[k] = "none" => verdict'[k] \in Final \/ k \in dropped'
  /\ stray' \subseteq Started /\ screen'.attempt \in Started \cup {None}

\* What such a step leaves is remembered.
LEMMA MemoryStays ==
  ASSUME Remembered, MemorySteps
  PROVE  Remembered'
<1>1. Started' = Started
  BY DEF MemorySteps, Started
<1>2. \A k \in Web!Keys \ Started : db'[k] = "none" /\ verdict'[k] = "none"
  BY DEF MemorySteps, Remembered
<1>3. ASSUME NEW k \in Started, db'[k] = "none" PROVE verdict'[k] \in Final \/ k \in dropped'
  <2>1. k \in Web!Keys
    BY DEF Started
  <2>2. CASE db[k] = "none"
    BY <2>1, <2>2 DEF MemorySteps, Remembered, Final
  <2>3. CASE db[k] # "none"
    BY <1>3, <2>1, <2>3 DEF MemorySteps
  <2> QED
    BY <2>2, <2>3
<1> QED
  BY <1>1, <1>2, <1>3 DEF MemorySteps, Remembered

\* A step that neither starts an attempt nor moves the button keeps the rest.
Calm ==
  /\ crossed => crossed'
  /\ ~crossed' => \A t \in {"left", "tab"} : task'[t].step \in {"idle", task[t].step}
  /\ Web!Own' \subseteq Web!Own
  /\ \/ Button'.step = Button.step /\ Button'.key = Button.key /\ screen'.attempt \in {None, screen.attempt}
     \/ Button'.step = "idle" /\ screen'.attempt = None
  /\ refused' => refused /\ (Ready' => Ready)

\* What is calm keeps one attempt at a time and the review.
LEMMA CalmStep ==
  ASSUME crossed \/ (OneAtATime /\ Reviewed), Calm
  PROVE  crossed' \/ (OneAtATime' /\ Reviewed')
  BY DEF Calm, OneAtATime, Reviewed

\* What fits a task fits it later.
LEMMA FitsLater ==
  ASSUME KeysGrow, NEW x \in WebTask, Fits(x)
  PROVE  Fits(x)'
  BY DEF KeysGrow, Fits, Started

\* Tasks that do not move keep their types.
LEMMA SameTasks == ASSUME TaskTypes, KeysGrow, UNCHANGED task PROVE TaskTypes'
<1>1. ASSUME NEW t \in Web!Tasks PROVE Fits(task[t])'
  <2>1. PICK x \in WebTask : x = task[t]
    BY DEF TaskTypes
  <2>2. Fits(x)
    BY <2>1 DEF TaskTypes
  <2>3. Fits(x)'
    BY <2>2, FitsLater
  <2> QED
    BY <2>1, <2>3 DEF Fits
<1> QED
  BY <1>1 DEF TaskTypes

\* A task gets to its next step, or to rest.
LEMMA TaskMoves ==
  ASSUME TaskTypes, KeysGrow, NEW t \in Web!Tasks, NEW x \in WebTask, task' = [task EXCEPT ![t] = x],
         Fits(x)', t = "recovery" => x.step \notin {"look", "sync"}
  PROVE  TaskTypes' /\ task'[t] = x /\ \A u \in Web!Tasks : u # t => task'[u] = task[u]
<1>1. task'[t] = x /\ (\A u \in Web!Tasks : u # t => task'[u] = task[u]) /\ task' \in [Web!Tasks -> WebTask]
  BY DEF TaskTypes
<1>2. ASSUME NEW u \in Web!Tasks PROVE Fits(task[u])'
  <2>1. PICK y \in WebTask : y = task[u]
    BY DEF TaskTypes
  <2>2. Fits(y)'
    BY <2>1, FitsLater DEF TaskTypes
  <2>3. CASE u = t
    BY <1>1, <2>3 DEF Fits
  <2>4. CASE u # t
    BY <1>1, <2>1, <2>2, <2>4 DEF Fits
  <2> QED
    BY <2>3, <2>4
<1>3. task'["recovery"].step \notin {"look", "sync"}
  BY <1>1 DEF TaskTypes, Web!Tasks
<1> QED
  BY <1>1, <1>2, <1>3 DEF TaskTypes

\* At rest a task has its type.
LEMMA IdleTask == Web!Idle \in WebTask /\ Web!Idle.step = "idle" /\ Fits(Web!Idle) /\ Fits(Web!Idle)'
  BY DEF Web!Idle, WebTask, WebSteps, Maybe, Fits

\* The record of a task with its step, or its step and attempt, changed.
LEMMA TaskAtStep ==
  ASSUME NEW y \in WebTask, NEW s \in WebSteps
  PROVE  \E x \in WebTask : x = [y EXCEPT !.step = s] /\ x.step = s /\ x.key = y.key /\ x.list = y.list
<1>1. /\ [y EXCEPT !.step = s] \in WebTask /\ [y EXCEPT !.step = s].step = s
      /\ [y EXCEPT !.step = s].key = y.key /\ [y EXCEPT !.step = s].list = y.list
  BY DEF WebTask
<1> QED
  BY <1>1, Zenon

\* A task goes to another step with its attempt.
LEMMA TaskGoes ==
  ASSUME TaskTypes, KeysGrow, NEW t \in Web!Tasks, NEW s \in WebSteps, Web!Go(t, s),
         s \in {"sent", "ask", "bought"} => task[t].step \in {"sent", "ask", "bought"},
         NEW k, k = task[t].key, s = "bought" => Web!Ordered(k)',
         t = "recovery" => s \notin {"look", "sync"}
  PROVE  /\ TaskTypes' /\ \A u \in Web!Tasks : u # t => task'[u] = task[u]
         /\ task'[t].step = s /\ task'[t].key = task[t].key
<1>0. PICK y \in WebTask : y = task[t] /\ Fits(y)
  BY DEF TaskTypes
<1>1. PICK x \in WebTask : x = [y EXCEPT !.step = s] /\ x.step = s /\ x.key = y.key /\ x.list = y.list
  BY TaskAtStep, Zenon
<1>2. task' = [task EXCEPT ![t] = x]
  BY <1>0, <1>1 DEF Web!Go, TaskTypes
<1>3. Fits(x)'
  <2>1. s \in {"sent", "ask", "bought"} => x.key \in Started'
    BY <1>0, <1>1 DEF Fits, KeysGrow
  <2>2. x.list \subseteq Started'
    BY <1>0, <1>1 DEF Fits, KeysGrow
  <2>3. s = "bought" => Web!Ordered(x.key)'
    <3>1. x.key = k
      BY <1>0, <1>1
    <3> QED
      BY <3>1
  <2> QED
    BY <1>1, <2>1, <2>2, <2>3 DEF Fits
<1>4. t = "recovery" => x.step \notin {"look", "sync"}
  BY <1>1
<1>5. TaskTypes' /\ task'[t] = x /\ \A u \in Web!Tasks : u # t => task'[u] = task[u]
  BY <1>2, <1>3, <1>4, TaskMoves
<1> QED
  BY <1>0, <1>1, <1>5

\* A task starts to work at an attempt.
LEMMA TaskWorks ==
  ASSUME TaskTypes, KeysGrow, NEW t \in Web!Tasks, NEW s \in WebSteps \ {"bought"}, NEW k \in Maybe,
         Web!Work(t, s, k), s \in {"sent", "ask"} => k \in Started', t = "recovery" => s \notin {"look", "sync"}
  PROVE  /\ TaskTypes' /\ \A u \in Web!Tasks : u # t => task'[u] = task[u]
         /\ task'[t].step = s /\ task'[t].key = k
<1>0. PICK y \in WebTask : y = task[t] /\ Fits(y)
  BY DEF TaskTypes
<1>1. PICK x \in WebTask : x = [y EXCEPT !.step = s, !.key = k] /\ x.step = s /\ x.key = k /\ x.list = y.list
  <2>1. /\ [y EXCEPT !.step = s, !.key = k] \in WebTask /\ [y EXCEPT !.step = s, !.key = k].step = s
        /\ [y EXCEPT !.step = s, !.key = k].key = k /\ [y EXCEPT !.step = s, !.key = k].list = y.list
    BY DEF WebTask
  <2> QED
    BY <2>1, Zenon
<1>2. task' = [task EXCEPT ![t] = x]
  BY <1>0, <1>1 DEF Web!Work, TaskTypes
<1>3. Fits(x)'
  BY <1>0, <1>1 DEF Fits, KeysGrow
<1>4. t = "recovery" => x.step \notin {"look", "sync"}
  BY <1>1
<1> QED
  BY ZenonT(60), <1>1, <1>2, <1>3, <1>4, TaskMoves

\* A task that is done is at rest; the recovery takes the next attempt.
LEMMA TaskDone ==
  ASSUME TaskTypes, KeysGrow, NEW t \in Web!Tasks, Web!Done(t)
  PROVE  /\ TaskTypes' /\ \A u \in Web!Tasks : u # t => task'[u] = task[u]
         /\ t # "recovery" => task'[t].step = "idle"
<1>1. CASE t = "recovery"
  <2>1. PICK y \in WebTask : y = task[t] /\ Fits(y)
    BY DEF TaskTypes
  <2>2. PICK x \in WebTask : x = [y EXCEPT !.step = "next"] /\ x.step = "next" /\ x.list = y.list
    BY TaskAtStep DEF WebSteps
  <2>3. task' = [task EXCEPT ![t] = x]
    BY <1>1, <2>1, <2>2 DEF Web!Done, TaskTypes
  <2>4. Fits(x)'
    BY <2>1, <2>2 DEF Fits, KeysGrow
  <2> QED
    BY <1>1, <2>2, <2>3, <2>4, TaskMoves
<1>2. CASE t # "recovery"
  <2>1. task' = [task EXCEPT ![t] = Web!Idle]
    BY <1>2 DEF Web!Done
  <2> QED
    BY <1>2, <2>1, IdleTask, TaskMoves
<1> QED
  BY <1>1, <1>2

\* What a page that is gone was doing has ended; what it sent may arrive.
LEMMA PageIsGone ==
  ASSUME WebTypes, KeysGrow, stray \subseteq Started, Web!PageGone
  PROVE  /\ screen' = Web!Closed /\ events' = {} /\ stray' \subseteq Started
         /\ TaskTypes' /\ task'["left"].step = "idle" /\ task'["button"].step = "idle"
         /\ task'["tab"] = task["tab"]
<1>1. \A t \in Web!Tasks : task'[t] = IF t = "tab" THEN task[t] ELSE Web!Idle
  BY DEF Web!PageGone
<1>2. TaskTypes'
  <2>1. ASSUME NEW t \in Web!Tasks PROVE Fits(task[t])' /\ task'[t] \in WebTask
    <3>1. PICK x \in WebTask : x = task[t] /\ Fits(x)
      BY DEF WebTypes, TaskTypes
    <3>2. Fits(x)'
      BY <3>1, FitsLater
    <3>3. CASE t = "tab"
      BY <1>1, <3>1, <3>2, <3>3 DEF Fits
    <3>4. CASE t # "tab"
      BY <1>1, <3>4, IdleTask DEF Fits
    <3> QED
      BY <3>3, <3>4
  <2>2. task'["recovery"].step = "idle"
    BY <1>1, IdleTask DEF Web!Tasks
  <2> QED
    BY <2>1, <2>2 DEF Web!PageGone, TaskTypes
<1>3. {task[t].key : t \in {u \in Web!Tasks \ {"tab"} : Web!At(u, "sent")}} \subseteq Started
  BY DEF Web!At, WebTypes, TaskTypes, Fits
<1>4. stray' \subseteq Started
  BY <1>3 DEF Web!PageGone
<1> QED
  BY <1>1, <1>2, <1>4, IdleTask DEF Web!PageGone, Web!Show, Web!Tasks

\* The screen is told that attempts changed, and reads them again.
LEMMA NotifyTypes ==
  ASSUME NEW rest \in SUBSET (Web!Keys \cup {Web!Read}), Web!Notify(rest)
  PROVE  events' \subseteq Web!Keys \cup {Web!Read}
  BY DEF Web!Notify

LEMMA TellTypes ==
  ASSUME NEW t \in Web!Tasks, events \subseteq Web!Keys \cup {Web!Read}, Web!Tell(t)
  PROVE  events' \subseteq Web!Keys \cup {Web!Read}
  BY NotifyTypes DEF Web!Tell

\* The screen as it is closed and as it is opened.
LEMMA ScreenTypes == Web!Closed \in ScreenRec /\ Web!Opened \in ScreenRec /\ ~Web!Closed.open /\ Web!Closed.attempt = None
                     /\ Web!Opened.attempt = None /\ Web!Opened.step = 1
  BY DEF Web!Closed, Web!Opened, ScreenRec, Maybe

\* The cart and the drafts change on other pages.
LEMMA CartKeeps ==
  ASSUME WebInv,
         Web!AddToCart \/ Web!ClearCart \/ Web!Reload \/ \E d \in Drafts : Web!Review(d) \/ Web!Discard(d) \/ Web!SaveDraft(d)
  PROVE  WebInv'
<1>0. WebTypes /\ Web!DraftKept /\ Remembered /\ (crossed \/ (OneAtATime /\ Reviewed))
  BY DEF WebInv
<1>1. CASE Web!AddToCart
  <2>1. KeysGrow
    BY <1>0, <1>1 DEF Web!AddToCart, Web!offline, Web!browser, Web!history, WebTypes, BrowserTypes,
       KeysGrow, Started, Web!Ordered
  <2>2. WebTypes'
    BY <1>0, <1>1, <2>1, SameTasks DEF Web!AddToCart, Web!offline, Web!browser, Web!history, WebTypes,
       BrowserTypes
  <2>3. DraftSteps
    BY <1>0, <1>1 DEF Web!AddToCart, Web!offline, Web!browser, Web!history, WebTypes, BrowserTypes,
       DraftSteps, Web!Ordered
  <2>4. MemorySteps
    BY <1>0, <1>1 DEF Web!AddToCart, Web!offline, Web!browser, Web!history, WebTypes, BrowserTypes,
       MemorySteps, Remembered, Started, Final
  <2>5. Calm
    BY <1>0, <1>1 DEF Web!AddToCart, Web!offline, Web!browser, Web!history, WebTypes, BrowserTypes,
       TaskTypes, ScreenRec, Calm, Button, Ready, Web!Own, Web!Tasks
  <2> QED
    BY <1>0, <2>2, <2>3, <2>4, <2>5, DraftStays, MemoryStays, CalmStep DEF WebInv
<1>2. CASE Web!ClearCart
  <2>1. KeysGrow
    BY <1>0, <1>2 DEF Web!ClearCart, Web!offline, Web!browser, Web!history, WebTypes, BrowserTypes,
       KeysGrow, Started, Web!Ordered
  <2>2. WebTypes'
    BY <1>0, <1>2, <2>1, SameTasks DEF Web!ClearCart, Web!offline, Web!browser, Web!history, WebTypes,
       BrowserTypes
  <2>3. DraftSteps
    BY <1>0, <1>2 DEF Web!ClearCart, Web!offline, Web!browser, Web!history, WebTypes, BrowserTypes,
       DraftSteps, Web!Ordered
  <2>4. MemorySteps
    BY <1>0, <1>2 DEF Web!ClearCart, Web!offline, Web!browser, Web!history, WebTypes, BrowserTypes,
       MemorySteps, Remembered, Started, Final
  <2>5. Calm
    BY <1>0, <1>2 DEF Web!ClearCart, Web!offline, Web!browser, Web!history, WebTypes, BrowserTypes,
       TaskTypes, ScreenRec, Calm, Button, Ready, Web!Own, Web!Tasks
  <2> QED
    BY <1>0, <2>2, <2>3, <2>4, <2>5, DraftStays, MemoryStays, CalmStep DEF WebInv
<1>3. ASSUME NEW d \in Drafts, Web!Review(d) PROVE WebInv'
  <2>1. KeysGrow
    BY <1>0, <1>3 DEF Web!Review, Web!Show, Web!offline, Web!browser, Web!history, WebTypes, BrowserTypes,
       KeysGrow, Started, Web!Ordered
  <2>2. WebTypes'
    BY <1>0, <1>3, ScreenTypes, NotifyTypes, <2>1, SameTasks DEF Web!Review, Web!Show, Web!offline,
       Web!browser, Web!history, WebTypes, BrowserTypes
  <2>3. DraftSteps
    BY <1>0, <1>3, ScreenTypes, NotifyTypes DEF Web!Review, Web!Show, Web!offline, Web!browser, Web!history,
       WebTypes, BrowserTypes, DraftSteps, Web!Ordered
  <2>4. MemorySteps
    BY <1>0, <1>3, ScreenTypes, NotifyTypes DEF Web!Review, Web!Show, Web!offline, Web!browser, Web!history,
       WebTypes, BrowserTypes, MemorySteps, Remembered, Started, Final
  <2>5. Calm
    BY <1>0, <1>3, ScreenTypes, NotifyTypes DEF Web!Review, Web!Show, Web!offline, Web!browser, Web!history,
       WebTypes, BrowserTypes, TaskTypes, ScreenRec, Calm, Button, Ready, Web!Own, Web!Tasks
  <2> QED
    BY <1>0, <2>2, <2>3, <2>4, <2>5, DraftStays, MemoryStays, CalmStep DEF WebInv
<1>4. ASSUME NEW d \in Drafts, Web!Discard(d) PROVE WebInv'
  <2>1. KeysGrow
    BY <1>0, <1>4 DEF Web!Discard, Web!offline, Web!browser, Web!history, WebTypes, BrowserTypes, KeysGrow,
       Started, Web!Ordered
  <2>2. WebTypes'
    BY <1>0, <1>4, <2>1, SameTasks DEF Web!Discard, Web!offline, Web!browser, Web!history, WebTypes,
       BrowserTypes
  <2>3. DraftSteps
    BY <1>0, <1>4 DEF Web!Discard, Web!offline, Web!browser, Web!history, WebTypes, BrowserTypes,
       DraftSteps, Web!Ordered
  <2>4. MemorySteps
    BY <1>0, <1>4 DEF Web!Discard, Web!offline, Web!browser, Web!history, WebTypes, BrowserTypes,
       MemorySteps, Remembered, Started, Final
  <2>5. Calm
    BY <1>0, <1>4 DEF Web!Discard, Web!offline, Web!browser, Web!history, WebTypes, BrowserTypes, TaskTypes,
       ScreenRec, Calm, Button, Ready, Web!Own, Web!Tasks
  <2> QED
    BY <1>0, <2>2, <2>3, <2>4, <2>5, DraftStays, MemoryStays, CalmStep DEF WebInv
<1>5. ASSUME NEW d \in Drafts, Web!SaveDraft(d) PROVE WebInv'
  <2>1. KeysGrow
    BY <1>0, <1>5 DEF Web!SaveDraft, Web!offline, Web!browser, Web!history, WebTypes, BrowserTypes,
       KeysGrow, Started, Web!Ordered
  <2>2. /\ screen' = Web!Closed /\ events' = {} /\ stray' \subseteq Started
        /\ TaskTypes' /\ task'["left"].step = "idle" /\ task'["button"].step = "idle"
        /\ task'["tab"] = task["tab"]
    <3>1. stray \subseteq Started
      BY <1>0 DEF Remembered
    <3>2. Web!PageGone
      BY <1>5 DEF Web!SaveDraft
    <3> QED
      BY <1>0, <2>1, <3>1, <3>2, PageIsGone
  <2>3. WebTypes'
    BY <1>0, <1>5, ScreenTypes, <2>2 DEF Web!SaveDraft, Web!offline, Web!browser, Web!history, WebTypes,
       BrowserTypes, Started
  <2>4. DraftSteps
    BY <1>0, <1>5, ScreenTypes, <2>2 DEF Web!SaveDraft, Web!offline, Web!browser, Web!history, WebTypes,
       BrowserTypes, DraftSteps, Web!Ordered
  <2>5. MemorySteps
    BY <1>0, <1>5, ScreenTypes, <2>2 DEF Web!SaveDraft, Web!offline, Web!browser, Web!history, WebTypes,
       BrowserTypes, MemorySteps, Remembered, Started, Final
  <2>6. Calm
    BY <1>0, <1>5, ScreenTypes, <2>2 DEF Web!SaveDraft, Web!offline, Web!browser, Web!history, WebTypes,
       BrowserTypes, Calm, Button, Ready, Web!Own, Web!Tasks
  <2> QED
    BY <1>0, <2>3, <2>4, <2>5, <2>6, DraftStays, MemoryStays, CalmStep DEF WebInv
<1>6. CASE Web!Reload
  <2>1. KeysGrow
    BY <1>0, <1>6 DEF Web!Reload, Web!offline, Web!browser, Web!history, WebTypes, BrowserTypes, KeysGrow,
       Started, Web!Ordered
  <2>2. /\ screen' = Web!Closed /\ events' = {} /\ stray' \subseteq Started
        /\ TaskTypes' /\ task'["left"].step = "idle" /\ task'["button"].step = "idle"
        /\ task'["tab"] = task["tab"]
    <3>1. stray \subseteq Started
      BY <1>0 DEF Remembered
    <3>2. Web!PageGone
      BY <1>6 DEF Web!Reload
    <3> QED
      BY <1>0, <2>1, <3>1, <3>2, PageIsGone
  <2>3. WebTypes'
    BY <1>0, <1>6, ScreenTypes, <2>2 DEF Web!Reload, Web!offline, Web!browser, Web!history, WebTypes,
       BrowserTypes, Started
  <2>4. DraftSteps
    BY <1>0, <1>6, ScreenTypes, <2>2 DEF Web!Reload, Web!offline, Web!browser, Web!history, WebTypes,
       BrowserTypes, DraftSteps, Web!Ordered
  <2>5. MemorySteps
    BY <1>0, <1>6, ScreenTypes, <2>2 DEF Web!Reload, Web!offline, Web!browser, Web!history, WebTypes,
       BrowserTypes, MemorySteps, Remembered, Started, Final
  <2>6. Calm
    BY <1>0, <1>6, ScreenTypes, <2>2 DEF Web!Reload, Web!offline, Web!browser, Web!history, WebTypes,
       BrowserTypes, Calm, Button, Ready, Web!Own, Web!Tasks
  <2> QED
    BY <1>0, <2>3, <2>4, <2>5, <2>6, DraftStays, MemoryStays, CalmStep DEF WebInv
<1> QED
  BY <1>1, <1>2, <1>3, <1>4, <1>5, <1>6

\* A screen that is left hands over what it has started.
LEMMA LeaveTasks ==
  ASSUME TaskTypes, KeysGrow, Web!Leave
  PROVE  /\ TaskTypes' /\ task'["left"] = task["button"] /\ task'["button"].step = "idle"
         /\ task'["tab"] = task["tab"] /\ screen' = Web!Closed /\ events' = {}
         /\ crossed' = (crossed \/ task["button"].step # "idle") /\ UNCHANGED <<refused, dropped>>
<1>1. PICK x \in WebTask : x = task["button"] /\ Fits(x)
  BY DEF TaskTypes, Web!Tasks
<1>2. Fits(x)'
  BY <1>1, FitsLater
<1>3. task' = [[task EXCEPT !["left"] = x] EXCEPT !["button"] = Web!Idle]
  BY <1>1 DEF Web!Leave
<1>4. task'["left"] = x /\ task'["button"] = Web!Idle /\ task'["tab"] = task["tab"] /\ task'["recovery"] = task["recovery"]
  BY <1>3 DEF TaskTypes, Web!Tasks
<1>5. PICK y \in WebTask, z \in WebTask : y = task["tab"] /\ z = task["recovery"] /\ Fits(y) /\ Fits(z)
  BY DEF TaskTypes, Web!Tasks
<1>6. Fits(y)' /\ Fits(z)'
  BY <1>5, FitsLater
<1>7. \A t \in Web!Tasks : Fits(task[t])'
  BY <1>2, <1>4, <1>5, <1>6, IdleTask DEF Web!Tasks, Fits
<1>8. task' \in [Web!Tasks -> WebTask] /\ task'["recovery"].step \notin {"look", "sync"}
  BY <1>3, <1>4, IdleTask DEF TaskTypes, Web!Tasks
<1> QED
  BY <1>1, <1>4, <1>7, <1>8, IdleTask DEF TaskTypes, Web!Leave, Web!Show, Web!At

\* The customer opens, uses and leaves the screen, and is shown an order.
LEMMA CustomerKeeps ==
  ASSUME WebInv,
         \/ Web!OpenCheckout \/ Web!LeaveCheckout \/ Web!Continue \/ Web!Change \/ Web!Paid
         \/ \E m \in {"auto", "manual"} : Web!Select(m) \/ Web!Preselect(m)
         \/ \E k \in Web!Keys : Web!OrderShown(k) \/ Web!OrderEnded(k)
  PROVE  WebInv'
<1>0. WebTypes /\ Web!DraftKept /\ Remembered /\ (crossed \/ (OneAtATime /\ Reviewed))
  BY DEF WebInv
<1>1. CASE Web!OpenCheckout
  <2>1. KeysGrow
    BY <1>0, <1>1 DEF Web!OpenCheckout, Web!Show, Web!offline, Web!browser, Web!history, WebTypes,
       BrowserTypes, KeysGrow, Started, Web!Ordered
  <2>2. WebTypes'
    BY <1>0, <1>1, ScreenTypes, NotifyTypes, <2>1, SameTasks DEF Web!OpenCheckout, Web!Show, Web!offline,
       Web!browser, Web!history, WebTypes, BrowserTypes
  <2>3. DraftSteps
    BY <1>0, <1>1, ScreenTypes, NotifyTypes DEF Web!OpenCheckout, Web!Show, Web!offline, Web!browser,
       Web!history, WebTypes, BrowserTypes, DraftSteps, Web!Ordered
  <2>4. MemorySteps
    BY <1>0, <1>1, ScreenTypes, NotifyTypes DEF Web!OpenCheckout, Web!Show, Web!offline, Web!browser,
       Web!history, WebTypes, BrowserTypes, MemorySteps, Remembered, Started, Final
  <2>5. Calm
    BY <1>0, <1>1, ScreenTypes, NotifyTypes DEF Web!OpenCheckout, Web!Show, Web!offline, Web!browser,
       Web!history, WebTypes, BrowserTypes, TaskTypes, ScreenRec, Calm, Button, Ready, Web!Own, Web!Tasks
  <2> QED
    BY <1>0, <2>2, <2>3, <2>4, <2>5, DraftStays, MemoryStays, CalmStep DEF WebInv
<1>2. CASE Web!LeaveCheckout
  <2>1. KeysGrow
    BY <1>0, <1>2 DEF Web!LeaveCheckout, Web!Show, Web!At, Web!offline, Web!browser, Web!history, WebTypes,
       BrowserTypes, KeysGrow, Started, Web!Ordered
  <2>2. /\ TaskTypes' /\ task'["left"] = task["button"] /\ task'["button"].step = "idle"
        /\ task'["tab"] = task["tab"] /\ screen' = Web!Closed /\ events' = {}
        /\ crossed' = (crossed \/ task["button"].step # "idle") /\ UNCHANGED <<refused, dropped>>
    BY <1>0, <1>2, <2>1, LeaveTasks DEF Web!LeaveCheckout, WebTypes
  <2>3. WebTypes'
    BY <1>0, <1>2, ScreenTypes, <2>2 DEF Web!LeaveCheckout, Web!offline, Web!browser, WebTypes, BrowserTypes
  <2>4. DraftSteps
    BY <1>0, <1>2, <2>2 DEF Web!LeaveCheckout, Web!offline, Web!browser, WebTypes, BrowserTypes, DraftSteps, Web!Ordered
  <2>5. MemorySteps
    BY <1>0, <1>2, ScreenTypes, <2>2 DEF Web!LeaveCheckout, Web!offline, Web!browser, WebTypes, BrowserTypes,
       ScreenRec, Maybe, MemorySteps, Remembered, Started, Final
  <2>6. Calm
    BY <1>0, <1>2, ScreenTypes, <2>2 DEF Web!LeaveCheckout, Web!offline, Web!browser, WebTypes, BrowserTypes,
       Calm, Button, Ready, Web!Own, Web!Tasks
  <2> QED
    BY <1>0, <2>3, <2>4, <2>5, <2>6, DraftStays, MemoryStays, CalmStep DEF WebInv
<1>3. CASE Web!Continue
  <2>1. KeysGrow
    BY <1>0, <1>3 DEF Web!Continue, Web!Show, Web!offline, Web!browser, Web!history, WebTypes, BrowserTypes,
       KeysGrow, Started, Web!Ordered
  <2>2. WebTypes'
    BY <1>0, <1>3, <2>1, SameTasks DEF Web!Continue, Web!Show, Web!offline, Web!browser, Web!history,
       WebTypes, BrowserTypes, ScreenRec, Maybe
  <2>3. DraftSteps
    BY <1>0, <1>3 DEF Web!Continue, Web!Show, Web!offline, Web!browser, Web!history, WebTypes, BrowserTypes,
       DraftSteps, Web!Ordered
  <2>4. MemorySteps
    BY <1>0, <1>3 DEF Web!Continue, Web!Show, Web!offline, Web!browser, Web!history, WebTypes, BrowserTypes,
       MemorySteps, Remembered, Started, Final
  <2>5. Calm
    BY <1>0, <1>3 DEF Web!Continue, Web!Show, Web!offline, Web!browser, Web!history, WebTypes, BrowserTypes,
       TaskTypes, ScreenRec, Calm, Button, Ready, Web!Own, Web!Tasks
  <2> QED
    BY <1>0, <2>2, <2>3, <2>4, <2>5, DraftStays, MemoryStays, CalmStep DEF WebInv
<1>4. CASE Web!Change
  <2>1. KeysGrow
    BY <1>0, <1>4 DEF Web!Change, Web!Show, Web!offline, Web!browser, Web!history, WebTypes, BrowserTypes,
       KeysGrow, Started, Web!Ordered
  <2>2. WebTypes'
    BY <1>0, <1>4, <2>1, SameTasks DEF Web!Change, Web!Show, Web!offline, Web!browser, Web!history,
       WebTypes, BrowserTypes, ScreenRec, Maybe
  <2>3. DraftSteps
    BY <1>0, <1>4 DEF Web!Change, Web!Show, Web!offline, Web!browser, Web!history, WebTypes, BrowserTypes,
       DraftSteps, Web!Ordered
  <2>4. MemorySteps
    BY <1>0, <1>4 DEF Web!Change, Web!Show, Web!offline, Web!browser, Web!history, WebTypes, BrowserTypes,
       MemorySteps, Remembered, Started, Final
  <2>5. Calm
    BY <1>0, <1>4 DEF Web!Change, Web!Show, Web!offline, Web!browser, Web!history, WebTypes, BrowserTypes,
       TaskTypes, ScreenRec, Calm, Button, Ready, Web!Own, Web!Tasks
  <2> QED
    BY <1>0, <2>2, <2>3, <2>4, <2>5, DraftStays, MemoryStays, CalmStep DEF WebInv
<1>5. ASSUME NEW m \in {"auto", "manual"}, Web!Select(m) PROVE WebInv'
  <2>1. KeysGrow
    BY <1>0, <1>5 DEF Web!Select, Web!Show, Web!offline, Web!browser, Web!history, WebTypes, BrowserTypes,
       KeysGrow, Started, Web!Ordered
  <2>2. WebTypes'
    BY <1>0, <1>5, <2>1, SameTasks DEF Web!Select, Web!Show, Web!offline, Web!browser, Web!history,
       WebTypes, BrowserTypes, ScreenRec, Maybe
  <2>3. DraftSteps
    BY <1>0, <1>5 DEF Web!Select, Web!Show, Web!offline, Web!browser, Web!history, WebTypes, BrowserTypes,
       DraftSteps, Web!Ordered
  <2>4. MemorySteps
    BY <1>0, <1>5 DEF Web!Select, Web!Show, Web!offline, Web!browser, Web!history, WebTypes, BrowserTypes,
       MemorySteps, Remembered, Started, Final
  <2>5. Calm
    BY <1>0, <1>5 DEF Web!Select, Web!Show, Web!offline, Web!browser, Web!history, WebTypes, BrowserTypes,
       TaskTypes, ScreenRec, Calm, Button, Ready, Web!Own, Web!Tasks
  <2> QED
    BY <1>0, <2>2, <2>3, <2>4, <2>5, DraftStays, MemoryStays, CalmStep DEF WebInv
<1>6. ASSUME NEW m \in {"auto", "manual"}, Web!Preselect(m) PROVE WebInv'
  <2>1. KeysGrow
    BY <1>0, <1>6 DEF Web!Preselect, Web!Show, Web!offline, Web!browser, Web!history, WebTypes,
       BrowserTypes, KeysGrow, Started, Web!Ordered
  <2>2. WebTypes'
    BY <1>0, <1>6, <2>1, SameTasks DEF Web!Preselect, Web!Show, Web!offline, Web!browser, Web!history,
       WebTypes, BrowserTypes, ScreenRec, Maybe
  <2>3. DraftSteps
    BY <1>0, <1>6 DEF Web!Preselect, Web!Show, Web!offline, Web!browser, Web!history, WebTypes,
       BrowserTypes, DraftSteps, Web!Ordered
  <2>4. MemorySteps
    BY <1>0, <1>6 DEF Web!Preselect, Web!Show, Web!offline, Web!browser, Web!history, WebTypes,
       BrowserTypes, MemorySteps, Remembered, Started, Final
  <2>5. Calm
    BY <1>0, <1>6 DEF Web!Preselect, Web!Show, Web!offline, Web!browser, Web!history, WebTypes,
       BrowserTypes, TaskTypes, ScreenRec, Calm, Button, Ready, Web!Own, Web!Tasks
  <2> QED
    BY <1>0, <2>2, <2>3, <2>4, <2>5, DraftStays, MemoryStays, CalmStep DEF WebInv
<1>7. ASSUME NEW k \in Web!Keys, Web!OrderShown(k) PROVE WebInv'
  <2>1. KeysGrow
    BY <1>0, <1>7 DEF Web!OrderShown, Web!Show, Web!offline, Web!browser, Web!history, WebTypes,
       BrowserTypes, KeysGrow, Started, Web!Ordered
  <2>2. WebTypes'
    BY <1>0, <1>7, <2>1, SameTasks DEF Web!OrderShown, Web!Show, Web!offline, Web!browser, Web!history,
       WebTypes, BrowserTypes, ScreenRec, Maybe
  <2>3. DraftSteps
    BY <1>0, <1>7 DEF Web!OrderShown, Web!Show, Web!offline, Web!browser, Web!history, WebTypes,
       BrowserTypes, DraftSteps, Web!Ordered
  <2>4. MemorySteps
    BY <1>0, <1>7 DEF Web!OrderShown, Web!Show, Web!offline, Web!browser, Web!history, WebTypes,
       BrowserTypes, MemorySteps, Remembered, Started, Final
  <2>5. Calm
    BY <1>0, <1>7 DEF Web!OrderShown, Web!Show, Web!offline, Web!browser, Web!history, WebTypes,
       BrowserTypes, TaskTypes, ScreenRec, Calm, Button, Ready, Web!Own, Web!Tasks
  <2> QED
    BY <1>0, <2>2, <2>3, <2>4, <2>5, DraftStays, MemoryStays, CalmStep DEF WebInv
<1>8. ASSUME NEW k \in Web!Keys, Web!OrderEnded(k) PROVE WebInv'
  <2>1. KeysGrow
    BY <1>0, <1>8 DEF Web!OrderEnded, Web!Show, Web!Notify, Web!offline, Web!browser, Web!history, WebTypes,
       BrowserTypes, KeysGrow, Started, Web!Ordered
  <2>2. WebTypes'
    BY <1>0, <1>8, <2>1, SameTasks DEF Web!OrderEnded, Web!Show, Web!Notify, Web!offline, Web!browser,
       Web!history, WebTypes, BrowserTypes, ScreenRec, Maybe
  <2>3. DraftSteps
    BY <1>0, <1>8 DEF Web!OrderEnded, Web!Show, Web!Notify, Web!offline, Web!browser, Web!history, WebTypes,
       BrowserTypes, DraftSteps, Web!Ordered
  <2>4. MemorySteps
    BY <1>0, <1>8 DEF Web!OrderEnded, Web!Show, Web!Notify, Web!offline, Web!browser, Web!history, WebTypes,
       BrowserTypes, MemorySteps, Remembered, Started, Final
  <2>5. Calm
    BY <1>0, <1>8 DEF Web!OrderEnded, Web!Show, Web!Notify, Web!offline, Web!browser, Web!history, WebTypes,
       BrowserTypes, TaskTypes, ScreenRec, Calm, Button, Ready, Web!Own, Web!Tasks
  <2> QED
    BY <1>0, <2>2, <2>3, <2>4, <2>5, DraftStays, MemoryStays, CalmStep DEF WebInv
<1>9. CASE Web!Paid
  <2>1. KeysGrow
    BY <1>0, <1>9 DEF Web!Paid, WebTypes, BrowserTypes, ScreenRec, Maybe, KeysGrow, Started, Web!Ordered
  <2>2. /\ TaskTypes' /\ task'["left"] = task["button"] /\ task'["button"].step = "idle"
        /\ task'["tab"] = task["tab"] /\ screen' = Web!Closed /\ events' = {}
        /\ crossed' = (crossed \/ task["button"].step # "idle") /\ UNCHANGED <<refused, dropped>>
    BY <1>0, <1>9, <2>1, LeaveTasks DEF Web!Paid, WebTypes
  <2>3. WebTypes'
    BY <1>0, <1>9, ScreenTypes, <2>2 DEF Web!Paid, Web!offline, Web!browser, Web!RemoveAttempt, WebTypes, BrowserTypes
  <2>4. DraftSteps
    BY <1>0, <1>9, <2>2 DEF Web!Paid, Web!offline, Web!browser, Web!RemoveAttempt, WebTypes, BrowserTypes, DraftSteps, Web!Ordered
  <2>5. MemorySteps
    BY <1>0, <1>9, ScreenTypes, <2>2 DEF Web!Paid, Web!offline, Web!browser, Web!RemoveAttempt, WebTypes, BrowserTypes,
       ScreenRec, Maybe, MemorySteps, Remembered, Started, Final
  <2>6. Calm
    BY <1>0, <1>9, ScreenTypes, <2>2 DEF Web!Paid, Web!offline, Web!browser, Web!RemoveAttempt, WebTypes, BrowserTypes,
       Calm, Button, Ready, Web!Own, Web!Tasks
  <2> QED
    BY <1>0, <2>3, <2>4, <2>5, <2>6, DraftStays, MemoryStays, CalmStep DEF WebInv
<1> QED
  BY <1>1, <1>2, <1>3, <1>4, <1>5, <1>6, <1>7, <1>8, <1>9

\* The server decides late, an order ends, and the recovery goes through what is remembered.
LEMMA RecoveryKeeps ==
  ASSUME WebInv,
         \/ Web!StartRecovery \/ Web!EndRecovery \/ Web!NotFound \/ Web!FoundBought \/ Web!FoundRejected \/ Web!NoAnswer
         \/ \E k \in Web!Keys : Web!LateRequest(k) \/ Web!OrderEnds(k) \/ Web!AskFor(k)
  PROVE  WebInv'
<1>0. WebTypes /\ Web!DraftKept /\ Remembered /\ (crossed \/ (OneAtATime /\ Reviewed))
  BY DEF WebInv
<1>1. ASSUME NEW k \in Web!Keys, Web!LateRequest(k) PROVE WebInv'
  <2>1. KeysGrow
    BY <1>0, <1>1 DEF Web!LateRequest, Web!Decide, Web!Refuse, Web!offline, Web!browser, Web!history,
       WebTypes, BrowserTypes, KeysGrow, Started, Web!Ordered
  <2>2. WebTypes'
    BY <1>0, <1>1, <2>1, SameTasks DEF Web!LateRequest, Web!Decide, Web!Refuse, Web!offline, Web!browser,
       Web!history, WebTypes, BrowserTypes
  <2>3. DraftSteps
    BY <1>0, <1>1 DEF Web!LateRequest, Web!Decide, Web!Refuse, Web!offline, Web!browser, Web!history,
       WebTypes, BrowserTypes, DraftSteps, Web!Ordered
  <2>4. MemorySteps
    BY <1>0, <1>1 DEF Web!LateRequest, Web!Decide, Web!Refuse, Web!offline, Web!browser, Web!history,
       WebTypes, BrowserTypes, MemorySteps, Remembered, Started, Final
  <2>5. Calm
    BY <1>0, <1>1 DEF Web!LateRequest, Web!Decide, Web!Refuse, Web!offline, Web!browser, Web!history,
       WebTypes, BrowserTypes, TaskTypes, ScreenRec, Calm, Button, Ready, Web!Own, Web!Tasks
  <2> QED
    BY <1>0, <2>2, <2>3, <2>4, <2>5, DraftStays, MemoryStays, CalmStep DEF WebInv
<1>2. ASSUME NEW k \in Web!Keys, Web!OrderEnds(k) PROVE WebInv'
  <2>1. KeysGrow
    BY <1>0, <1>2 DEF Web!OrderEnds, Web!offline, Web!browser, Web!history, WebTypes, BrowserTypes,
       KeysGrow, Started, Web!Ordered
  <2>2. WebTypes'
    BY <1>0, <1>2, <2>1, SameTasks DEF Web!OrderEnds, Web!offline, Web!browser, Web!history, WebTypes,
       BrowserTypes
  <2>3. DraftSteps
    BY <1>0, <1>2 DEF Web!OrderEnds, Web!offline, Web!browser, Web!history, WebTypes, BrowserTypes,
       DraftSteps, Web!Ordered
  <2>4. MemorySteps
    BY <1>0, <1>2 DEF Web!OrderEnds, Web!offline, Web!browser, Web!history, WebTypes, BrowserTypes,
       MemorySteps, Remembered, Started, Final
  <2>5. Calm
    BY <1>0, <1>2 DEF Web!OrderEnds, Web!offline, Web!browser, Web!history, WebTypes, BrowserTypes,
       TaskTypes, ScreenRec, Calm, Button, Ready, Web!Own, Web!Tasks
  <2> QED
    BY <1>0, <2>2, <2>3, <2>4, <2>5, DraftStays, MemoryStays, CalmStep DEF WebInv
<1>3. CASE Web!StartRecovery
  <2>1. KeysGrow
    BY <1>0, <1>3 DEF Web!StartRecovery, Web!offline, Web!browser, Web!history, WebTypes, BrowserTypes,
       KeysGrow, Started, Web!Ordered
  <2>2. TaskTypes' /\ task'["left"] = task["left"] /\ task'["tab"] = task["tab"] /\ Button' = Button
    <3>1. PICK x \in WebTask : x = [step |-> "next", key |-> None, list |-> Web!Unresolved]
      BY DEF WebTask, WebSteps, Maybe, Web!Unresolved
    <3>2. x.step = "next" /\ Fits(x)'
      <4>1. Web!Unresolved \subseteq Started
        BY <1>0 DEF Web!Unresolved, Remembered
      <4> QED
        BY <2>1, <3>1, <4>1 DEF Fits, KeysGrow
    <3> QED
      BY <1>0, <2>1, <1>3, <3>1, <3>2, TaskMoves DEF Web!StartRecovery, WebTypes, Button, Web!Tasks
  <2>3. WebTypes'
    BY <1>0, <1>3, <2>2 DEF Web!StartRecovery, Web!offline, Web!browser, Web!history, WebTypes, BrowserTypes
  <2>4. DraftSteps
    BY <1>0, <1>3, <2>2 DEF Web!StartRecovery, Web!offline, Web!browser, Web!history, WebTypes,
       BrowserTypes, DraftSteps, Web!Ordered
  <2>5. MemorySteps
    BY <1>0, <1>3, <2>2 DEF Web!StartRecovery, Web!offline, Web!browser, Web!history, WebTypes,
       BrowserTypes, MemorySteps, Remembered, Started, Final
  <2>6. Calm
    BY <1>0, <1>3, <2>2 DEF Web!StartRecovery, Web!offline, Web!browser, Web!history, WebTypes,
       BrowserTypes, Calm, Button, Ready, Web!Own, Web!Tasks
  <2> QED
    BY <1>0, <2>3, <2>4, <2>5, <2>6, DraftStays, MemoryStays, CalmStep DEF WebInv
<1>4. CASE Web!EndRecovery
  <2>1. KeysGrow
    BY <1>0, <1>4 DEF Web!EndRecovery, Web!Notify, Web!offline, Web!browser, Web!history, WebTypes,
       BrowserTypes, KeysGrow, Started, Web!Ordered
  <2>2. TaskTypes' /\ task'["left"] = task["left"] /\ task'["tab"] = task["tab"] /\ Button' = Button
    BY <1>0, <2>1, <1>4, IdleTask, TaskMoves DEF Web!EndRecovery, WebTypes, Button, Web!Tasks
  <2>3. WebTypes'
    BY <1>0, <1>4, <2>2 DEF Web!EndRecovery, Web!Notify, Web!offline, Web!browser, Web!history, WebTypes,
       BrowserTypes
  <2>4. DraftSteps
    BY <1>0, <1>4, <2>2 DEF Web!EndRecovery, Web!Notify, Web!offline, Web!browser, Web!history, WebTypes,
       BrowserTypes, DraftSteps, Web!Ordered
  <2>5. MemorySteps
    BY <1>0, <1>4, <2>2 DEF Web!EndRecovery, Web!Notify, Web!offline, Web!browser, Web!history, WebTypes,
       BrowserTypes, MemorySteps, Remembered, Started, Final
  <2>6. Calm
    BY <1>0, <1>4, <2>2 DEF Web!EndRecovery, Web!Notify, Web!offline, Web!browser, Web!history, WebTypes,
       BrowserTypes, Calm, Button, Ready, Web!Own, Web!Tasks
  <2> QED
    BY <1>0, <2>3, <2>4, <2>5, <2>6, DraftStays, MemoryStays, CalmStep DEF WebInv
<1>5. ASSUME NEW k \in Web!Keys, Web!AskFor(k) PROVE WebInv'
  <2>1. KeysGrow
    BY <1>0, <1>5 DEF Web!AskFor, Web!offline, Web!browser, Web!history, WebTypes, BrowserTypes, KeysGrow,
       Started, Web!Ordered
  <2>2. TaskTypes' /\ task'["left"] = task["left"] /\ task'["tab"] = task["tab"] /\ Button' = Button
    <3>0. {j \in task["recovery"].list : j < k} \in SUBSET Web!Keys
      BY <1>0 DEF WebTypes, TaskTypes, WebTask, Web!Tasks
    <3>1. PICK x \in WebTask : x = [step |-> "ask", key |-> k, list |-> {j \in task["recovery"].list : j < k}]
      BY <3>0 DEF WebTask, WebSteps, Maybe
    <3>3. x.step = "ask" /\ Fits(x)'
      <4>1. k \in task["recovery"].list /\ task["recovery"].list \subseteq Started
        BY <1>0, <1>5 DEF Web!AskFor, WebTypes, TaskTypes, Fits, Web!Tasks
      <4> QED
        BY <2>1, <3>1, <4>1 DEF Fits, KeysGrow
    <3>2. task' = [task EXCEPT !["recovery"] = x]
      BY <1>5, <3>1 DEF Web!AskFor
    <3> QED
      BY <1>0, <2>1, <3>2, <3>3, TaskMoves DEF WebTypes, Button, Web!Tasks
  <2>3. WebTypes'
    BY <1>0, <1>5, <2>2 DEF Web!AskFor, Web!offline, Web!browser, Web!history, WebTypes, BrowserTypes
  <2>4. DraftSteps
    BY <1>0, <1>5, <2>2 DEF Web!AskFor, Web!offline, Web!browser, Web!history, WebTypes, BrowserTypes,
       DraftSteps, Web!Ordered
  <2>5. MemorySteps
    BY <1>0, <1>5, <2>2 DEF Web!AskFor, Web!offline, Web!browser, Web!history, WebTypes, BrowserTypes,
       MemorySteps, Remembered, Started, Final
  <2>6. Calm
    BY SMTT(60), <1>0, <1>5, <2>2 DEF Web!AskFor, Web!offline, Web!browser, Web!history, WebTypes,
       BrowserTypes, Calm, Button, Ready, Web!Own, Web!Tasks
  <2> QED
    BY <1>0, <2>3, <2>4, <2>5, <2>6, DraftStays, MemoryStays, CalmStep DEF WebInv
<1>6. CASE Web!NotFound
  <2>1. KeysGrow
    BY <1>0, <1>6 DEF Web!NotFound, Web!offline, Web!browser, Web!history, WebTypes, BrowserTypes, KeysGrow,
       Started, Web!Ordered
  <2>2. TaskTypes' /\ task'["left"] = task["left"] /\ task'["tab"] = task["tab"] /\ Button' = Button
    BY <1>0, <2>1, <1>6, TaskGoes DEF Web!NotFound, Web!At, KeysGrow, Fits, WebTypes, TaskTypes, WebSteps, Button, Web!Tasks
  <2>3. WebTypes'
    BY <1>0, <1>6, <2>2 DEF Web!NotFound, Web!offline, Web!browser, Web!history, WebTypes, BrowserTypes
  <2>4. DraftSteps
    BY <1>0, <1>6, <2>2 DEF Web!NotFound, Web!offline, Web!browser, Web!history, WebTypes, BrowserTypes,
       DraftSteps, Web!Ordered
  <2>5. MemorySteps
    BY <1>0, <1>6, <2>2 DEF Web!NotFound, Web!offline, Web!browser, Web!history, WebTypes, BrowserTypes,
       MemorySteps, Remembered, Started, Final
  <2>6. Calm
    BY <1>0, <1>6, <2>2 DEF Web!NotFound, Web!offline, Web!browser, Web!history, WebTypes, BrowserTypes,
       Calm, Button, Ready, Web!Own, Web!Tasks
  <2> QED
    BY <1>0, <2>3, <2>4, <2>5, <2>6, DraftStays, MemoryStays, CalmStep DEF WebInv
<1>7. CASE Web!FoundBought
  <2>1. KeysGrow
    BY <1>0, <1>7 DEF Web!FoundBought, Web!Patch, Web!Notify, Web!offline, Web!browser,
       Web!history, WebTypes, BrowserTypes, KeysGrow, Started, Web!Ordered
  <2>2. /\ TaskTypes' /\ task'["left"] = task["left"] /\ task'["tab"] = task["tab"] /\ Button' = Button
        /\ task["recovery"].key \in Web!Keys
    <3>1. PICK k \in Started : k = task["recovery"].key /\ Web!Ordered(k)
      BY <1>0, <1>7 DEF Web!FoundBought, Web!At, WebTypes, TaskTypes, Fits, Web!Tasks
    <3>2. Web!Ordered(k)'
      BY <2>1, <3>1 DEF KeysGrow, Started
    <3>3. task["recovery"].step = "ask" /\ Web!Go("recovery", "bought")
      BY <1>7 DEF Web!FoundBought, Web!At
    <3> QED
      BY <1>0, <2>1, <3>1, <3>2, <3>3, TaskGoes DEF WebTypes, WebSteps, Started, Button, Web!Tasks
  <2>3. WebTypes'
    BY <1>0, <1>7, <2>2 DEF Web!FoundBought, Web!Patch, Web!Notify, Web!offline,
       Web!browser, Web!history, WebTypes, BrowserTypes
  <2>4. DraftSteps
    BY <1>0, <1>7, <2>2 DEF Web!FoundBought, Web!Patch, Web!Notify, Web!offline,
       Web!browser, Web!history, WebTypes, BrowserTypes, DraftSteps, Web!Ordered
  <2>5. MemorySteps
    BY <1>0, <1>7, <2>2 DEF Web!FoundBought, Web!Patch, Web!Notify, Web!offline,
       Web!browser, Web!history, WebTypes, BrowserTypes, MemorySteps, Remembered, Started, Final
  <2>6. Calm
    BY <1>0, <1>7, <2>2 DEF Web!FoundBought, Web!Patch, Web!Notify, Web!offline,
       Web!browser, Web!history, WebTypes, BrowserTypes, Calm, Button, Ready, Web!Own, Web!Tasks
  <2> QED
    BY <1>0, <2>3, <2>4, <2>5, <2>6, DraftStays, MemoryStays, CalmStep DEF WebInv
<1>8. CASE Web!FoundRejected
  <2>1. KeysGrow
    BY <1>0, <1>8 DEF Web!FoundRejected, Web!RemoveAttempt, Web!Notify, Web!offline, Web!browser,
       Web!history, WebTypes, BrowserTypes, KeysGrow, Started, Web!Ordered
  <2>2. /\ TaskTypes' /\ task'["left"] = task["left"] /\ task'["tab"] = task["tab"] /\ Button' = Button
        /\ task["recovery"].key \in Web!Keys
    BY <1>0, <2>1, <1>8, TaskDone DEF Web!FoundRejected, Web!At, WebTypes, TaskTypes, Fits, Started, WebSteps, Button, Web!Tasks
  <2>3. WebTypes'
    BY <1>0, <1>8, <2>2 DEF Web!FoundRejected, Web!RemoveAttempt, Web!Notify, Web!offline, Web!browser,
       Web!history, WebTypes, BrowserTypes
  <2>4. DraftSteps
    BY <1>0, <1>8, <2>2 DEF Web!FoundRejected, Web!RemoveAttempt, Web!Notify, Web!offline, Web!browser,
       Web!history, WebTypes, BrowserTypes, DraftSteps, Web!Ordered
  <2>5. MemorySteps
    BY <1>0, <1>8, <2>2 DEF Web!FoundRejected, Web!RemoveAttempt, Web!Notify, Web!offline, Web!browser,
       Web!history, WebTypes, BrowserTypes, MemorySteps, Remembered, Started, Final
  <2>6. Calm
    BY <1>0, <1>8, <2>2 DEF Web!FoundRejected, Web!RemoveAttempt, Web!Notify, Web!offline, Web!browser,
       Web!history, WebTypes, BrowserTypes, Calm, Button, Ready, Web!Own, Web!Tasks
  <2> QED
    BY <1>0, <2>3, <2>4, <2>5, <2>6, DraftStays, MemoryStays, CalmStep DEF WebInv
<1>9. CASE Web!NoAnswer
  <2>1. KeysGrow
    BY <1>0, <1>9 DEF Web!NoAnswer, Web!Notify, Web!offline, Web!browser, Web!history, WebTypes,
       BrowserTypes, KeysGrow, Started, Web!Ordered
  <2>2. /\ TaskTypes' /\ task'["left"] = task["left"] /\ task'["tab"] = task["tab"] /\ Button' = Button
        /\ task["recovery"].key \in Web!Keys
    BY <1>0, <2>1, <1>9, TaskDone DEF Web!NoAnswer, Web!At, WebTypes, TaskTypes, Fits, Started, WebSteps, Button, Web!Tasks
  <2>3. WebTypes'
    BY <1>0, <1>9, <2>2 DEF Web!NoAnswer, Web!Notify, Web!offline, Web!browser, Web!history, WebTypes,
       BrowserTypes
  <2>4. DraftSteps
    BY <1>0, <1>9, <2>2 DEF Web!NoAnswer, Web!Notify, Web!offline, Web!browser, Web!history, WebTypes,
       BrowserTypes, DraftSteps, Web!Ordered
  <2>5. MemorySteps
    BY <1>0, <1>9, <2>2 DEF Web!NoAnswer, Web!Notify, Web!offline, Web!browser, Web!history, WebTypes,
       BrowserTypes, MemorySteps, Remembered, Started, Final
  <2>6. Calm
    BY <1>0, <1>9, <2>2 DEF Web!NoAnswer, Web!Notify, Web!offline, Web!browser, Web!history, WebTypes,
       BrowserTypes, Calm, Button, Ready, Web!Own, Web!Tasks
  <2> QED
    BY <1>0, <2>3, <2>4, <2>5, <2>6, DraftStays, MemoryStays, CalmStep DEF WebInv
<1> QED
  BY <1>1, <1>2, <1>3, <1>4, <1>5, <1>6, <1>7, <1>8, <1>9

\* syncActiveAttempt shows the newest attempt, the only one that is kept.
LEMMA ReadKeeps == ASSUME WebInv, Web!ReadAttempts PROVE WebInv'
<1>0. WebTypes /\ Web!DraftKept /\ Remembered /\ (crossed \/ (OneAtATime /\ Reviewed))
  BY DEF WebInv
<1>1. /\ UNCHANGED <<basket, drafts, session, db, draftOf, verdict, task, stray, refused, crossed, dropped>>
      /\ events' \subseteq Web!Keys \cup {Web!Read} /\ screen' \in ScreenRec
      /\ screen'.attempt = Web!Newest /\ (Web!Newest = None => screen'.step = screen.step)
      /\ screen'.open = screen.open /\ screen'.failed = screen.failed
  <2>1. screen \in ScreenRec /\ events \subseteq Web!Keys \cup {Web!Read}
    BY <1>0 DEF WebTypes
  <2>2. CASE Web!Newest = None
    BY ZenonT(60), <2>1, <2>2 DEF Web!ReadAttempts, Web!Show, Web!offline, Web!browser, Web!history, ScreenRec,
       Maybe
  <2>3. CASE Web!Newest # None
    <3>1. Web!Newest \in Web!Keys
      BY <2>3, NewestOwn DEF Maybe
    <3>2. CASE db[Web!Newest] = "CONFIRMED"
      BY ZenonT(60), <2>1, <2>3, <3>1, <3>2 DEF Web!ReadAttempts, Web!Show, Web!offline, Web!browser,
         Web!history, ScreenRec, Maybe
    <3>3. CASE db[Web!Newest] # "CONFIRMED"
      <4>1. PICK old \in BOOLEAN :
              /\ screen' = [screen EXCEPT !.attempt = Web!Newest, !.step = 2,
                                          !.verifying = old \/ db[Web!Newest] = "IN_DOUBT"]
              /\ events' = events \ {Web!Read}
        BY ZenonT(60), <2>3, <3>3 DEF Web!ReadAttempts, Web!Show
      <4>2. ASSUME NEW b \in BOOLEAN
            PROVE  /\ [screen EXCEPT !.attempt = Web!Newest, !.step = 2, !.verifying = b] \in ScreenRec
                   /\ [screen EXCEPT !.attempt = Web!Newest, !.step = 2, !.verifying = b].attempt = Web!Newest
                   /\ [screen EXCEPT !.attempt = Web!Newest, !.step = 2, !.verifying = b].open = screen.open
                   /\ [screen EXCEPT !.attempt = Web!Newest, !.step = 2, !.verifying = b].failed = screen.failed
        BY <2>1, <3>1 DEF ScreenRec, Maybe
      <4>3. \E b \in BOOLEAN : screen' = [screen EXCEPT !.attempt = Web!Newest, !.step = 2, !.verifying = b]
        <5>1. CASE old \/ db[Web!Newest] = "IN_DOUBT"
          BY ZenonT(60), <4>1, <5>1
        <5>2. CASE ~(old \/ db[Web!Newest] = "IN_DOUBT")
          <6>1. (old \/ db[Web!Newest] = "IN_DOUBT") = FALSE
            BY <5>2
          <6> QED
            BY ZenonT(60), <4>1, <6>1
        <5> QED
          BY ZenonT(60), <5>1, <5>2
      <4> QED
        BY ZenonT(60), <2>1, <2>3, <4>1, <4>2, <4>3 DEF Web!ReadAttempts, Web!offline, Web!browser, Web!history
    <3> QED
      BY <3>2, <3>3
  <2> QED
    BY <2>2, <2>3
<1>2. KeysGrow
  BY <1>1 DEF KeysGrow, Started, Web!Ordered
<1>3. WebTypes'
  BY <1>0, <1>1, <1>2, SameTasks DEF WebTypes, BrowserTypes
<1>4. Web!DraftKept'
  BY <1>0, <1>1 DEF Web!DraftKept, Web!Ordered
<1>5. Remembered'
  BY <1>0, <1>1, NewestOwn DEF Remembered, Started, Web!Own
<1>6. crossed' \/ (OneAtATime' /\ Reviewed')
  BY <1>0, <1>1, NewestOwn DEF OneAtATime, Reviewed, Ready, Button, Web!Own
<1> QED
  BY <1>3, <1>4, <1>5, <1>6 DEF WebInv

\* ensureOrderCreated sends the attempt of the screen, or looks for one first.
LEMMA EnsureKeeps ==
  ASSUME WebInv, Web!EnsureOrderCreated, refused' => refused /\ ~screen.failed
  PROVE  WebInv'
<1>0. WebTypes /\ Web!DraftKept /\ Remembered /\ (crossed \/ (OneAtATime /\ Reviewed))
  BY DEF WebInv
<1>1. /\ UNCHANGED <<basket, drafts, session, db, draftOf, verdict, events, stray, crossed, dropped>>
      /\ screen.open /\ screen.step = 2 /\ Button.step = "idle"
      /\ screen' \in ScreenRec /\ screen'.attempt = screen.attempt
  BY <1>0 DEF Web!EnsureOrderCreated, Web!Show, Web!At, Web!offline, Web!browser, Button, WebTypes, ScreenRec
<1>2. KeysGrow
  BY <1>1 DEF KeysGrow, Started, Web!Ordered
<1>3. /\ TaskTypes' /\ task'["left"] = task["left"] /\ task'["tab"] = task["tab"]
      /\ IF screen.attempt = None THEN Button'.step = "look"
         ELSE Button'.step = "sent" /\ Button'.key = screen.attempt
  <2>1. TaskTypes /\ {"button", "left", "tab"} \subseteq Web!Tasks /\ screen.attempt \in Maybe
    BY <1>0 DEF WebTypes, ScreenRec, Web!Tasks
  <2>2. CASE screen.attempt = None
    <3>1. Web!Work("button", "look", None)
      BY <2>2 DEF Web!EnsureOrderCreated
    <3>2. "look" \in WebSteps \ {"bought"} /\ None \in Maybe
      BY DEF WebSteps, Maybe
    <3> QED
      BY <1>2, <2>1, <2>2, <3>1, <3>2, TaskWorks DEF Button
  <2>3. CASE screen.attempt # None
    <3>1. PICK k \in Maybe : k = screen.attempt
      BY <2>1
    <3>2. k \in Started'
      BY <1>0, <1>2, <2>3, <3>1 DEF Remembered, KeysGrow
    <3>3. Web!Work("button", "sent", k)
      BY <2>3, <3>1 DEF Web!EnsureOrderCreated
    <3>4. "sent" \in WebSteps \ {"bought"}
      BY DEF WebSteps
    <3> QED
      BY <1>2, <2>1, <2>3, <3>1, <3>2, <3>3, <3>4, TaskWorks DEF Button
  <2> QED
    BY <2>2, <2>3
<1>4. WebTypes'
  BY <1>0, <1>1, <1>3 DEF WebTypes, BrowserTypes
<1>5. Web!DraftKept'
  BY <1>0, <1>1 DEF Web!DraftKept, Web!Ordered
<1>6. Remembered'
  BY <1>0, <1>1 DEF Remembered, Started
<1>7. crossed' \/ (OneAtATime' /\ Reviewed')
  <2>1. ~crossed => ~refused'
    BY <1>0, <1>1 DEF Reviewed, Ready
  <2> QED
    BY <1>0, <1>1, <1>3, <2>1 DEF OneAtATime, Reviewed, Web!Own, Button
<1> QED
  BY <1>4, <1>5, <1>6, <1>7 DEF WebInv

\* A screen in another tab starts: from here on two tasks may start a purchase.
LEMMA OtherTabKeeps == ASSUME WebInv, Web!OtherTab PROVE WebInv'
<1>0. WebTypes /\ Web!DraftKept /\ Remembered
  BY DEF WebInv
<1>1. UNCHANGED <<basket, drafts, session, db, draftOf, verdict, screen, events, stray, refused, dropped>> /\ crossed'
  BY DEF Web!OtherTab, Web!offline, Web!browser
<1>2. KeysGrow
  BY <1>1 DEF KeysGrow, Started, Web!Ordered
<1>3. TaskTypes'
  <2>1. TaskTypes /\ "tab" \in Web!Tasks
    BY <1>0 DEF WebTypes, Web!Tasks
  <2>2. CASE Web!Work("tab", "look", None)
    BY <1>2, <2>1, <2>2, TaskWorks DEF WebSteps, Maybe
  <2>3. ASSUME NEW k \in Web!Keys \ Web!Unused, Web!Work("tab", "sent", k) PROVE TaskTypes'
    <3>1. k \in Started'
      BY <1>2 DEF KeysGrow, Started, Web!Unused
    <3> QED
      BY <1>2, <2>1, <2>3, <3>1, TaskWorks DEF WebSteps, Maybe
  <2> QED
    BY <2>2, <2>3 DEF Web!OtherTab
<1>4. WebTypes'
  BY <1>0, <1>1, <1>3 DEF WebTypes, BrowserTypes
<1>5. Web!DraftKept' /\ Remembered'
  BY <1>0, <1>1 DEF Web!DraftKept, Web!Ordered, Remembered, Started
<1> QED
  BY <1>1, <1>4, <1>5 DEF WebInv

\* A task looks for an attempt before it starts one: only the screen that is
\* mounted, as long as none was left while it started a purchase.
LEMMA LookKeeps == ASSUME WebInv, NEW t \in Web!Tasks, Web!Look(t) PROVE WebInv'
<1>0. WebTypes /\ Web!DraftKept /\ Remembered /\ (crossed \/ (OneAtATime /\ Reviewed))
  BY DEF WebInv
<1>1. /\ UNCHANGED <<basket, drafts, session, db, draftOf, verdict, screen, events, stray, refused, crossed, dropped>>
      /\ task[t].step = "look" /\ t # "recovery" /\ (t # "button" => t \in {"left", "tab"})
  BY <1>0 DEF Web!Look, Web!At, Web!offline, Web!browser, Web!history, WebTypes, TaskTypes, Web!Tasks
<1>2. KeysGrow
  BY <1>1 DEF KeysGrow, Started, Web!Ordered
<1>3. /\ TaskTypes' /\ \A u \in Web!Tasks : u # t => task'[u] = task[u]
      /\ IF Web!Newest = None THEN task'[t].step = "sync"
         ELSE task'[t].step = "sent" /\ task'[t].key = Web!Newest
  <2>1. TaskTypes
    BY <1>0 DEF WebTypes
  <2>2. CASE Web!Newest = None
    BY <1>1, <1>2, <2>1, <2>2, TaskGoes DEF Web!Look, WebSteps
  <2>3. CASE Web!Newest # None
    <3>1. Web!Newest \in Started'
      BY <1>0, <1>2, <2>3, NewestOwn DEF Remembered, KeysGrow, Web!Own
    <3> QED
      BY <1>1, <1>2, <2>1, <2>3, <3>1, TaskWorks, NewestOwn DEF Web!Look, WebSteps, Maybe
  <2> QED
    BY <2>2, <2>3
<1>4. WebTypes'
  BY <1>0, <1>1, <1>3 DEF WebTypes, BrowserTypes
<1>5. Web!DraftKept' /\ Remembered'
  BY <1>0, <1>1 DEF Web!DraftKept, Web!Ordered, Remembered, Started
<1>6. Web!Newest = None => Web!Own = {}
  BY NewestOwn DEF Web!Own, Web!Keys
<1>7. crossed' \/ (OneAtATime' /\ Reviewed')
  <2>1. CASE t = "button"
    BY <1>0, <1>1, <1>3, <1>6, <2>1, NewestOwn DEF OneAtATime, Reviewed, Ready, Web!Own, Button, Web!Tasks
  <2>2. CASE t \in {"left", "tab"}
    BY <1>0, <1>1, <2>2 DEF OneAtATime
  <2> QED
    BY <1>1, <2>1, <2>2
<1> QED
  BY <1>4, <1>5, <1>7 DEF WebInv

\* startCheckout keeps the attempt it starts before it is sent.
LEMMA SyncKeeps == ASSUME WebInv, NEW t \in Web!Tasks, Web!SyncCart(t) PROVE WebInv'
<1>0. WebTypes /\ Web!DraftKept /\ Remembered /\ (crossed \/ (OneAtATime /\ Reviewed))
  BY DEF WebInv
<1> DEFINE k == Web!NextKey
<1>1. k \in Web!Keys /\ draftOf[k] = "unused"
  BY FirstUnused DEF Web!SyncCart, Web!Unused
<1> HIDE DEF k
<1>2. /\ UNCHANGED <<basket, drafts, session, verdict, screen, stray, refused, crossed, dropped>>
      /\ db' = [db EXCEPT ![k] = "SENDING"]
      /\ Web!Tell(t) /\ Web!Work(t, "sent", k)
      /\ task[t].step = "sync" /\ t # "recovery" /\ (t # "button" => t \in {"left", "tab"})
  BY <1>0 DEF Web!SyncCart, Web!At, Web!offline, Web!history, WebTypes, TaskTypes, Web!Tasks, k
<1>3. PICK d \in Drafts \cup {None} : draftOf' = [draftOf EXCEPT ![k] = d]
  BY <1>0 DEF Web!SyncCart, Web!InView, WebTypes, BrowserTypes, k
<1>4. /\ Started' = Started \cup {k} /\ \A j \in Web!Keys : j # k => draftOf'[j] = draftOf[j]
  <2>1. d # "unused" /\ draftOf'[k] = d /\ \A j \in Web!Keys : j # k => draftOf'[j] = draftOf[j]
    BY <1>0, <1>1, <1>3 DEF WebTypes, BrowserTypes
  <2> QED
    BY <1>1, <2>1 DEF Started
<1>5. KeysGrow
  BY <1>2, <1>4 DEF KeysGrow, Web!Ordered
<1>6. /\ TaskTypes' /\ \A u \in Web!Tasks : u # t => task'[u] = task[u]
      /\ task'[t].step = "sent" /\ task'[t].key = k
  BY <1>0, <1>1, <1>2, <1>4, <1>5, TaskWorks DEF WebTypes, WebSteps, Maybe
<1>7. WebTypes'
  <2>1. BrowserTypes'
    BY <1>0, <1>1, <1>2, <1>3 DEF WebTypes, BrowserTypes
  <2> QED
    BY <1>0, <1>2, <1>6, <2>1, TellTypes DEF WebTypes
<1>8. DraftSteps
  BY <1>0, <1>1, <1>2, <1>4 DEF DraftSteps, Web!Ordered, WebTypes, BrowserTypes
<1>9. Remembered'
  <2>1. db'[k] = "SENDING" /\ \A j \in Web!Keys : j # k => db'[j] = db[j]
    BY <1>0, <1>1, <1>2 DEF WebTypes, BrowserTypes
  <2> QED
    BY <1>0, <1>1, <1>2, <1>4, <2>1 DEF Remembered
<1>10. crossed' \/ (OneAtATime' /\ Reviewed')
  <2>1. CASE t = "button"
    <3>1. ~crossed => Web!Own' = {k} /\ Web!Own = {}
      BY <1>0, <1>1, <1>2, <2>1 DEF OneAtATime, Button, Web!Own, WebTypes, BrowserTypes
    <3> QED
      BY <1>0, <1>2, <1>6, <2>1, <3>1 DEF OneAtATime, Reviewed, Ready, Button, Web!Tasks
  <2>2. CASE t \in {"left", "tab"}
    BY <1>0, <1>2, <2>2 DEF OneAtATime
  <2> QED
    BY <1>2, <2>1, <2>2
<1> QED
  BY <1>0, <1>7, <1>8, <1>9, <1>10, DraftStays DEF WebInv

\* A task has its result: the screen that is mounted shows that of its own task.
TaskResult(t) ==
  /\ Web!Own' \subseteq Web!Own /\ crossed' = crossed
  /\ \A u \in Web!Tasks : u # t => task'[u] = task[u]
  /\ t # "recovery" => task'[t].step = "idle"
  /\ t # "button" => screen' = screen /\ (refused' => refused)
  /\ t = "button" /\ ~crossed =>
       /\ screen'.attempt # None => Web!Own' \subseteq {screen'.attempt}
       /\ refused' /\ ~refused => Web!Own' = {} /\ screen'.failed

\* A task that reports its result keeps one attempt at a time and the review.
LEMMA ResultKeeps ==
  ASSUME WebTypes, crossed \/ (OneAtATime /\ Reviewed), NEW t \in Web!Tasks, TaskResult(t),
         task[t].step \in {"sync", "sent", "bought"}
  PROVE  crossed' \/ (OneAtATime' /\ Reviewed')
<1>1. CASE t = "recovery"
  <2>1. Calm
    BY <1>1 DEF TaskResult, Calm, Button, Ready, Web!Tasks
  <2> QED
    BY <2>1, CalmStep
<1>2. CASE t \in {"left", "tab"}
  BY <1>2 DEF TaskResult, OneAtATime
<1>3. CASE t = "button"
  BY <1>3 DEF TaskResult, OneAtATime, Reviewed, Ready, Button, Web!Tasks
<1> QED
  BY <1>1, <1>2, <1>3 DEF Web!Tasks

\* The record of the screen with its result, shown by the task it waits for.
LEMMA Reported ==
  ASSUME WebTypes, NEW t \in Web!Tasks, NEW new \in ScreenRec, Web!Report(t, new)
  PROVE  screen' \in ScreenRec /\ (t = "button" => screen' = new) /\ (t # "button" => screen' = screen)
  BY DEF Web!Report, WebTypes

\* A purchase that could not be started leaves nothing behind.
LEMMA SyncFailsKeeps == ASSUME WebInv, NEW t \in Web!Tasks, Web!SyncFails(t) PROVE WebInv'
<1>0. WebTypes /\ Web!DraftKept /\ Remembered /\ (crossed \/ (OneAtATime /\ Reviewed))
  BY DEF WebInv
<1>1. /\ UNCHANGED <<basket, drafts, session, db, draftOf, verdict, events, stray, refused, crossed, dropped>>
      /\ task[t].step = "sync"
  BY DEF Web!SyncFails, Web!At, Web!offline, Web!browser, Web!history
<1>2. PICK new \in ScreenRec : new = [screen EXCEPT !.failed = TRUE] /\ new.attempt = screen.attempt
  <2>1. PICK y \in ScreenRec : y = screen
    BY <1>0 DEF WebTypes
  <2>2. [y EXCEPT !.failed = TRUE] \in ScreenRec /\ [y EXCEPT !.failed = TRUE].attempt = y.attempt
    BY DEF ScreenRec
  <2> QED
    BY <2>1, <2>2, Zenon
<1>3. screen' \in ScreenRec /\ (t # "button" => screen' = screen) /\ screen'.attempt = screen.attempt
  BY <1>0, <1>2, Reported DEF Web!SyncFails
<1>4. KeysGrow
  BY <1>1 DEF KeysGrow, Started, Web!Ordered
<1>5. TaskTypes' /\ (\A u \in Web!Tasks : u # t => task'[u] = task[u]) /\ (t # "recovery" => task'[t].step = "idle")
  BY <1>0, <1>4, TaskDone DEF Web!SyncFails, WebTypes
<1>6. WebTypes'
  BY <1>0, <1>1, <1>3, <1>5 DEF WebTypes, BrowserTypes
<1>7. Web!DraftKept' /\ Remembered'
  BY <1>0, <1>1, <1>3 DEF Web!DraftKept, Web!Ordered, Remembered, Started
<1>8. TaskResult(t)
  BY <1>0, <1>1, <1>3, <1>5 DEF TaskResult, OneAtATime, Button, Web!Own
<1> QED
  BY <1>0, <1>1, <1>6, <1>7, <1>8, ResultKeeps DEF WebInv

\* The order exists, and the attempt says so.
LEMMA CreatedKeeps == ASSUME WebInv, NEW t \in Web!Tasks, Web!Created(t) PROVE WebInv'
<1>0. WebTypes /\ Web!DraftKept /\ Remembered /\ (crossed \/ (OneAtATime /\ Reviewed))
  BY DEF WebInv
<1>a. PICK k \in Started : k = task[t].key
  BY <1>0 DEF Web!Created, Web!At, WebTypes, TaskTypes, Fits
<1>1. k \in Web!Keys /\ task[t].step = "sent" /\ verdict[k] # "REJECTED"
  BY <1>0, <1>a DEF Web!Created, Web!At, Started
<1>2. /\ Web!Decide(k) /\ Web!Patch(k, "CONFIRMED") /\ Web!Go(t, "bought") /\ Web!Tell(t)
      /\ UNCHANGED <<basket, drafts, session, draftOf, screen, stray, refused, crossed, dropped>>
  BY <1>a DEF Web!Created, Web!offline, Web!history
<1>3. /\ verdict' \in [Web!Keys -> {"none", "open", "done", "REJECTED"}] /\ Web!Ordered(k)'
      /\ \A j \in Web!Keys : j # k => verdict'[j] = verdict[j]
      /\ verdict'[k] = IF verdict[k] = "none" THEN "open" ELSE verdict[k]
      /\ \A j \in Web!Keys : Web!Ordered(j) => Web!Ordered(j)'
  <2>1. /\ verdict' \in [Web!Keys -> {"none", "open", "done", "REJECTED"}]
        /\ \A j \in Web!Keys : j # k => verdict'[j] = verdict[j]
        /\ verdict'[k] = IF verdict[k] = "none" THEN "open" ELSE verdict[k]
    BY <1>0, <1>1, <1>2 DEF WebTypes, BrowserTypes, Web!Decide
  <2>2. verdict[k] \in {"none", "open", "done"}
    BY <1>0, <1>1 DEF WebTypes, BrowserTypes
  <2>3. verdict'[k] \in {"open", "done"}
    BY <2>1, <2>2
  <2> QED
    BY <2>1, <2>3 DEF Web!Ordered
<1>4. KeysGrow
  BY <1>2, <1>3 DEF KeysGrow, Started
<1>5. /\ TaskTypes' /\ \A u \in Web!Tasks : u # t => task'[u] = task[u]
      /\ task'[t].step = "bought" /\ task'[t].key = k
  BY <1>0, <1>a, <1>1, <1>2, <1>3, <1>4, TaskGoes DEF WebTypes, WebSteps
<1>6. /\ db' \in [Web!Keys -> {"none", "SENDING", "IN_DOUBT", "CONFIRMED"}]
      /\ \A j \in Web!Keys : db'[j] = "none" <=> db[j] = "none"
  BY <1>0, <1>1, <1>2 DEF WebTypes, BrowserTypes, Web!Patch
<1>7. WebTypes'
  BY <1>0, <1>2, <1>3, <1>5, <1>6, TellTypes DEF WebTypes, BrowserTypes
<1>8. DraftSteps
  BY <1>2, <1>3 DEF DraftSteps
<1>9. MemorySteps
  BY <1>0, <1>a, <1>1, <1>2, <1>3, <1>6 DEF MemorySteps, Remembered, WebTypes, BrowserTypes
<1>10. crossed' \/ (OneAtATime' /\ Reviewed')
  <2>1. Web!Own' = Web!Own
    BY <1>6 DEF Web!Own
  <2> QED
    BY <1>0, <1>a, <1>1, <1>2, <1>5, <2>1 DEF OneAtATime, Reviewed, Ready, Button, Web!Tasks
<1> QED
  BY <1>0, <1>7, <1>8, <1>9, <1>10, DraftStays, MemoryStays DEF WebInv

\* The draft of a purchase that has its order goes.
LEMMA BoughtKeeps == ASSUME WebInv, NEW t \in Web!Tasks, Web!Bought(t) PROVE WebInv'
<1>0. WebTypes /\ Web!DraftKept /\ Remembered /\ (crossed \/ (OneAtATime /\ Reviewed))
  BY DEF WebInv
<1>a. PICK k \in Started : k = task[t].key /\ Web!Ordered(k)
  BY <1>0 DEF Web!Bought, Web!At, WebTypes, TaskTypes, Fits
<1>1. k \in Web!Keys /\ task[t].step = "bought"
  BY <1>a DEF Web!Bought, Web!At, Started
<1>2. /\ Web!RemoveDraft(k) /\ session' \in {session, None}
      /\ UNCHANGED <<basket, db, draftOf, verdict, events, stray, refused, crossed, dropped>>
      /\ Web!Report(t, [screen EXCEPT !.attempt = k, !.verifying = FALSE, !.order = k]) /\ Web!Done(t)
  BY <1>a DEF Web!Bought, Web!browser, Web!history
<1>3. PICK new \in ScreenRec :
        new = [screen EXCEPT !.attempt = k, !.verifying = FALSE, !.order = k] /\ new.attempt = k
  <2>1. PICK y \in ScreenRec : y = screen
    BY <1>0 DEF WebTypes
  <2>2. [y EXCEPT !.attempt = k, !.verifying = FALSE, !.order = k] \in ScreenRec
    BY <1>1 DEF ScreenRec, Maybe
  <2>3. [y EXCEPT !.attempt = k, !.verifying = FALSE, !.order = k].attempt = k
    BY DEF ScreenRec
  <2> QED
    BY <2>1, <2>2, <2>3, Zenon
<1>4. screen' \in ScreenRec /\ (t = "button" => screen'.attempt = k) /\ (t # "button" => screen' = screen)
  BY <1>0, <1>2, <1>3, Reported
<1>5. KeysGrow
  BY <1>2 DEF KeysGrow, Started, Web!Ordered
<1>6. TaskTypes' /\ (\A u \in Web!Tasks : u # t => task'[u] = task[u]) /\ (t # "recovery" => task'[t].step = "idle")
  BY <1>0, <1>2, <1>5, TaskDone DEF WebTypes
<1>7. WebTypes'
  <2>1. drafts' \in [Drafts -> {"none", "kept", "discarded", "gone"}]
    BY <1>0, <1>2 DEF WebTypes, BrowserTypes, Web!RemoveDraft
  <2> QED
    BY <1>0, <1>2, <1>4, <1>6, <2>1 DEF WebTypes, BrowserTypes
<1>8. DraftSteps
  <2>1. \A d \in Drafts : drafts'[d] = "gone" => drafts[d] = "gone" \/ draftOf[k] = d
    BY <1>2 DEF Web!RemoveDraft
  <2> QED
    BY <1>a, <1>1, <1>2, <1>5, <2>1 DEF DraftSteps, KeysGrow
<1>9. MemorySteps
  BY <1>0, <1>a, <1>2, <1>4 DEF MemorySteps, Remembered
<1>10. TaskResult(t)
  BY <1>a, <1>0, <1>1, <1>2, <1>4, <1>6 DEF TaskResult, OneAtATime, Button, Web!Own
<1>11. crossed' \/ (OneAtATime' /\ Reviewed')
  BY <1>0, <1>1, <1>10, ResultKeeps
<1> QED
  BY <1>0, <1>7, <1>8, <1>9, <1>11, DraftStays, MemoryStays DEF WebInv

\* Nobody answered: the attempt is kept and the screen says it is verified.
LEMMA UncertainKeeps == ASSUME WebInv, NEW t \in Web!Tasks, Web!Uncertain(t) PROVE WebInv'
<1>0. WebTypes /\ Web!DraftKept /\ Remembered /\ (crossed \/ (OneAtATime /\ Reviewed))
  BY DEF WebInv
<1>a. PICK k \in Started : k = task[t].key
  BY <1>0 DEF Web!Uncertain, Web!At, WebTypes, TaskTypes, Fits
<1>1. k \in Web!Keys /\ task[t].step = "sent"
  BY <1>a DEF Web!Uncertain, Web!At, Started
<1>2. /\ Web!Patch(k, "IN_DOUBT") /\ stray' \in {stray, stray \cup {k}}
      /\ UNCHANGED <<basket, drafts, session, draftOf, verdict, refused, crossed, dropped>>
      /\ Web!Report(t, [screen EXCEPT !.attempt = k, !.verifying = TRUE])
      /\ Web!Tell(t) /\ Web!Done(t)
  BY <1>a DEF Web!Uncertain, Web!offline, Web!history
<1>3. PICK new \in ScreenRec : new = [screen EXCEPT !.attempt = k, !.verifying = TRUE] /\ new.attempt = k
  <2>1. PICK y \in ScreenRec : y = screen
    BY <1>0 DEF WebTypes
  <2>2. [y EXCEPT !.attempt = k, !.verifying = TRUE] \in ScreenRec
    BY <1>1 DEF ScreenRec, Maybe
  <2>3. [y EXCEPT !.attempt = k, !.verifying = TRUE].attempt = k
    BY DEF ScreenRec
  <2> QED
    BY <2>1, <2>2, <2>3, Zenon
<1>4. screen' \in ScreenRec /\ (t = "button" => screen'.attempt = k) /\ (t # "button" => screen' = screen)
  BY <1>0, <1>2, <1>3, Reported
<1>5. KeysGrow
  BY <1>2 DEF KeysGrow, Started, Web!Ordered
<1>6. TaskTypes' /\ (\A u \in Web!Tasks : u # t => task'[u] = task[u]) /\ (t # "recovery" => task'[t].step = "idle")
  BY <1>0, <1>2, <1>5, TaskDone DEF WebTypes
<1>7. /\ db' \in [Web!Keys -> {"none", "SENDING", "IN_DOUBT", "CONFIRMED"}]
      /\ \A j \in Web!Keys : db'[j] = "none" <=> db[j] = "none"
  BY <1>0, <1>1, <1>2 DEF WebTypes, BrowserTypes, Web!Patch
<1>8. WebTypes'
  BY <1>0, <1>1, <1>2, <1>4, <1>6, <1>7, TellTypes DEF WebTypes, BrowserTypes
<1>9. Web!DraftKept'
  BY <1>0, <1>2 DEF Web!DraftKept, Web!Ordered
<1>10. MemorySteps
  BY <1>0, <1>a, <1>2, <1>4, <1>7 DEF MemorySteps, Remembered
<1>11. TaskResult(t)
  BY <1>a, <1>0, <1>1, <1>2, <1>4, <1>6, <1>7 DEF TaskResult, OneAtATime, Button, Web!Own
<1>12. crossed' \/ (OneAtATime' /\ Reviewed')
  BY <1>0, <1>1, <1>11, ResultKeeps
<1> QED
  BY <1>0, <1>8, <1>9, <1>10, <1>12, MemoryStays DEF WebInv

\* An answer that is taken for a refusal: the attempt goes, and the screen of its
\* task shows it.  What the server did not refuse is not remembered any more.
LEMMA RejectedKeeps == ASSUME WebInv, NEW t \in Web!Tasks, Web!Rejected(t) PROVE WebInv'
<1>0. WebTypes /\ Web!DraftKept /\ Remembered /\ (crossed \/ (OneAtATime /\ Reviewed))
  BY DEF WebInv
<1>a. PICK k \in Started : k = task[t].key
  BY <1>0 DEF Web!Rejected, Web!At, WebTypes, TaskTypes, Fits
<1>1. k \in Web!Keys /\ task[t].step = "sent"
  BY <1>a DEF Web!Rejected, Web!At, Started
<1>2. /\ Web!Refuse(k) \/ UNCHANGED verdict
      /\ Web!RemoveAttempt(k) /\ refused' = (refused \/ t = "button")
      /\ dropped' = IF verdict'[k] = "REJECTED" THEN dropped ELSE dropped \cup {k}
      /\ UNCHANGED <<basket, drafts, session, draftOf, stray, crossed>>
      /\ Web!Report(t, [screen EXCEPT !.attempt = None, !.failed = TRUE])
      /\ Web!Tell(t) /\ Web!Done(t)
  BY <1>a DEF Web!Rejected, Web!offline
<1>3. PICK new \in ScreenRec :
        new = [screen EXCEPT !.attempt = None, !.failed = TRUE] /\ new.attempt = None /\ new.failed
  <2>1. PICK y \in ScreenRec : y = screen
    BY <1>0 DEF WebTypes
  <2>2. [y EXCEPT !.attempt = None, !.failed = TRUE] \in ScreenRec
    BY DEF ScreenRec, Maybe
  <2>3. [y EXCEPT !.attempt = None, !.failed = TRUE].attempt = None /\ [y EXCEPT !.attempt = None, !.failed = TRUE].failed
    BY DEF ScreenRec
  <2> QED
    BY <2>1, <2>2, <2>3, Zenon
<1>4. /\ screen' \in ScreenRec /\ (t = "button" => screen'.attempt = None /\ screen'.failed)
      /\ t # "button" => screen' = screen
  BY <1>0, <1>2, <1>3, Reported
<1>5. /\ verdict' \in [Web!Keys -> {"none", "open", "done", "REJECTED"}]
      /\ \A j \in Web!Keys : verdict'[j] = verdict[j] \/ (j = k /\ verdict[j] = "none" /\ verdict'[j] = "REJECTED")
  BY <1>0, <1>1, <1>2 DEF WebTypes, BrowserTypes, Web!Refuse
<1>6. KeysGrow
  BY <1>2, <1>5 DEF KeysGrow, Started, Web!Ordered
<1>7. TaskTypes' /\ (\A u \in Web!Tasks : u # t => task'[u] = task[u]) /\ (t # "recovery" => task'[t].step = "idle")
  BY <1>0, <1>2, <1>6, TaskDone DEF WebTypes
<1>8. /\ db' \in [Web!Keys -> {"none", "SENDING", "IN_DOUBT", "CONFIRMED"}]
      /\ db'[k] = "none" /\ \A j \in Web!Keys : j # k => db'[j] = db[j]
  BY <1>0, <1>1, <1>2 DEF WebTypes, BrowserTypes, Web!RemoveAttempt
<1>9. WebTypes'
  BY <1>0, <1>2, <1>4, <1>5, <1>7, <1>8, TellTypes DEF WebTypes, BrowserTypes
<1>10. DraftSteps
  BY <1>2, <1>6 DEF DraftSteps, KeysGrow
<1>11. MemorySteps
  <2>1. verdict'[k] \in Final \/ k \in dropped'
    BY <1>2 DEF Final
  <2>2. dropped \subseteq dropped'
    BY <1>2
  <2> QED
    BY <1>0, <1>a, <1>2, <1>4, <1>5, <1>8, <2>1, <2>2 DEF MemorySteps, Remembered
<1>12. TaskResult(t)
  <2>1. refused' => refused \/ t = "button"
    BY <1>2
  <2>2. Web!Own' = Web!Own \ {k}
    BY <1>8 DEF Web!Own
  <2>3. t = "button" /\ ~crossed => Web!Own' = {}
    BY <1>a, <1>0, <1>1, <2>2 DEF OneAtATime, Button
  <2> QED
    BY <1>2, <1>4, <1>7, <2>1, <2>2, <2>3 DEF TaskResult
<1>13. crossed' \/ (OneAtATime' /\ Reviewed')
  BY <1>0, <1>1, <1>12, ResultKeeps
<1> QED
  BY <1>0, <1>9, <1>10, <1>11, <1>13, DraftStays, MemoryStays DEF WebInv

\* Every step of the browser keeps the invariant.
LEMMA WebStep == ASSUME WebInv, [Web!WebNext]_Web!webVars PROVE WebInv'
<1>1. CASE \/ Web!AddToCart \/ Web!ClearCart \/ Web!Reload
           \/ \E d \in Drafts : Web!Review(d) \/ Web!Discard(d) \/ Web!SaveDraft(d)
  BY <1>1, CartKeeps
<1>2. CASE \/ Web!OpenCheckout \/ Web!LeaveCheckout \/ Web!Continue \/ Web!Change \/ Web!Paid
           \/ \E m \in {"auto", "manual"} : Web!Select(m) \/ Web!Preselect(m)
           \/ \E k \in Web!Keys : Web!OrderShown(k) \/ Web!OrderEnded(k)
  BY <1>2, CustomerKeeps
<1>3. CASE \/ Web!StartRecovery \/ Web!EndRecovery \/ Web!FoundBought \/ Web!FoundRejected
           \/ Web!NotFound \/ Web!NoAnswer
           \/ \E k \in Web!Keys : Web!LateRequest(k) \/ Web!OrderEnds(k) \/ Web!AskFor(k)
  BY <1>3, RecoveryKeeps
<1>4. CASE Web!ReadAttempts \/ Web!OtherTab
  BY <1>4, ReadKeeps, OtherTabKeeps
<1>5. CASE Web!AutoOrder
  BY <1>5, EnsureKeeps DEF Web!AutoOrder
<1>6. CASE Web!Press
  BY <1>6, EnsureKeeps DEF Web!Press
<1>7. ASSUME NEW t \in Web!Tasks,
             \/ Web!Look(t) \/ Web!SyncCart(t) \/ Web!SyncFails(t)
             \/ Web!Created(t) \/ Web!Bought(t) \/ Web!Uncertain(t) \/ Web!Rejected(t)
      PROVE  WebInv'
  BY <1>7, LookKeeps, SyncKeeps, SyncFailsKeeps, CreatedKeeps, BoughtKeeps, UncertainKeeps, RejectedKeeps
<1>8. CASE UNCHANGED Web!webVars
  <2>1. UNCHANGED <<basket, drafts, session, db, draftOf, verdict, screen, events, task, stray, refused, crossed, dropped>>
    BY <1>8 DEF Web!webVars, Web!offline, Web!browser, Web!history
  <2>2. WebTypes'
    <3>1. KeysGrow
      BY <2>1 DEF KeysGrow, Started, Web!Ordered
    <3> QED
      BY <2>1, <3>1, SameTasks DEF WebInv, WebTypes, BrowserTypes
  <2> QED
    BY <2>1, <2>2 DEF WebInv, Web!DraftKept, Web!Ordered, Remembered, Started, OneAtATime, Reviewed, Ready, Button,
       Web!Own
<1> QED
  BY <1>1, <1>2, <1>3, <1>4, <1>5, <1>6, <1>7, <1>8, Zenon DEF Web!WebNext

\* The invariant of the browser holds whatever the customer, the server and the
\* network do.
THEOREM WebInvariance == Web!WebSpec => []WebInv
<1>1. Web!WebInit => WebInv
  <2> SUFFICES ASSUME Web!WebInit PROVE WebInv
    OBVIOUS
  <2>1. BrowserTypes /\ screen \in ScreenRec /\ events = {} /\ stray = {} /\ Started = {} /\ screen.attempt = None
    BY ScreenTypes DEF Web!WebInit, BrowserTypes, Started
  <2>2. TaskTypes /\ \A t \in Web!Tasks : task[t] = Web!Idle
    <3>1. \A t \in Web!Tasks : task[t] = Web!Idle
      BY DEF Web!WebInit
    <3>2. Web!Idle.step \notin {"look", "sync"}
      BY IdleTask
    <3> QED
      BY <3>1, <3>2, IdleTask DEF Web!WebInit, TaskTypes, Web!Tasks, Fits
  <2>3. Web!DraftKept
    BY DEF Web!WebInit, Web!DraftKept
  <2>4. OneAtATime /\ Reviewed
    BY <2>2, IdleTask DEF Web!WebInit, OneAtATime, Reviewed, Button, Web!Own, Web!Tasks
  <2>5. Remembered
    BY <2>1 DEF Web!WebInit, Remembered
  <2> QED
    BY <2>1, <2>2, <2>3, <2>4, <2>5 DEF WebInv, WebTypes
<1>2. WebInv /\ [Web!WebNext]_Web!webVars => WebInv'
  BY WebStep
<1> QED
  BY <1>1, <1>2, PTL DEF Web!WebSpec

\* A draft leaves the browser when the customer discards it, or when the order of
\* a purchase that came out of it exists.
THEOREM DraftKeptHolds == Web!WebSpec => []DraftKept
<1>1. WebInv => DraftKept
  BY DEF WebInv, DraftKept
<1> QED
  BY <1>1, WebInvariance, PTL

\* An order that waits for its payment is remembered, whichever screens, tabs and
\* recoveries send, ask and forget at once, or was forgotten upon an answer that
\* decided nothing.
THEOREM PurchaseNotForgottenHolds == Web!WebSpec => []PurchaseNotForgotten
<1>1. ASSUME WebInv PROVE PurchaseNotForgotten
  <2>1. ASSUME NEW k \in Web!Keys, verdict[k] = "open" PROVE db[k] # "none" \/ k \in dropped
    <3>1. k \in Started
      BY <1>1, <2>1 DEF WebInv, Remembered
    <3> QED
      BY <1>1, <2>1, <3>1 DEF WebInv, Remembered, Final
  <2> QED
    BY <2>1 DEF PurchaseNotForgotten, Web!PurchaseNotForgotten
<1> QED
  BY <1>1, WebInvariance, PTL

\* After a refusal its own request was told, the screen buys again only when the
\* customer did something; a screen that was left or another tab may start one, and
\* nothing is said of a refusal that the recovery finds.
THEOREM NewPurchaseIsReviewedHolds == Web!WebSpec => NewPurchaseIsReviewed
<1>1. ASSUME WebInv, [Web!WebNext]_Web!webVars
      PROVE  [Web!SyncCart("button") /\ ~crossed => ~refused]_Web!webVars
  <2>1. ASSUME Web!SyncCart("button"), ~crossed PROVE ~refused
    BY <1>1, <2>1 DEF Web!SyncCart, Web!At, WebInv, Reviewed, Button
  <2> QED
    BY <2>1
<1> QED
  BY <1>1, WebInvariance, PTL DEF Web!WebSpec, NewPurchaseIsReviewed, Web!NewPurchaseIsReviewed
-----------------------------------------------------------------------------
(* The checkout of the app *)

PhoneScreens == {"closed", "shop", "opening", "checkout", "payment"}
PhoneLists   == [Phone!Keys -> Phone!AttemptState]
PhoneTask    == [step : Phone!Steps, key : Phone!Keys \cup {NoKey}, list : PhoneLists, copy : PhoneLists,
                 to : Phone!AttemptState]

TasksOfPhone == appTask \in [Phone!Tasks -> PhoneTask]
RestOfPhone  ==
  /\ appVerdict \in [Phone!Keys -> Phone!Verdicts] /\ disk \in PhoneLists /\ last \in 0..MaxKeys
  /\ appScreen \in PhoneScreens /\ (appScreen = "payment" => paying \in Phone!Keys)
  /\ pending \in Phone!Keys \cup {NoKey} /\ paying \in Phone!Keys \cup {NoKey}
  /\ appStray \subseteq Phone!Keys /\ denied \subseteq Phone!Keys

\* A purchase nothing has to be remembered of, and one that is not lost.
Dropped(k) == k \in denied \/ appVerdict[k] \in {"REJECTED", "done"}
Held(k)    == disk[k] # "none" \/ Dropped(k)

\* A purchase is held before it is sent, and while a task works at it; what a
\* task is to remove may be dropped, and only a button writes a new one.
TaskHolds(t, x) ==
  /\ x.step = "reading" => t \in Phone!Buttons /\ x.key \in Phone!Keys
  /\ x.step \in {"sent", "ask"} => x.key \in Phone!Keys /\ Held(x.key)
  /\ x.step = "ask" => x.to # "none"
  /\ x.step \in {"write", "writing"} =>
       /\ x.key \in Phone!Keys
       /\ x.to = "none" => Dropped(x.key)
       /\ Held(x.key) \/ (t \in Phone!Buttons /\ x.to = "SENDING")

\* A write puts back a list nobody else changed since it was read.
OneWriter ==
  \A t \in Phone!Tasks : appTask[t].step = "writing" =>
    appTask[t].copy = disk /\ \A u \in Phone!Tasks : appTask[u].step = "writing" => u = t

\* What is remembered elsewhere, on its way or decided is held.
ListIsHeld(list) == \A k \in Phone!Keys : list[k] # "none" => Held(k)
OthersHold ==
  /\ \A k \in appStray : Held(k)
  /\ pending # NoKey => Held(pending)
  /\ \A k \in Phone!Keys : appVerdict[k] = "open" => Held(k)

PhoneInv ==
  /\ TasksOfPhone /\ RestOfPhone /\ OthersHold /\ OneWriter
  /\ \A t \in Phone!Tasks : TaskHolds(t, appTask[t])
  /\ ListIsHeld(appTask["recovery"].list)

\* No step loses a purchase.
HeldStays == \A k \in Phone!Keys : (Dropped(k) => Dropped(k)') /\ (Held(k) => Held(k)')

\* What a task counts on stays as long as what is held stays.
LEMMA HoldsOn ==
  ASSUME HeldStays, NEW t, NEW x, TaskHolds(t, x)
  PROVE  TaskHolds(t, x)'
  BY DEF HeldStays, TaskHolds

\* The empty list of attempts has its type.
LEMMA NothingIsHeld == Phone!Nothing \in PhoneLists /\ \A k \in Phone!Keys : Phone!Nothing[k] = "none"
  BY DEF Phone!Nothing, PhoneLists, Phone!AttemptState

\* At rest a task of the app has its type and nothing to write.
LEMMA IdlePhone ==
  /\ Phone!Idle \in PhoneTask /\ Phone!Idle.step = "idle" /\ Phone!Idle.to = "none"
  /\ Phone!Idle.list = Phone!Nothing
  BY NothingIsHeld DEF Phone!Idle, PhoneTask, Phone!Steps, Phone!AttemptState

\* A task at rest counts on nothing.
LEMMA IdleHolds == ASSUME NEW t PROVE TaskHolds(t, Phone!Idle)
  BY IdlePhone DEF TaskHolds

\* One task goes on, and what the others rely on stays.
LEMMA PhoneMoves ==
  ASSUME PhoneInv, NEW t \in Phone!Tasks, NEW x \in PhoneTask, appTask' = [appTask EXCEPT ![t] = x],
         HeldStays, RestOfPhone', OthersHold', TaskHolds(t, x)',
         t = "recovery" => ListIsHeld(x.list)',
         disk' = disk \/ \A u \in Phone!Tasks : appTask[u].step = "writing" => u = t,
         x.step = "writing" => x.copy = disk' /\ \A u \in Phone!Tasks : appTask[u].step # "writing"
  PROVE  PhoneInv'
<1>1. TasksOfPhone' /\ appTask'[t] = x /\ \A u \in Phone!Tasks : u # t => appTask'[u] = appTask[u]
  BY DEF PhoneInv, TasksOfPhone
<1>2. ASSUME NEW u \in Phone!Tasks PROVE TaskHolds(u, appTask[u])'
  <2>1. CASE u = t
    BY <1>1, <2>1 DEF TaskHolds, Held, Dropped
  <2>2. CASE u # t
    <3>1. PICK y : y = appTask[u]
      OBVIOUS
    <3>2. TaskHolds(u, y)
      BY <3>1 DEF PhoneInv
    <3>3. TaskHolds(u, y)'
      BY <3>2, HoldsOn
    <3>4. appTask'[u] = y
      BY <1>1, <2>2, <3>1
    <3> QED
      BY <3>3, <3>4 DEF TaskHolds, Held, Dropped
  <2> QED
    BY <2>1, <2>2
<1>3. ListIsHeld(appTask["recovery"].list)'
  <2>1. CASE t = "recovery"
    BY <1>1, <2>1 DEF ListIsHeld, Held, Dropped
  <2>2. CASE t # "recovery"
    <3>1. appTask'["recovery"] = appTask["recovery"] /\ ListIsHeld(appTask["recovery"].list)
      BY <1>1, <2>2 DEF PhoneInv, Phone!Tasks
    <3> QED
      BY <3>1 DEF ListIsHeld, HeldStays
  <2> QED
    BY <2>1, <2>2
<1>4. OneWriter'
  BY <1>1 DEF PhoneInv, OneWriter
<1> QED
  BY <1>1, <1>2, <1>3, <1>4 DEF PhoneInv

\* The same when nothing else of the phone changes.
LEMMA PhoneOnlyMoves ==
  ASSUME PhoneInv, NEW t \in Phone!Tasks, NEW x \in PhoneTask, appTask' = [appTask EXCEPT ![t] = x],
         UNCHANGED <<appVerdict, disk, last, appScreen, pending, paying, appStray, denied>>,
         TaskHolds(t, x), t = "recovery" => ListIsHeld(x.list),
         x.step = "writing" => x.copy = disk /\ \A u \in Phone!Tasks : appTask[u].step # "writing"
  PROVE  PhoneInv'
<1>1. HeldStays
  BY DEF HeldStays, Held, Dropped
<1>2. RestOfPhone'
  BY DEF PhoneInv, RestOfPhone
<1>3. OthersHold'
  BY DEF PhoneInv, OthersHold, Held, Dropped
<1>4. TaskHolds(t, x)'
  BY <1>1, HoldsOn
<1>5. t = "recovery" => ListIsHeld(x.list)'
  BY DEF ListIsHeld, Held, Dropped
<1> QED
  BY <1>1, <1>2, <1>3, <1>4, <1>5, PhoneMoves

\* No task goes on.
LEMMA PhoneRests ==
  ASSUME PhoneInv, UNCHANGED <<disk, appTask>>, HeldStays, RestOfPhone', OthersHold'
  PROVE  PhoneInv'
<1>1. \A t \in Phone!Tasks : TaskHolds(t, appTask[t])'
  <2> SUFFICES ASSUME NEW t \in Phone!Tasks PROVE TaskHolds(t, appTask[t])'
    OBVIOUS
  <2>1. PICK y : y = appTask[t]
    OBVIOUS
  <2>2. TaskHolds(t, y)'
    BY <2>1, HoldsOn DEF PhoneInv
  <2>3. appTask'[t] = y
    BY <2>1
  <2> QED
    BY <2>2, <2>3 DEF TaskHolds, Held, Dropped
<1>2. ListIsHeld(appTask["recovery"].list)'
  BY DEF PhoneInv, ListIsHeld, HeldStays
<1>3. TasksOfPhone' /\ OneWriter'
  BY DEF PhoneInv, TasksOfPhone, OneWriter
<1> QED
  BY <1>1, <1>2, <1>3 DEF PhoneInv

\* The record of a task with its step, or its step and what it is to write, changed.
LEMMA PhoneGoes ==
  ASSUME TasksOfPhone, NEW t \in Phone!Tasks, NEW s \in Phone!Steps, Phone!Go(t, s)
  PROVE  \E x \in PhoneTask : /\ appTask' = [appTask EXCEPT ![t] = x]
                              /\ x.step = s /\ x.key = appTask[t].key /\ x.list = appTask[t].list
                              /\ x.to = appTask[t].to
<1>1. PICK y \in PhoneTask : y = appTask[t]
  BY DEF TasksOfPhone
<1>2. PICK x \in PhoneTask : /\ x = [y EXCEPT !.step = s]
                             /\ x.step = s /\ x.key = y.key /\ x.list = y.list /\ x.to = y.to
  <2>1. [y EXCEPT !.step = s] \in PhoneTask
    BY DEF PhoneTask
  <2>2. /\ [y EXCEPT !.step = s].step = s /\ [y EXCEPT !.step = s].key = y.key
        /\ [y EXCEPT !.step = s].list = y.list /\ [y EXCEPT !.step = s].to = y.to
    BY DEF PhoneTask
  <2> QED
    BY <2>1, <2>2, Zenon
<1>3. appTask' = [appTask EXCEPT ![t] = x]
  BY <1>1, <1>2 DEF Phone!Go, TasksOfPhone
<1> QED
  BY <1>1, <1>2, <1>3

\* A task is about to write a state of its attempt.
LEMMA PhoneToWrite ==
  ASSUME TasksOfPhone, NEW t \in Phone!Tasks, NEW a \in Phone!AttemptState, Phone!ToWrite(t, a)
  PROVE  \E x \in PhoneTask : /\ appTask' = [appTask EXCEPT ![t] = x]
                              /\ x.step = "write" /\ x.key = appTask[t].key /\ x.list = appTask[t].list
                              /\ x.to = a
<1>1. PICK y \in PhoneTask : y = appTask[t]
  BY DEF TasksOfPhone
<1>2. PICK x \in PhoneTask : /\ x = [y EXCEPT !.step = "write", !.to = a]
                             /\ x.step = "write" /\ x.key = y.key /\ x.list = y.list /\ x.to = a
  <2>1. [y EXCEPT !.step = "write", !.to = a] \in PhoneTask
    BY DEF PhoneTask, Phone!Steps
  <2>2. /\ [y EXCEPT !.step = "write", !.to = a].step = "write"
        /\ [y EXCEPT !.step = "write", !.to = a].key = y.key
        /\ [y EXCEPT !.step = "write", !.to = a].list = y.list
        /\ [y EXCEPT !.step = "write", !.to = a].to = a
    BY DEF PhoneTask
  <2> QED
    BY <2>1, <2>2, Zenon
<1>3. appTask' = [appTask EXCEPT ![t] = x]
  BY <1>1, <1>2 DEF Phone!ToWrite, TasksOfPhone
<1> QED
  BY <1>1, <1>2, <1>3

\* A task of the app starts to work at an attempt.
LEMMA PhoneWorks ==
  ASSUME NEW t \in Phone!Tasks, NEW s \in Phone!Steps, NEW k \in Phone!Keys, Phone!Work(t, s, k)
  PROVE  \E x \in PhoneTask : /\ appTask' = [appTask EXCEPT ![t] = x]
                              /\ x.step = s /\ x.key = k /\ x.to = "none" /\ x.list = Phone!Nothing
<1>1. PICK y \in PhoneTask : y = Phone!Idle
  BY IdlePhone
<1>2. PICK x \in PhoneTask : /\ x = [y EXCEPT !.step = s, !.key = k]
                             /\ x.step = s /\ x.key = k /\ x.list = y.list /\ x.to = y.to
  <2>1. [y EXCEPT !.step = s, !.key = k] \in PhoneTask
    BY DEF PhoneTask
  <2>2. /\ [y EXCEPT !.step = s, !.key = k].step = s /\ [y EXCEPT !.step = s, !.key = k].key = k
        /\ [y EXCEPT !.step = s, !.key = k].list = y.list /\ [y EXCEPT !.step = s, !.key = k].to = y.to
    BY DEF PhoneTask
  <2> QED
    BY <2>1, <2>2, Zenon
<1>3. appTask' = [appTask EXCEPT ![t] = x]
  BY <1>1, <1>2 DEF Phone!Work, Phone!Be
<1> QED
  BY <1>1, <1>2, <1>3, IdlePhone

\* The newest of the purchases that are stored is one of them.
LEMMA NewestStored == Phone!Stored # {} => Phone!Newest(Phone!Stored) \in Phone!Stored
<1> SUFFICES ASSUME Phone!Stored # {} PROVE Phone!Newest(Phone!Stored) \in Phone!Stored
  OBVIOUS
<1>1. \E x \in Phone!Stored : \A y \in Phone!Stored : y <= x
  BY NewestNumber DEF Phone!Stored, Phone!Keys
<1> QED
  BY <1>1 DEF Phone!Newest

\* What the server decides about a purchase that is held leaves it held.
LEMMA DecideKeeps ==
  ASSUME PhoneInv, NEW k \in Phone!Keys, Held(k), Phone!Decide(k), UNCHANGED <<disk, denied>>
  PROVE  /\ HeldStays /\ appVerdict' \in [Phone!Keys -> Phone!Verdicts]
         /\ \A j \in Phone!Keys : appVerdict'[j] = "open" => Held(j)'
         /\ appVerdict'[k] = "REJECTED" => Dropped(k)'
<1>1. appVerdict \in [Phone!Keys -> Phone!Verdicts]
  BY DEF PhoneInv, RestOfPhone
<1>2. /\ appVerdict' \in [Phone!Keys -> Phone!Verdicts]
      /\ \A j \in Phone!Keys : appVerdict'[j] # appVerdict[j] => j = k /\ appVerdict[j] = "none"
  <2>1. CASE appVerdict[k] = "none"
    <3>1. PICK v \in {"open", "REJECTED"} : appVerdict' = [appVerdict EXCEPT ![k] = v]
      BY <2>1 DEF Phone!Decide
    <3> QED
      BY <1>1, <2>1, <3>1 DEF Phone!Verdicts
  <2>2. CASE appVerdict[k] # "none"
    BY <1>1, <2>2 DEF Phone!Decide
  <2> QED
    BY <2>1, <2>2
<1>3. HeldStays
  BY <1>2 DEF HeldStays, Held, Dropped
<1>4. \A j \in Phone!Keys : appVerdict'[j] = "open" => Held(j)'
  <2> SUFFICES ASSUME NEW j \in Phone!Keys, appVerdict'[j] = "open" PROVE Held(j)'
    OBVIOUS
  <2>1. Held(j)
    BY <1>2 DEF PhoneInv, OthersHold
  <2> QED
    BY <1>3, <2>1 DEF HeldStays
<1> QED
  BY <1>2, <1>3, <1>4 DEF Dropped

\* A write reads the list when no other one is at work.
LEMMA BeginWriteKeeps == ASSUME PhoneInv, NEW t \in Phone!Tasks, Phone!BeginWrite(t) PROVE PhoneInv'
<1>1. PICK y \in PhoneTask : y = appTask[t]
  BY DEF PhoneInv, TasksOfPhone
<1>2. disk \in PhoneLists
  BY DEF PhoneInv, RestOfPhone
<1>3. PICK c \in PhoneLists : c = disk
  BY <1>2
<1>4. PICK x \in PhoneTask : /\ x = [y EXCEPT !.step = "writing", !.copy = c]
                             /\ x.step = "writing" /\ x.key = y.key /\ x.list = y.list /\ x.to = y.to /\ x.copy = c
  <2>1. [y EXCEPT !.step = "writing", !.copy = c] \in PhoneTask
    BY DEF PhoneTask, Phone!Steps
  <2>2. /\ [y EXCEPT !.step = "writing", !.copy = c].step = "writing"
        /\ [y EXCEPT !.step = "writing", !.copy = c].key = y.key
        /\ [y EXCEPT !.step = "writing", !.copy = c].list = y.list
        /\ [y EXCEPT !.step = "writing", !.copy = c].to = y.to
        /\ [y EXCEPT !.step = "writing", !.copy = c].copy = c
    BY DEF PhoneTask
  <2> QED
    BY <2>1, <2>2, Zenon
<1>5. appTask' = [appTask EXCEPT ![t] = x]
  BY <1>1, <1>3, <1>4 DEF Phone!BeginWrite, PhoneInv, TasksOfPhone
<1>6. TaskHolds(t, x)
  <2>1. TaskHolds(t, y) /\ y.step = "write"
    BY <1>1 DEF PhoneInv, Phone!BeginWrite, Phone!At
  <2> QED
    BY <1>4, <2>1 DEF TaskHolds
<1>7. t = "recovery" => ListIsHeld(x.list)
  BY <1>1, <1>4 DEF PhoneInv
<1>8. /\ UNCHANGED <<appVerdict, disk, last, appScreen, pending, paying, appStray, denied>>
      /\ \A u \in Phone!Tasks : appTask[u].step # "writing"
  BY DEF Phone!BeginWrite, Phone!At, Phone!appVars
<1> QED
  BY <1>3, <1>4, <1>5, <1>6, <1>7, <1>8, PhoneOnlyMoves

\* What it puts back has lost nothing but what may be dropped.
LEMMA EndWriteKeeps == ASSUME PhoneInv, NEW t \in Phone!Tasks, Phone!EndWrite(t) PROVE PhoneInv'
<1>1. PICK y \in PhoneTask : y = appTask[t]
  BY DEF PhoneInv, TasksOfPhone
<1>2. y.step = "writing" /\ TaskHolds(t, y) /\ y.copy = disk /\ \A u \in Phone!Tasks : appTask[u].step = "writing" => u = t
  BY <1>1 DEF PhoneInv, OneWriter, Phone!EndWrite, Phone!At
<1>3. PICK k \in Phone!Keys : k = y.key
  BY <1>2 DEF TaskHolds
<1>4. PICK a \in Phone!AttemptState : a = y.to
  BY DEF PhoneTask
<1>5. (a = "none" => Dropped(k)) /\ (Held(k) \/ (t \in Phone!Buttons /\ a = "SENDING"))
  BY <1>2, <1>3, <1>4 DEF TaskHolds
<1>6. /\ disk' = IF disk[k] = "none" /\ ~(t \in Phone!Buttons /\ a = "SENDING") THEN disk ELSE [disk EXCEPT ![k] = a]
      /\ UNCHANGED <<appVerdict, last, appStray, denied>>
  BY <1>1, <1>2, <1>3, <1>4 DEF Phone!EndWrite, Phone!PutBack, Phone!Creates
<1>7. PICK x \in PhoneTask : /\ appTask' = [appTask EXCEPT ![t] = x] /\ x.step \in {"sent", "next", "idle"}
                             /\ x.step = "sent" => x.key = k
                             /\ x.list \in {y.list, Phone!Nothing}
  <2>1. CASE Phone!Creates(t)
    <3>1. PICK x \in PhoneTask : x = [y EXCEPT !.step = "sent", !.copy = Phone!Nothing] /\ x.step = "sent"
                                 /\ x.key = y.key /\ x.list = y.list
      <4>1. [y EXCEPT !.step = "sent", !.copy = Phone!Nothing] \in PhoneTask
        BY NothingIsHeld DEF PhoneTask, Phone!Steps
      <4>2. /\ [y EXCEPT !.step = "sent", !.copy = Phone!Nothing].step = "sent"
            /\ [y EXCEPT !.step = "sent", !.copy = Phone!Nothing].key = y.key
            /\ [y EXCEPT !.step = "sent", !.copy = Phone!Nothing].list = y.list
        BY DEF PhoneTask
      <4> QED
        BY <4>1, <4>2, Zenon
    <3>2. appTask' = [appTask EXCEPT ![t] = [appTask[t] EXCEPT !.step = "sent", !.copy = Phone!Nothing]]
      <4>1. t # "recovery"
        BY <2>1 DEF Phone!Creates, Phone!Buttons
      <4> QED
        BY <2>1, <4>1 DEF Phone!EndWrite, PhoneInv, TasksOfPhone
    <3> QED
      BY <1>1, <1>3, <3>1, <3>2
  <2>2. CASE ~Phone!Creates(t) /\ t = "recovery"
    <3>1. PICK x \in PhoneTask : x = [y EXCEPT !.step = "next", !.copy = Phone!Nothing] /\ x.step = "next"
                                 /\ x.list = y.list
      <4>1. [y EXCEPT !.step = "next", !.copy = Phone!Nothing] \in PhoneTask
        BY NothingIsHeld DEF PhoneTask, Phone!Steps
      <4>2. /\ [y EXCEPT !.step = "next", !.copy = Phone!Nothing].step = "next"
            /\ [y EXCEPT !.step = "next", !.copy = Phone!Nothing].list = y.list
        BY DEF PhoneTask
      <4> QED
        BY <4>1, <4>2, Zenon
    <3>2. appTask' = [appTask EXCEPT ![t] = [appTask[t] EXCEPT !.step = "next", !.copy = Phone!Nothing]]
      BY <2>2 DEF Phone!EndWrite, PhoneInv, TasksOfPhone
    <3> QED
      BY <1>1, <3>1, <3>2
  <2>3. CASE ~Phone!Creates(t) /\ t # "recovery"
    <3>1. appTask' = [appTask EXCEPT ![t] = Phone!Idle]
      BY <2>3 DEF Phone!EndWrite, PhoneInv, TasksOfPhone
    <3> QED
      BY <3>1, IdlePhone
  <2> QED
    BY <2>1, <2>2, <2>3
<1>8. disk' \in PhoneLists /\ HeldStays /\ Held(k)'
  <2>1. disk \in PhoneLists
    BY DEF PhoneInv, RestOfPhone
  <2>2. disk' \in PhoneLists /\ (\A j \in Phone!Keys : j # k => disk'[j] = disk[j])
        /\ (disk'[k] = disk[k] \/ disk'[k] = a) /\ (t \in Phone!Buttons /\ a = "SENDING" => disk'[k] = a)
    BY <1>6, <2>1 DEF PhoneLists
  <2>3. HeldStays
    <3> SUFFICES ASSUME NEW j \in Phone!Keys PROVE (Dropped(j) => Dropped(j)') /\ (Held(j) => Held(j)')
      BY DEF HeldStays
    <3>1. Dropped(j) => Dropped(j)'
      BY <1>6 DEF Dropped
    <3>2. disk[j] # "none" => disk'[j] # "none" \/ Dropped(j)
      BY <1>5, <2>2
    <3> QED
      BY <3>1, <3>2 DEF Held
  <2> QED
    BY <1>5, <2>2, <2>3 DEF HeldStays, Held
<1>9. pending' \in {pending, k, NoKey} /\ paying' \in {paying, k} /\ appScreen' \in {appScreen, "payment"}
      /\ (appScreen' = "payment" => (appScreen = "payment" /\ paying' = paying) \/ paying' = k)
  <2>1. pending' \in {pending, k, NoKey}
    BY <1>1, <1>3 DEF Phone!EndWrite
  <2>2. CASE t \in Phone!Buttons /\ appTask[t].to = "CONFIRMED"
    BY <1>1, <1>3, <2>1, <2>2 DEF Phone!EndWrite
  <2>3. CASE ~(t \in Phone!Buttons /\ appTask[t].to = "CONFIRMED")
    BY <2>1, <2>3 DEF Phone!EndWrite
  <2> QED
    BY <2>2, <2>3
<1>10. RestOfPhone'
  BY <1>6, <1>8, <1>9 DEF PhoneInv, RestOfPhone, PhoneScreens
<1>11. OthersHold'
  <2>1. \A j \in Phone!Keys : Held(j) => Held(j)'
    BY <1>8 DEF HeldStays
  <2>2. OthersHold /\ appStray \subseteq Phone!Keys /\ pending \in Phone!Keys \cup {NoKey}
    BY DEF PhoneInv, RestOfPhone
  <2>3. \A j \in appStray' : Held(j)'
    BY <1>6, <2>1, <2>2 DEF OthersHold
  <2>4. \A j \in Phone!Keys : appVerdict'[j] = "open" => Held(j)'
    BY <1>6, <2>1, <2>2 DEF OthersHold
  <2>5. pending' # NoKey => Held(pending)'
    <3>1. CASE pending' = pending
      <4>1. pending # NoKey => Held(pending)'
        <5>1. PICK p : p = pending
          OBVIOUS
        <5>2. p # NoKey => Held(p)'
          BY <2>1, <2>2, <5>1 DEF OthersHold
        <5> QED
          BY <3>1, <5>1, <5>2 DEF Held, Dropped
      <4> QED
        BY <3>1, <4>1
    <3>2. CASE pending' = k
      BY <1>8, <3>2 DEF Held, Dropped
    <3>3. CASE pending' = NoKey
      BY <3>3
    <3> QED
      BY <1>9, <3>1, <3>2, <3>3
  <2> QED
    BY <2>3, <2>4, <2>5 DEF OthersHold
<1>12. TaskHolds(t, x)'
  BY <1>3, <1>7, <1>8 DEF TaskHolds, Held, Dropped
<1>13. t = "recovery" => ListIsHeld(x.list)'
  <2>1. t = "recovery" => ListIsHeld(y.list)
    BY <1>1 DEF PhoneInv
  <2> QED
    BY <1>7, <1>8, <2>1, NothingIsHeld DEF ListIsHeld, HeldStays
<1> QED
  BY <1>2, <1>7, <1>8, <1>10, <1>11, <1>12, <1>13, PhoneMoves

\* The button starts a purchase, or gives it up before it is written.
LEMMA ButtonKeeps ==
  ASSUME PhoneInv,
         Phone!Press \/ Phone!PressAgain \/ \E t \in Phone!Tasks : Phone!ReadRevision(t) \/ Phone!ReadFails(t)
  PROVE  PhoneInv'
<1>0. TasksOfPhone /\ "button" \in Phone!Tasks /\ {"reading", "sent"} \subseteq Phone!Steps
      /\ {"none", "SENDING"} \subseteq Phone!AttemptState
  BY DEF PhoneInv, Phone!Tasks, Phone!Buttons, Phone!Steps, Phone!AttemptState
<1>1. CASE Phone!Press
  <2>1. last + 1 \in Phone!Keys /\ last' \in 0..MaxKeys
    BY <1>1, ScreensAssumption DEF Phone!Press, PhoneInv, RestOfPhone, Phone!Keys
  <2>2. PICK k \in Phone!Keys : k = last + 1
    BY <2>1
  <2>3. Phone!Work("button", "reading", k)
    BY <1>1, <2>2 DEF Phone!Press
  <2>4. PICK x \in PhoneTask : appTask' = [appTask EXCEPT !["button"] = x] /\ x.step = "reading" /\ x.key = k
    BY <1>0, <2>3, PhoneWorks
  <2>5. UNCHANGED <<appVerdict, disk, appScreen, pending, paying, appStray, denied>>
    BY <1>1 DEF Phone!Press, Phone!appVars
  <2>6. HeldStays /\ RestOfPhone' /\ OthersHold'
    BY <2>1, <2>5 DEF PhoneInv, RestOfPhone, OthersHold, HeldStays, Held, Dropped
  <2>7. TaskHolds("button", x)'
    BY <2>4 DEF TaskHolds, Phone!Buttons
  <2> QED
    BY <1>0, <2>4, <2>5, <2>6, <2>7, PhoneMoves
<1>2. CASE Phone!PressAgain
  <2>1. PICK k \in Phone!Keys : k = pending
    BY <1>2 DEF Phone!PressAgain, PhoneInv, RestOfPhone
  <2>2. Held(k)
    BY <1>2, <2>1 DEF Phone!PressAgain, PhoneInv, OthersHold, Held, Dropped
  <2>3. Phone!Work("button", "sent", k)
    BY <1>2, <2>1 DEF Phone!PressAgain
  <2>4. PICK x \in PhoneTask : appTask' = [appTask EXCEPT !["button"] = x] /\ x.step = "sent" /\ x.key = k
    BY <1>0, <2>3, PhoneWorks
  <2>5. UNCHANGED <<appVerdict, disk, last, appScreen, pending, paying, appStray, denied>>
    BY <1>2 DEF Phone!PressAgain, Phone!appVars
  <2>6. TaskHolds("button", x)
    BY <2>2, <2>4 DEF TaskHolds
  <2> QED
    BY <1>0, <2>4, <2>5, <2>6, PhoneOnlyMoves
<1>3. ASSUME NEW t \in Phone!Tasks, Phone!ReadRevision(t) PROVE PhoneInv'
  <2>1. PICK x \in PhoneTask : /\ appTask' = [appTask EXCEPT ![t] = x]
                               /\ x.step = "write" /\ x.key = appTask[t].key /\ x.list = appTask[t].list
                               /\ x.to = "SENDING"
    BY <1>0, <1>3, PhoneToWrite DEF Phone!ReadRevision
  <2>2. t \in Phone!Buttons /\ appTask[t].key \in Phone!Keys
    BY <1>3 DEF Phone!ReadRevision, Phone!At, PhoneInv, TaskHolds
  <2>3. TaskHolds(t, x)
    BY <2>1, <2>2 DEF TaskHolds
  <2>4. UNCHANGED <<appVerdict, disk, last, appScreen, pending, paying, appStray, denied>> /\ t # "recovery"
    BY <1>3, <2>2 DEF Phone!ReadRevision, Phone!appVars, Phone!Buttons
  <2> QED
    BY <2>1, <2>3, <2>4, PhoneOnlyMoves
<1>4. ASSUME NEW t \in Phone!Tasks, Phone!ReadFails(t) PROVE PhoneInv'
  <2>1. PICK x \in PhoneTask : x = Phone!Idle /\ x.step = "idle" /\ x.list = Phone!Nothing
    BY IdlePhone
  <2>2. appTask' = [appTask EXCEPT ![t] = x] /\ TaskHolds(t, x) /\ ListIsHeld(x.list)
    BY <1>4, <2>1, NothingIsHeld DEF Phone!ReadFails, Phone!Be, TaskHolds, ListIsHeld
  <2>3. UNCHANGED <<appVerdict, disk, last, appScreen, pending, paying, appStray, denied>>
    BY <1>4 DEF Phone!ReadFails, Phone!appVars
  <2> QED
    BY <2>1, <2>2, <2>3, PhoneOnlyMoves
<1> QED
  BY <1>1, <1>2, <1>3, <1>4

\* What is sent is held, and what its answer drops may be dropped.
LEMMA SentKeeps ==
  ASSUME PhoneInv, NEW t \in Phone!Tasks, Phone!Answered(t) \/ Phone!Uncertain(t) \/ Phone!Denied(t)
  PROVE  PhoneInv'
<1>0. TasksOfPhone /\ RestOfPhone /\ OthersHold /\ {"none", "IN_DOUBT", "CONFIRMED"} \subseteq Phone!AttemptState
  BY DEF PhoneInv, Phone!AttemptState
<1>1. PICK k \in Phone!Keys : k = appTask[t].key /\ Held(k)
  BY DEF PhoneInv, TaskHolds, Phone!Answered, Phone!Uncertain, Phone!Denied, Phone!At
<1>2. t = "recovery" => ListIsHeld(appTask[t].list)
  BY DEF PhoneInv
<1>3. CASE Phone!Answered(t)
  <2>1. Phone!Decide(k) /\ UNCHANGED <<disk, last, appScreen, pending, paying, appStray, denied>>
    BY <1>1, <1>3 DEF Phone!Answered, Phone!appVars
  <2>2. /\ HeldStays /\ appVerdict' \in [Phone!Keys -> Phone!Verdicts]
        /\ \A j \in Phone!Keys : appVerdict'[j] = "open" => Held(j)'
        /\ appVerdict'[k] = "REJECTED" => Dropped(k)'
    BY <1>1, <2>1, DecideKeeps
  <2>3. PICK a \in Phone!AttemptState : a = IF appVerdict'[k] = "REJECTED" THEN "none" ELSE "CONFIRMED"
    BY <1>0
  <2>4. PICK x \in PhoneTask : /\ appTask' = [appTask EXCEPT ![t] = x]
                               /\ x.step = "write" /\ x.key = appTask[t].key /\ x.list = appTask[t].list
                               /\ x.to = a
    <3>1. Phone!ToWrite(t, a)
      BY <1>1, <1>3, <2>3 DEF Phone!Answered
    <3> QED
      BY <1>0, <3>1, PhoneToWrite
  <2>5. RestOfPhone'
    BY <1>0, <2>1, <2>2 DEF RestOfPhone
  <2>6. OthersHold'
    <3>1. \A j \in appStray : Held(j)'
      BY <1>0, <2>2 DEF RestOfPhone, OthersHold, HeldStays
    <3>2. PICK p : p = pending
      OBVIOUS
    <3>3. p # NoKey => Held(p)'
      BY <1>0, <2>2, <3>2 DEF RestOfPhone, OthersHold, HeldStays
    <3>4. pending' # NoKey => Held(pending)'
      BY <2>1, <3>2, <3>3 DEF Held, Dropped
    <3> QED
      BY <2>1, <2>2, <3>1, <3>4 DEF OthersHold
  <2>7. TaskHolds(t, x)'
    BY <1>1, <2>2, <2>3, <2>4 DEF TaskHolds, HeldStays
  <2>8. t = "recovery" => ListIsHeld(x.list)'
    BY <1>2, <2>2, <2>4 DEF ListIsHeld, HeldStays
  <2> QED
    BY <2>1, <2>2, <2>4, <2>5, <2>6, <2>7, <2>8, PhoneMoves
<1>4. CASE Phone!Uncertain(t)
  <2>1. PICK x \in PhoneTask : /\ appTask' = [appTask EXCEPT ![t] = x]
                               /\ x.step = "write" /\ x.key = appTask[t].key /\ x.list = appTask[t].list
                               /\ x.to = "IN_DOUBT"
    BY <1>0, <1>4, PhoneToWrite DEF Phone!Uncertain
  <2>2. /\ UNCHANGED <<appVerdict, disk, last, appScreen, pending, paying, denied>>
        /\ appStray' \in {appStray, appStray \cup {k}}
    BY <1>1, <1>4 DEF Phone!Uncertain, Phone!appVars
  <2>3. HeldStays /\ RestOfPhone' /\ OthersHold'
    BY <1>0, <1>1, <2>2 DEF HeldStays, RestOfPhone, OthersHold, Held, Dropped
  <2>4. TaskHolds(t, x)' /\ (t = "recovery" => ListIsHeld(x.list)')
    BY <1>1, <1>2, <2>1, <2>3 DEF TaskHolds, ListIsHeld, HeldStays
  <2> QED
    BY <2>1, <2>2, <2>3, <2>4, PhoneMoves
<1>5. CASE Phone!Denied(t)
  <2>1. PICK x \in PhoneTask : /\ appTask' = [appTask EXCEPT ![t] = x]
                               /\ x.step = "write" /\ x.key = appTask[t].key /\ x.list = appTask[t].list
                               /\ x.to = "none"
    BY <1>0, <1>5, PhoneToWrite DEF Phone!Denied
  <2>2. /\ UNCHANGED <<appVerdict, disk, last, appScreen, pending, paying, appStray>>
        /\ denied' = denied \cup {k}
    BY <1>1, <1>5 DEF Phone!Denied, Phone!appVars
  <2>3. HeldStays /\ RestOfPhone' /\ OthersHold'
    BY <1>0, <1>1, <2>2 DEF HeldStays, RestOfPhone, OthersHold, Held, Dropped
  <2>4. Dropped(k)'
    BY <2>2 DEF Dropped
  <2>5. TaskHolds(t, x)' /\ (t = "recovery" => ListIsHeld(x.list)')
    BY <1>1, <1>2, <2>1, <2>3, <2>4 DEF TaskHolds, ListIsHeld, HeldStays
  <2> QED
    BY <2>1, <2>2, <2>3, <2>5, PhoneMoves
<1> QED
  BY <1>3, <1>4, <1>5

\* Requests that nobody waits for, and orders that end, drop nothing that is open.
LEMMA DecisionKeeps ==
  ASSUME PhoneInv, NEW k \in Phone!Keys, Phone!LateRequest(k) \/ Phone!OrderEnds(k)
  PROVE  PhoneInv'
<1>0. TasksOfPhone /\ RestOfPhone /\ OthersHold
  BY DEF PhoneInv
<1>1. /\ UNCHANGED <<disk, last, appScreen, pending, paying, appTask, denied>> /\ appStray' \subseteq appStray
  BY DEF Phone!LateRequest, Phone!OrderEnds, Phone!appVars
<1>2. /\ HeldStays /\ appVerdict' \in [Phone!Keys -> Phone!Verdicts]
      /\ \A j \in Phone!Keys : appVerdict'[j] = "open" => Held(j)'
  <2>1. CASE Phone!LateRequest(k)
    <3>1. Phone!Decide(k) /\ Held(k)
      BY <1>0, <2>1 DEF Phone!LateRequest, OthersHold
    <3> QED
      BY <1>1, <3>1, DecideKeeps
  <2>2. CASE Phone!OrderEnds(k)
    <3>1. appVerdict[k] = "open" /\ appVerdict' = [appVerdict EXCEPT ![k] = "done"]
      BY <2>2 DEF Phone!OrderEnds
    <3>2. appVerdict' \in [Phone!Keys -> Phone!Verdicts] /\ HeldStays
      BY <1>0, <1>1, <3>1 DEF RestOfPhone, Phone!Verdicts, HeldStays, Held, Dropped
    <3>3. \A j \in Phone!Keys : appVerdict'[j] = "open" => appVerdict[j] = "open"
      BY <1>0, <3>1 DEF RestOfPhone
    <3> QED
      BY <1>0, <3>2, <3>3 DEF OthersHold, HeldStays
  <2> QED
    BY <2>1, <2>2
<1>3. RestOfPhone'
  BY <1>0, <1>1, <1>2 DEF RestOfPhone
<1>4. OthersHold'
  <2>1. \A j \in appStray' : Held(j)'
    BY <1>0, <1>1, <1>2 DEF RestOfPhone, OthersHold, HeldStays
  <2>2. PICK p : p = pending
    OBVIOUS
  <2>3. p # NoKey => Held(p)'
    BY <1>0, <1>2, <2>2 DEF RestOfPhone, OthersHold, HeldStays
  <2>4. pending' # NoKey => Held(pending)'
    BY <1>1, <2>2, <2>3 DEF Held, Dropped
  <2> QED
    BY <1>2, <2>1, <2>4 DEF OthersHold
<1> QED
  BY <1>1, <1>2, <1>3, <1>4, PhoneRests

\* The customer goes from screen to screen; the newest purchase is resumed.
LEMMA GoingKeeps ==
  ASSUME PhoneInv, Phone!OpenApp \/ Phone!OpenCheckout \/ Phone!Resume \/ Phone!BackToCheckout
  PROVE  PhoneInv'
<1>0. TasksOfPhone /\ RestOfPhone /\ OthersHold
  BY DEF PhoneInv
<1>1. UNCHANGED <<appVerdict, disk, last, appTask, appStray, denied>>
  BY DEF Phone!OpenApp, Phone!OpenCheckout, Phone!Resume, Phone!BackToCheckout
<1>2. /\ appScreen' \in PhoneScreens /\ (appScreen' = "payment" => paying' \in Phone!Keys)
      /\ paying' \in Phone!Keys \cup {NoKey}
      /\ pending' \in {pending, NoKey} \/ pending' \in Phone!Stored
  <2>1. CASE Phone!OpenApp \/ Phone!OpenCheckout \/ Phone!BackToCheckout
    BY <1>0, <2>1 DEF Phone!OpenApp, Phone!OpenCheckout, Phone!BackToCheckout, RestOfPhone, PhoneScreens
  <2>2. CASE Phone!Resume
    <3>1. CASE Phone!Stored # {} /\ disk[Phone!Newest(Phone!Stored)] = "CONFIRMED"
      <4>1. Phone!Newest(Phone!Stored) \in Phone!Keys
        BY <3>1, NewestStored DEF Phone!Stored
      <4> QED
        BY <1>0, <2>2, <3>1, <4>1 DEF Phone!Resume, Phone!ToPayment, RestOfPhone, PhoneScreens
    <3>2. CASE ~(Phone!Stored # {} /\ disk[Phone!Newest(Phone!Stored)] = "CONFIRMED")
      <4>1. appScreen' = "checkout" /\ UNCHANGED paying
            /\ pending' = IF Phone!Stored = {} THEN pending ELSE Phone!Newest(Phone!Stored)
        BY <2>2, <3>2 DEF Phone!Resume
      <4> QED
        BY <1>0, <4>1, NewestStored DEF RestOfPhone, PhoneScreens
    <3> QED
      BY <3>1, <3>2
  <2> QED
    BY <2>1, <2>2
<1>3. HeldStays
  BY <1>1 DEF HeldStays, Held, Dropped
<1>4. RestOfPhone'
  BY <1>0, <1>1, <1>2 DEF RestOfPhone, Phone!Stored
<1>5. OthersHold'
  <2>1. pending' # NoKey => Held(pending)'
    BY <1>0, <1>1, <1>2 DEF OthersHold, Held, Dropped, Phone!Stored
  <2> QED
    BY <1>0, <1>1, <2>1 DEF OthersHold, Held, Dropped
<1> QED
  BY <1>1, <1>3, <1>4, <1>5, PhoneRests

\* A paid order is not open any more, and may be removed.
LEMMA PaidKeeps == ASSUME PhoneInv, Phone!Paid PROVE PhoneInv'
<1>0. TasksOfPhone /\ RestOfPhone /\ OthersHold
  BY DEF PhoneInv
<1>1. PICK k \in Phone!Keys : k = paying
  BY <1>0 DEF Phone!Paid, RestOfPhone
<1>2. /\ appVerdict[k] \in {"open", "done"} /\ appVerdict' = [appVerdict EXCEPT ![k] = "done"]
      /\ appScreen' = "shop" /\ pending' = NoKey /\ paying' = NoKey
      /\ UNCHANGED <<disk, last, appStray, denied>>
  BY <1>1 DEF Phone!Paid
<1>3. HeldStays /\ appVerdict' \in [Phone!Keys -> Phone!Verdicts] /\ Dropped(k)'
  BY <1>0, <1>2 DEF RestOfPhone, Phone!Verdicts, HeldStays, Held, Dropped
<1>4. RestOfPhone'
  BY <1>0, <1>2, <1>3 DEF RestOfPhone, PhoneScreens
<1>5. OthersHold'
  <2>1. \A j \in Phone!Keys : appVerdict'[j] = "open" => appVerdict[j] = "open"
    BY <1>0, <1>2 DEF RestOfPhone
  <2> QED
    BY <1>0, <1>2, <1>3, <2>1 DEF RestOfPhone, OthersHold, HeldStays
<1>6. CASE UNCHANGED appTask
  BY <1>2, <1>3, <1>4, <1>5, <1>6, PhoneRests
<1>7. CASE Phone!Work("payment", "write", k)
  <2>1. "payment" \in Phone!Tasks /\ "write" \in Phone!Steps
    BY DEF Phone!Tasks, Phone!Steps
  <2>2. PICK x \in PhoneTask : /\ appTask' = [appTask EXCEPT !["payment"] = x]
                               /\ x.step = "write" /\ x.key = k /\ x.to = "none"
    BY <1>7, <2>1, PhoneWorks
  <2>3. TaskHolds("payment", x)'
    BY <1>3, <2>2 DEF TaskHolds, Held
  <2> QED
    BY <1>2, <1>3, <1>4, <1>5, <2>1, <2>2, <2>3, PhoneMoves
<1> QED
  BY <1>1, <1>6, <1>7 DEF Phone!Paid

\* What the button started goes on when its screen is left.
LEMMA LeaveKeeps == ASSUME PhoneInv, Phone!LeaveCheckout PROVE PhoneInv'
<1>0. TasksOfPhone /\ RestOfPhone /\ OthersHold
  BY DEF PhoneInv
<1>1. /\ UNCHANGED <<appVerdict, disk, last, paying, appStray, denied>>
      /\ appScreen' = "shop" /\ pending' = NoKey /\ appTask["left"].step = "idle"
  BY DEF Phone!LeaveCheckout, Phone!At
<1>2. /\ TasksOfPhone' /\ appTask'["left"] = appTask["button"] /\ appTask'["button"] = Phone!Idle
      /\ \A u \in Phone!Tasks : u \notin {"left", "button"} => appTask'[u] = appTask[u]
  <2>1. appTask["button"] \in PhoneTask /\ "left" \in Phone!Tasks /\ "button" \in Phone!Tasks
    BY <1>0 DEF TasksOfPhone, Phone!Tasks, Phone!Buttons
  <2>2. appTask' = [[appTask EXCEPT !["left"] = appTask["button"]] EXCEPT !["button"] = Phone!Idle]
    BY DEF Phone!LeaveCheckout
  <2> QED
    BY <1>0, <2>1, <2>2, IdlePhone DEF TasksOfPhone
<1>3. RestOfPhone' /\ OthersHold'
  BY <1>0, <1>1 DEF RestOfPhone, PhoneScreens, OthersHold, Held, Dropped
<1>4. ASSUME NEW u \in Phone!Tasks PROVE TaskHolds(u, appTask[u])'
  <2>1. \A v \in Phone!Tasks : TaskHolds(v, appTask[v])
    BY DEF PhoneInv
  <2>2. CASE u = "button"
    BY <1>2, <2>2, IdlePhone DEF TaskHolds
  <2>3. CASE u = "left"
    <3>1. TaskHolds("button", appTask["button"])
      BY <2>1 DEF Phone!Tasks, Phone!Buttons
    <3> QED
      BY <1>1, <1>2, <2>3, <3>1 DEF TaskHolds, Held, Dropped, Phone!Buttons
  <2>4. CASE u \notin {"button", "left"}
    BY <1>1, <1>2, <2>1, <2>4 DEF TaskHolds, Held, Dropped
  <2> QED
    BY <2>2, <2>3, <2>4
<1>5. ListIsHeld(appTask["recovery"].list)'
  BY <1>1, <1>2 DEF PhoneInv, ListIsHeld, Held, Dropped, Phone!Tasks
<1>6. OneWriter'
  <2>1. OneWriter /\ {"left", "button"} \subseteq Phone!Tasks
    BY DEF PhoneInv, Phone!Tasks, Phone!Buttons
  <2> QED
    BY <1>1, <1>2, <2>1, IdlePhone DEF OneWriter
<1> QED
  BY <1>2, <1>3, <1>4, <1>5, <1>6 DEF PhoneInv

\* The app is killed: what it remembers is on the disk, and what it sent held.
LEMMA KillKeeps == ASSUME PhoneInv, Phone!Kill PROVE PhoneInv'
<1>0. TasksOfPhone /\ RestOfPhone /\ OthersHold
  BY DEF PhoneInv
<1>1. /\ UNCHANGED <<appVerdict, disk, last, denied>>
      /\ appScreen' = "closed" /\ pending' = NoKey /\ paying' = NoKey
      /\ appTask' = [t \in Phone!Tasks |-> Phone!Idle]
  BY DEF Phone!Kill
<1>2. \A t \in Phone!Tasks : appTask'[t] = Phone!Idle
  BY <1>1
<1>3. TasksOfPhone' /\ OneWriter'
  BY <1>1, <1>2, IdlePhone DEF TasksOfPhone, OneWriter
<1>4. {appTask[t].key : t \in {u \in Phone!Tasks : Phone!At(u, "sent")}} \subseteq {k \in Phone!Keys : Held(k)}
  BY DEF PhoneInv, TaskHolds, Phone!At
<1>5. appStray' \subseteq {k \in Phone!Keys : Held(k)}
  BY <1>0, <1>4 DEF Phone!Kill, RestOfPhone, OthersHold
<1>6. RestOfPhone' /\ OthersHold'
  BY <1>0, <1>1, <1>5 DEF RestOfPhone, PhoneScreens, OthersHold, Held, Dropped
<1>7. \A t \in Phone!Tasks : TaskHolds(t, appTask[t])'
  BY <1>2, IdlePhone DEF TaskHolds
<1>8. ListIsHeld(appTask["recovery"].list)'
  BY <1>2, IdlePhone, NothingIsHeld DEF ListIsHeld, Phone!Tasks
<1> QED
  BY <1>3, <1>6, <1>7, <1>8 DEF PhoneInv

\* The recovery goes through the attempts as it read them.
LEMMA RecoveringKeeps ==
  ASSUME PhoneInv,
         \/ Phone!StartRecovery \/ Phone!EndRecovery \/ Phone!RecoveryAnswered \/ Phone!RecoveryUnanswered
         \/ \E k \in Phone!Keys : Phone!AskFor(k) \/ Phone!Prune(k)
  PROVE  PhoneInv'
<1>0. /\ TasksOfPhone /\ RestOfPhone /\ "recovery" \in Phone!Tasks
      /\ {"none", "CONFIRMED"} \subseteq Phone!AttemptState
      /\ {"next", "sent", "write", "ask"} \subseteq Phone!Steps
  BY DEF PhoneInv, Phone!Tasks, Phone!Steps, Phone!AttemptState
<1>1. UNCHANGED <<appVerdict, disk, last, appScreen, pending, paying, appStray, denied>>
  BY DEF Phone!StartRecovery, Phone!EndRecovery, Phone!RecoveryAnswered, Phone!RecoveryUnanswered,
     Phone!AskFor, Phone!Prune, Phone!appVars
<1>2. PICK y \in PhoneTask : y = appTask["recovery"] /\ TaskHolds("recovery", y) /\ ListIsHeld(y.list)
  BY <1>0 DEF PhoneInv, TasksOfPhone
<1>3. CASE Phone!StartRecovery
  <2>1. PICK c \in PhoneLists : c = disk
    BY <1>0 DEF RestOfPhone
  <2>2. PICK i \in PhoneTask : i = Phone!Idle
    BY IdlePhone
  <2>3. PICK x \in PhoneTask : x = [i EXCEPT !.step = "next", !.list = c] /\ x.step = "next" /\ x.list = c
    <3>1. [i EXCEPT !.step = "next", !.list = c] \in PhoneTask
      BY <1>0 DEF PhoneTask
    <3>2. [i EXCEPT !.step = "next", !.list = c].step = "next" /\ [i EXCEPT !.step = "next", !.list = c].list = c
      BY DEF PhoneTask
    <3> QED
      BY <3>1, <3>2, Zenon
  <2>4. appTask' = [appTask EXCEPT !["recovery"] = x]
    BY <1>3, <2>1, <2>2, <2>3 DEF Phone!StartRecovery, Phone!Be
  <2>5. TaskHolds("recovery", x) /\ ListIsHeld(x.list)
    BY <2>1, <2>3 DEF TaskHolds, ListIsHeld, Held
  <2> QED
    BY <1>0, <1>1, <2>3, <2>4, <2>5, PhoneOnlyMoves
<1>4. CASE Phone!EndRecovery
  <2>1. PICK x \in PhoneTask : x = Phone!Idle /\ x.step = "idle" /\ x.list = Phone!Nothing
    BY IdlePhone
  <2>2. appTask' = [appTask EXCEPT !["recovery"] = x] /\ TaskHolds("recovery", x) /\ ListIsHeld(x.list)
    BY <1>4, <2>1, NothingIsHeld DEF Phone!EndRecovery, Phone!Be, TaskHolds, ListIsHeld
  <2> QED
    BY <1>0, <1>1, <2>1, <2>2, PhoneOnlyMoves
<1>5. CASE Phone!RecoveryAnswered
  <2>1. PICK k \in Phone!Keys : k = y.key /\ Held(k) /\ y.step = "ask"
    BY <1>2, <1>5 DEF Phone!RecoveryAnswered, Phone!At, TaskHolds
  <2>2. ASSUME NEW a \in {"none", "CONFIRMED"}, Phone!ToWrite("recovery", a), a = "none" => Dropped(k)
        PROVE  PhoneInv'
    <3>1. PICK x \in PhoneTask : /\ appTask' = [appTask EXCEPT !["recovery"] = x]
                                 /\ x.step = "write" /\ x.key = k /\ x.list = y.list /\ x.to = a
      BY <1>0, <1>2, <2>1, <2>2, PhoneToWrite
    <3>2. TaskHolds("recovery", x) /\ ListIsHeld(x.list)
      BY <1>2, <2>1, <2>2, <3>1 DEF TaskHolds
    <3> QED
      BY <1>0, <1>1, <3>1, <3>2, PhoneOnlyMoves
  <2>3. CASE appVerdict[k] \in {"open", "done"}
    BY <1>2, <1>5, <2>1, <2>2, <2>3 DEF Phone!RecoveryAnswered
  <2>4. CASE appVerdict[k] = "REJECTED"
    BY <1>2, <1>5, <2>1, <2>2, <2>4 DEF Phone!RecoveryAnswered, Dropped
  <2>5. CASE appVerdict[k] = "none"
    <3>1. Phone!Go("recovery", "sent")
      BY <1>2, <1>5, <2>1, <2>5 DEF Phone!RecoveryAnswered
    <3>2. PICK x \in PhoneTask : /\ appTask' = [appTask EXCEPT !["recovery"] = x]
                                 /\ x.step = "sent" /\ x.key = k /\ x.list = y.list
      BY <1>0, <1>2, <2>1, <3>1, PhoneGoes
    <3>3. TaskHolds("recovery", x) /\ ListIsHeld(x.list)
      BY <1>2, <2>1, <3>2 DEF TaskHolds
    <3> QED
      BY <1>0, <1>1, <3>2, <3>3, PhoneOnlyMoves
  <2> QED
    BY <1>0, <2>3, <2>4, <2>5 DEF RestOfPhone, Phone!Verdicts
<1>6. CASE Phone!RecoveryUnanswered
  <2>1. y.step = "ask" /\ Phone!Go("recovery", "write")
    BY <1>2, <1>6 DEF Phone!RecoveryUnanswered, Phone!At
  <2>2. PICK x \in PhoneTask : /\ appTask' = [appTask EXCEPT !["recovery"] = x]
                               /\ x.step = "write" /\ x.key = y.key /\ x.list = y.list /\ x.to = y.to
    BY <1>0, <1>2, <2>1, PhoneGoes
  <2>3. TaskHolds("recovery", x) /\ ListIsHeld(x.list)
    BY <1>2, <2>1, <2>2 DEF TaskHolds
  <2> QED
    BY <1>0, <1>1, <2>2, <2>3, PhoneOnlyMoves
<1>7. ASSUME NEW k \in Phone!Keys, NEW s \in {"ask", "write"}, NEW a \in Phone!AttemptState,
             Phone!TakeUp(k, s, a), y.list[k] # "none",
             s = "ask" => a # "none", a = "none" => Dropped(k)
      PROVE  PhoneInv'
  <2>1. PICK c \in PhoneLists : c = Phone!OlderThan(k, y.list) /\ \A j \in Phone!Keys : c[j] # "none" => y.list[j] # "none"
    <3>1. y.list \in PhoneLists
      BY DEF PhoneTask
    <3>2. \A j \in Phone!Keys : y.list[j] \in Phone!AttemptState
      BY <3>1 DEF PhoneLists
    <3>3. Phone!OlderThan(k, y.list) \in PhoneLists
      BY <3>2 DEF Phone!OlderThan, PhoneLists, Phone!AttemptState
    <3>4. \A j \in Phone!Keys : Phone!OlderThan(k, y.list)[j] # "none" => y.list[j] # "none"
      BY DEF Phone!OlderThan
    <3> QED
      BY <3>3, <3>4
  <2>2. PICK x \in PhoneTask : /\ x = [y EXCEPT !.step = s, !.key = k, !.to = a, !.list = c]
                               /\ x.step = s /\ x.key = k /\ x.to = a /\ x.list = c
    <3>1. [y EXCEPT !.step = s, !.key = k, !.to = a, !.list = c] \in PhoneTask
      BY <1>0 DEF PhoneTask
    <3>2. /\ [y EXCEPT !.step = s, !.key = k, !.to = a, !.list = c].step = s
          /\ [y EXCEPT !.step = s, !.key = k, !.to = a, !.list = c].key = k
          /\ [y EXCEPT !.step = s, !.key = k, !.to = a, !.list = c].to = a
          /\ [y EXCEPT !.step = s, !.key = k, !.to = a, !.list = c].list = c
      BY DEF PhoneTask
    <3> QED
      BY <3>1, <3>2, Zenon
  <2>3. appTask' = [appTask EXCEPT !["recovery"] = x]
    <3>1. Phone!TakeUp(k, s, a) /\ y = appTask["recovery"]
      BY <1>2, <1>7
    <3>2. [appTask["recovery"] EXCEPT !.step = s, !.key = k, !.to = a, !.list = Phone!OlderThan(k, @)]
            = [y EXCEPT !.step = s, !.key = k, !.to = a, !.list = Phone!OlderThan(k, y.list)]
      BY <3>1 DEF PhoneTask
    <3> QED
      BY <2>1, <2>2, <3>1, <3>2 DEF Phone!TakeUp, Phone!Be
  <2>4. Held(k) /\ ListIsHeld(x.list)
    BY <1>2, <1>7, <2>1, <2>2 DEF ListIsHeld
  <2>5. TaskHolds("recovery", x)
    BY <1>7, <2>2, <2>4 DEF TaskHolds
  <2>6. x.step # "writing"
    BY <2>2
  <2> QED
    BY <1>0, <1>1, <2>3, <2>4, <2>5, <2>6, PhoneOnlyMoves
<1>8. ASSUME NEW k \in Phone!Keys, Phone!AskFor(k) PROVE PhoneInv'
  <2>1. y.list[k] \in {"SENDING", "IN_DOUBT"} /\ Phone!TakeUp(k, "ask", y.list[k])
    BY <1>2, <1>8 DEF Phone!AskFor, Phone!Unresolved
  <2>2. y.list[k] \in Phone!AttemptState
    BY <2>1 DEF Phone!AttemptState
  <2> QED
    BY <1>7, <2>1, <2>2
<1>9. ASSUME NEW k \in Phone!Keys, Phone!Prune(k) PROVE PhoneInv'
  <2>1. y.list[k] = "CONFIRMED" /\ Dropped(k) /\ Phone!TakeUp(k, "write", "none")
    BY <1>2, <1>9 DEF Phone!Prune, Dropped
  <2> QED
    BY <1>0, <1>7, <2>1
<1> QED
  BY <1>3, <1>4, <1>5, <1>6, <1>8, <1>9

\* Every step of the phone keeps the invariant.
LEMMA PhoneStep == ASSUME PhoneInv, [Phone!PhoneNext]_Phone!phoneVars PROVE PhoneInv'
<1>1. CASE Phone!OpenApp \/ Phone!OpenCheckout \/ Phone!Resume \/ Phone!BackToCheckout
  BY <1>1, GoingKeeps
<1>2. CASE Phone!LeaveCheckout
  BY <1>2, LeaveKeeps
<1>3. CASE Phone!Paid
  BY <1>3, PaidKeeps
<1>4. CASE Phone!Press \/ Phone!PressAgain
  BY <1>4, ButtonKeeps
<1>5. ASSUME NEW t \in Phone!Tasks, Phone!TaskNext(t) PROVE PhoneInv'
  BY <1>5, BeginWriteKeeps, EndWriteKeeps, ButtonKeeps, SentKeeps DEF Phone!TaskNext
<1>6. ASSUME NEW k \in Phone!Keys, Phone!LateRequest(k) \/ Phone!OrderEnds(k) PROVE PhoneInv'
  BY <1>6, DecisionKeeps
<1>7. CASE \/ Phone!StartRecovery \/ Phone!EndRecovery \/ Phone!RecoveryAnswered \/ Phone!RecoveryUnanswered
           \/ \E k \in Phone!Keys : Phone!AskFor(k) \/ Phone!Prune(k)
  BY <1>7, RecoveringKeeps
<1>8. CASE Phone!Kill
  BY <1>8, KillKeeps
<1>9. CASE UNCHANGED Phone!phoneVars
  <2>1. UNCHANGED <<appVerdict, disk, last, appScreen, pending, paying, appTask, appStray, denied>>
    BY <1>9 DEF Phone!phoneVars, Phone!appVars
  <2>2. HeldStays /\ RestOfPhone' /\ OthersHold'
    BY <2>1 DEF PhoneInv, RestOfPhone, OthersHold, HeldStays, Held, Dropped
  <2> QED
    BY <2>1, <2>2, PhoneRests
<1> QED
  BY <1>1, <1>2, <1>3, <1>4, <1>5, <1>6, <1>7, <1>8, <1>9, Zenon DEF Phone!PhoneNext

\* The invariant of the phone holds whatever is killed, lost or late.
THEOREM PhoneInvariance == Phone!PhoneSpec => []PhoneInv
<1>1. Phone!PhoneInit => PhoneInv
  <2> SUFFICES ASSUME Phone!PhoneInit PROVE PhoneInv
    OBVIOUS
  <2>1. \A t \in Phone!Tasks : appTask[t] = Phone!Idle
    BY DEF Phone!PhoneInit
  <2>2. TasksOfPhone /\ OneWriter
    BY <2>1, IdlePhone DEF Phone!PhoneInit, TasksOfPhone, OneWriter
  <2>3. RestOfPhone /\ OthersHold
    BY NothingIsHeld, ScreensAssumption
       DEF Phone!PhoneInit, RestOfPhone, OthersHold, Phone!Verdicts, PhoneScreens
  <2>4. (\A t \in Phone!Tasks : TaskHolds(t, appTask[t])) /\ ListIsHeld(appTask["recovery"].list)
    BY <2>1, IdlePhone, NothingIsHeld DEF TaskHolds, ListIsHeld, Phone!Tasks
  <2> QED
    BY <2>2, <2>3, <2>4 DEF PhoneInv
<1>2. PhoneInv /\ [Phone!PhoneNext]_Phone!phoneVars => PhoneInv'
  BY PhoneStep
<1> QED
  BY <1>1, <1>2, PTL DEF Phone!PhoneSpec

\* An order that waits for its payment is remembered by the phone that made it, an
\* answer that refused the session aside.
THEOREM OpenOrderIsKeptHolds == Phone!PhoneSpec => []OpenOrderIsKept
<1>1. PhoneInv => OpenOrderIsKept
  BY DEF PhoneInv, OthersHold, Held, Dropped, OpenOrderIsKept, Phone!OpenOrderIsKept
<1> QED
  BY <1>1, PhoneInvariance, PTL

-----------------------------------------------------------------------------
(* The scenes that are model-checked *)

\* What the model checker visits are behaviours of the three screens, so what is
\* proved of them without scenes and bounds is what was checked within them.
THEOREM ScenesAreOfTheScreens == MCSpec => Phone!PhoneSpec /\ Web!WebSpec /\ Payment!PayingSpec
<1>1. MCInit => Phone!PhoneInit /\ Web!WebInit /\ Payment!PayingInit
  BY ZenonT(60) DEF MCInit
<1>2. [MCNext]_mcVars => [Phone!PhoneNext]_Phone!phoneVars
  BY ZenonT(60) DEF MCNext, mcVars, phoneVars, Phone!phoneVars, Phone!appVars
<1>3. [MCNext]_mcVars => [Web!WebNext]_Web!webVars
  BY ZenonT(60) DEF MCNext, mcVars, webVars, Web!webVars, Web!offline, Web!browser, Web!history
<1>4. [MCNext]_mcVars => [Payment!PayingNext]_Payment!payingVars
  BY ZenonT(60) DEF MCNext, mcVars, payingVars, Payment!payingVars
<1> QED
  BY <1>1, <1>2, <1>3, <1>4, PTL DEF MCSpec, Phone!PhoneSpec, Web!WebSpec, Payment!PayingSpec

\* Every property of the screens, together, for any number of purchases and drafts.
THEOREM ScenesAreSafe ==
  MCSpec => /\ []OpenOrderIsKept /\ []DraftKept
            /\ []PurchaseNotForgotten /\ NewPurchaseIsReviewed /\ SuccessIsReal
BY ScenesAreOfTheScreens, OpenOrderIsKeptHolds, DraftKeptHolds, PurchaseNotForgottenHolds,
   NewPurchaseIsReviewedHolds, SuccessIsRealHolds, PTL
=============================================================================
