----------------------------- MODULE AppPayment -----------------------------
(***************************************************************************)
(* The payment screen of the mobile app and one order (PaymentScreen.tsx). *)
(*                                                                         *)
(* The screen asks for the options of the store, opens a card payment,     *)
(* polls for a QR payment, confirms one of those two, or hands in the      *)
(* proof of a transfer; each of these is a request of its own, and the     *)
(* customer may change the tab while they are answered.  On the other side *)
(* the order is paid, cancelled or refunded by somebody else, and staff    *)
(* decide about the proof.  The charge is at the provider.                 *)
(***************************************************************************)

VARIABLES
  sale,  \* the order: payment, status, who paid it, proof, charge
  pane,  \* React state of the screen
  call   \* what each request is at, or its answer

payingVars == <<sale, pane, call>>

Requested == {"options", "intent", "poll", "qr", "proof", "card"}
Answers   == {"ok", "paid", "pending", "error", "lost"}

\* kept: the attempt of the order is remembered; tabs: the methods on offer.
Blank == [open |-> FALSE, kept |-> TRUE, loading |-> TRUE, ready |-> FALSE, success |-> FALSE,
          tab |-> "stripe", tabs |-> {}]
Quiet == [c \in Requested |-> "idle"]

Idle(c)     == call[c] = "idle"
Reach(c, s) == call' = [call EXCEPT ![c] = s]
\* The request goes on to its next step at the server, or is answered.
At(c, s)    == call[c] = s

Settled   == sale.pay \in {"COMPLETADO", "REEMBOLSADO"}
Payable   == ~Settled /\ sale.status = "PENDIENTE"

-----------------------------------------------------------------------------
(* The server and the provider *)

\* settleInTx: an order that is paid or cancelled stays as it is.
SettledBy(who) ==
  IF Settled \/ sale.status = "CANCELADO" THEN sale
  ELSE [sale EXCEPT !.pay = "COMPLETADO", !.status = "PROCESANDO", !.by = who]

\* createPaymentIntent: the order is checked, then the provider is asked.  A
\* charge that succeeded is settled first; after one that was canceled it is
\* tried once more.
OpenIntent ==
  /\ At("intent", "sent")
  /\ \/ Settled /\ Reach("intent", "paid") /\ UNCHANGED sale
     \/ ~Settled /\ Reach("intent", "error") /\ UNCHANGED sale
     \/ /\ Payable /\ Reach("intent", "checked")
        /\ sale' = [sale EXCEPT !.charge = IF @ \in {"none", "canceled"} THEN "open" ELSE @]
  /\ UNCHANGED pane

ObtainIntent ==
  /\ At("intent", "checked")
  /\ \/ sale.charge = "succeeded" /\ sale' = SettledBy("card") /\ Reach("intent", "paid")
     \/ sale.charge = "processing" /\ Reach("intent", "pending") /\ UNCHANGED sale
     \/ sale.charge = "open" /\ Reach("intent", "ok") /\ UNCHANGED sale
     \/ sale.charge = "canceled" /\ Reach("intent", "sent") /\ UNCHANGED sale
  /\ UNCHANGED pane

\* confirmPayment: the test card is charged, and what the provider says applied.
ChargeCard ==
  /\ At("card", "sent")
  /\ \E c \in {"succeeded", "processing", "open"} :
       sale' = [sale EXCEPT !.charge = IF @ = "open" THEN c ELSE @]
  /\ Reach("card", "checked")
  /\ UNCHANGED pane

ConfirmCard ==
  /\ At("card", "checked")
  /\ IF sale.charge = "succeeded"
     THEN /\ sale' = SettledBy("card")
          /\ Reach("card", IF sale'.by = "card" THEN "ok" ELSE "error")
     ELSE /\ Reach("card", IF sale.charge = "processing" THEN "pending" ELSE "error")
          /\ UNCHANGED sale
  /\ UNCHANGED pane

\* getQrPaymentStatus.
PollOrder ==
  /\ At("poll", "sent")
  /\ Reach("poll", IF sale.pay = "COMPLETADO" THEN "paid" ELSE "ok")
  /\ UNCHANGED <<sale, pane>>

\* markQrPaymentSucceeded: a cancelled order is refused, and then, in another
\* transaction, the order is settled if it still can be.
CheckQr ==
  /\ At("qr", "sent")
  /\ Reach("qr", IF sale.status = "CANCELADO" THEN "error" ELSE "checked")
  /\ UNCHANGED <<sale, pane>>

SettleQr ==
  /\ At("qr", "checked")
  /\ sale' = SettledBy("qr") /\ Reach("qr", "ok")
  /\ UNCHANGED pane

\* submit: a card payment that is open is withdrawn first.
CheckProof ==
  LET fits == sale.status = "PENDIENTE" /\ sale.pay = "PENDIENTE" /\ sale.proof \in {"none", "PENDIENTE"} IN
  /\ At("proof", "sent")
  /\ \/ Reach("proof", "error") /\ UNCHANGED sale
     \/ fits /\ sale.charge = "succeeded" /\ sale' = SettledBy("card") /\ Reach("proof", "error")
     \/ fits /\ sale.charge = "none" /\ UNCHANGED sale /\ Reach("proof", "checked")
     \/ /\ fits /\ sale.charge \in {"open", "canceled"} /\ Reach("proof", "checked")
        /\ sale' = [sale EXCEPT !.charge = "canceled"]
  /\ UNCHANGED pane

SaveProof ==
  /\ At("proof", "checked")
  /\ IF sale.status = "PENDIENTE" /\ sale.pay # "COMPLETADO"
     THEN sale' = [sale EXCEPT !.proof = "PENDIENTE"] /\ Reach("proof", "ok")
     ELSE UNCHANGED sale /\ Reach("proof", "error")
  /\ UNCHANGED pane

\* The options of the store; nothing of the order.
Options ==
  /\ At("options", "sent") /\ Reach("options", "ok")
  /\ UNCHANGED <<sale, pane>>

Lose(c) ==
  /\ call[c] \notin {"idle", "lost"}
  /\ Reach(c, "lost")
  /\ UNCHANGED <<sale, pane>>

\* The customer pays in the browser, and the webhook arrives.
PayElsewhere ==
  /\ \/ /\ sale.charge \in {"open", "processing"}
        /\ \E c \in {"open", "processing", "succeeded"} : sale' = [sale EXCEPT !.charge = c]
     \/ sale.charge = "succeeded" /\ sale' = SettledBy("card")
  /\ UNCHANGED <<pane, call>>

\* Staff decide about the proof, or the money is given back.
ReviewProof ==
  /\ sale.proof = "PENDIENTE"
  /\ \/ sale.status # "CANCELADO" /\ sale' = [SettledBy("staff") EXCEPT !.proof = "APROBADO"]
     \/ sale' = [sale EXCEPT !.proof = "RECHAZADO", !.pay = "FALLIDO",
                             !.status = IF @ = "PENDIENTE" THEN "CANCELADO" ELSE @]
  /\ UNCHANGED <<pane, call>>

Refund ==
  /\ sale.pay = "COMPLETADO"
  /\ sale' = [sale EXCEPT !.pay = "REEMBOLSADO"]
  /\ UNCHANGED <<pane, call>>

\* Nothing is cancelled while the provider has, or may have, the money.
CancelOrder ==
  /\ Payable /\ sale.charge \notin {"processing", "succeeded"}
  /\ sale' = [sale EXCEPT !.status = "CANCELADO", !.charge = IF @ = "open" THEN "canceled" ELSE @]
  /\ UNCHANGED <<pane, call>>

-----------------------------------------------------------------------------
(* The screen *)

\* The answers of a screen that was left are dropped before it opens again.
OpenPayment ==
  /\ ~pane.open /\ call = Quiet
  /\ pane' = [Blank EXCEPT !.open = TRUE, !.kept = pane.kept]
  /\ Reach("options", "sent")
  /\ UNCHANGED sale

LeavePayment ==
  /\ pane.open
  /\ pane' = [Blank EXCEPT !.kept = pane.kept]
  /\ UNCHANGED <<sale, call>>

Ignored(c) ==
  /\ ~pane.open /\ call[c] \in Answers
  /\ Reach(c, "idle")
  /\ UNCHANGED <<sale, pane>>

Answered(c, as) == pane.open /\ call[c] \in as
Show(new)       == pane' = new /\ UNCHANGED sale

\* Without a card the screen opens on the wallet, or on the QR.
FirstTab(tabs) ==
  IF "stripe" \in tabs THEN pane.tab ELSE IF "wallet" \in tabs THEN "wallet" ELSE "qr"

OptionsAnswered ==
  /\ Answered("options", {"ok", "lost"})
  /\ \E tabs \in SUBSET {"stripe", "qr", "wallet"} :
       /\ call["options"] = "lost" => tabs = {}
       /\ Show([pane EXCEPT !.tabs = tabs, !.loading = "stripe" \in tabs, !.tab = FirstTab(tabs)])
       /\ call' = [call EXCEPT !["options"] = "idle",
                               !["intent"] = IF "stripe" \in tabs THEN "sent" ELSE @]

\* An order that is paid is a success; one that is being paid is not.
IntentAnsweredOrPending ==
  /\ Answered("intent", Answers)
  /\ Show([pane EXCEPT !.loading = FALSE, !.ready = @ \/ call["intent"] = "ok",
                        !.success = @ \/ call["intent"] \in {"paid", "pending"}])
  /\ Reach("intent", "idle")

IntentAnswered ==
  /\ Answered("intent", Answers)
  /\ Show([pane EXCEPT !.loading = FALSE, !.ready = @ \/ call["intent"] = "ok",
                        !.success = @ \/ call["intent"] = "paid"])
  /\ Reach("intent", "idle")

SelectTab(m) ==
  /\ pane.open /\ ~pane.loading /\ ~pane.success /\ m \in pane.tabs
  /\ Show([pane EXCEPT !.tab = m])
  /\ UNCHANGED call

\* Every 2.5 seconds on the QR tab, until the order is paid.
Poll ==
  /\ pane.open /\ pane.tab = "qr" /\ ~pane.success /\ Idle("poll")
  /\ Reach("poll", "sent")
  /\ UNCHANGED <<sale, pane>>

\* The buttons: confirm the QR, hand in a proof, pay with the card.
Send(c, tab) ==
  /\ pane.open /\ ~pane.loading /\ ~pane.success
  /\ pane.tab = tab /\ tab \in pane.tabs /\ Idle(c)
  /\ c = "card" => pane.ready
  /\ Reach(c, "sent")
  /\ UNCHANGED <<sale, pane>>

\* The answer counts whatever tab is shown by now.  No answer, or one that is
\* pending, is no success.
ButtonAnswered(c) ==
  /\ Answered(c, Answers)
  /\ Show([pane EXCEPT !.success = @ \/ call[c] = IF c = "poll" THEN "paid" ELSE "ok"])
  /\ Reach(c, "idle")

\* forgetAttemptsOfOrder, after a success.
Forget ==
  /\ pane.success /\ pane.kept
  /\ Show([pane EXCEPT !.kept = FALSE])
  /\ UNCHANGED call

-----------------------------------------------------------------------------

PayingInit ==
  /\ sale = [pay |-> "PENDIENTE", status |-> "PENDIENTE", by |-> "nobody", proof |-> "none", charge |-> "none"]
  /\ pane = Blank /\ call = Quiet

ServerNext ==
  \/ OpenIntent \/ ObtainIntent \/ ChargeCard \/ ConfirmCard \/ PollOrder \/ CheckQr \/ SettleQr
  \/ CheckProof \/ SaveProof \/ Options
  \/ PayElsewhere \/ ReviewProof \/ Refund \/ CancelOrder

ScreenNext ==
  \/ OpenPayment \/ LeavePayment \/ OptionsAnswered \/ IntentAnswered \/ Poll \/ Forget
  \/ \E m \in {"stripe", "qr", "wallet"} : SelectTab(m)
  \/ Send("qr", "qr") \/ Send("proof", "wallet") \/ Send("card", "stripe")
  \/ \E c \in {"poll", "qr", "proof", "card"} : ButtonAnswered(c)
  \/ \E c \in Requested : Ignored(c) \/ Lose(c)

PayingNext == ServerNext \/ ScreenNext

PayingSpec == PayingInit /\ [][PayingNext]_payingVars

-----------------------------------------------------------------------------
(* Properties *)

\* The app calls a payment a success, and forgets the purchase, only if the
\* order was paid or a proof of payment was registered by then, whatever tab is
\* shown and whoever paid or cancelled it meanwhile; a simulated QR payment that
\* crosses a cancellation is answered as a success too.
SuccessIsReal ==
  [][~pane.success /\ pane'.success =>
       Settled \/ sale.proof # "none" \/ (call["qr"] = "ok" /\ sale.status = "CANCELADO")]_payingVars
=============================================================================
