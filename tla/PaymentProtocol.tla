--------------------------- MODULE PaymentProtocol ---------------------------
(***************************************************************************)
(* The payment of one order: card attempts, the provider behind them,      *)
(* manual proofs, cancellation, expiry and refunds.                        *)
(*                                                                         *)
(* Requests, webhook handlers and the passes of the maintenance cron are   *)
(* workers.  A worker runs one operation step by step; each step is one    *)
(* database transaction, one statement outside a transaction or one call   *)
(* to the provider, and between two steps anything else may happen.  A     *)
(* worker that crashes, times out or answers an error just stops.          *)
(*                                                                         *)
(* A charge is an attempt together with the PaymentIntent the provider     *)
(* keeps for it: the idempotency key, and later the search by attempt,     *)
(* give every attempt at most one (stripe-gateway.service.ts).             *)
(***************************************************************************)
EXTENDS FiniteSets

CONSTANTS
  Charges,   \* identifiers that attempts may take
  Requests,  \* workers that serve customers, staff and webhooks
  Passes,    \* workers that run the passes of the maintenance cron
  None,      \* no charge
  Manual,    \* transactionId of a payment approved from its proof
  Actors     \* which of "proof", "return", "staff" take part

Workers == Requests \cup Passes

ASSUME PaymentAssumption ==
  /\ None \notin Charges /\ Manual \notin Charges /\ None # Manual
  /\ Actors \subseteq {"proof", "return", "staff"}

VARIABLES
  ord,      \* the order: status, paymentStatus, stripePaymentIntentId and deadlines
  payment,  \* its row of payments
  att,      \* status of payment_attempts
  linked,   \* attempts that know their PaymentIntent
  old,      \* attempts past the idempotency horizon of the provider
  comp,     \* payment_compensations
  proof,    \* its payment_proof
  pi,       \* external: status of the PaymentIntent of an attempt
  refund,   \* external: status of its refund
  known,    \* charges whose client_secret the customer has
  inbox,    \* webhook events that are not PROCESSED
  work      \* what each worker is doing

local    == <<ord, payment, att, linked, comp, proof>>
provider == <<pi, refund, inbox>>
vars     == <<local, provider, old, known, work>>

-----------------------------------------------------------------------------
(* Rows *)

AttStatus    == {"NONE", "CREATED", "OPEN", "SUCCEEDED", "CANCELED", "ABANDONED"}
IntentStatus == {"NONE", "OPEN", "PROCESSING", "SUCCEEDED", "CANCELED"}
CompStatus   == {"NONE", "REQUESTED", "REFUND_PENDING", "REFUNDED", "MANUAL_REVIEW"}
Reasons      == {"NONE", "LATE_PAYMENT", "DUPLICATE_CHARGE"}
RefundStatus == {"NONE", "PENDING", "SUCCEEDED", "FAILED"}
ProofStatus  == {"NONE", "PENDIENTE", "APROBADO", "RECHAZADO"}
PayStatus    == {"PENDIENTE", "FALLIDO", "COMPLETADO", "REEMBOLSADO"}
OrderStatus  == {"PENDIENTE", "PROCESANDO", "ENVIADO", "CANCELADO"}
EventKind    == {"succeeded", "payment_failed", "canceled", "refunded"}

OrderRow   == [status : OrderStatus, pay : PayStatus, intent : Charges \cup {None},
               overdue : BOOLEAN, cancelRequested : BOOLEAN]
PaymentRow == [status : PayStatus \cup {"NONE"}, tx : Charges \cup {None, Manual}]
CompRow    == [status : CompStatus, reason : Reasons]
Event      == [kind : EventKind, c : Charges]

Ops   == {"none", "pay", "recover", "confirm", "event", "cancel", "sweep", "proof", "refund"}
Steps == {"idle", "retrieve", "search", "create", "abandon", "link", "got", "settle", "fail",
          "close", "done", "atProvider", "cancel", "resolve", "find", "ask", "withdraw", "giveUp",
          "free", "hold", "call", "read", "refunded", "note"}
Sights == {"NONE"} \cup IntentStatus \cup RefundStatus \cup EventKind
Task  == [op : Ops, step : Steps, c : Charges \cup {None}, saw : Sights]

\* The steps that are not about one charge.
Unbound == {"idle", "cancel", "resolve", "free", "hold"}

Resting == [op |-> "none", step |-> "idle", c |-> None, saw |-> "NONE"]

-----------------------------------------------------------------------------
(* Workers *)

Idle(w)       == work[w] = Resting
At(w, step)   == work[w].step = step
Does(w, op)   == work[w].op = op
Start(w, op, step, c, saw) ==
  work' = [work EXCEPT ![w] = [op |-> op, step |-> step, c |-> c, saw |-> saw]]
Go(w, step)   == work' = [work EXCEPT ![w].step = step]
Learn(w, step, saw) == work' = [work EXCEPT ![w].step = step, ![w].saw = saw]
Rest(w)       == work' = [work EXCEPT ![w] = Resting]

Emit(kind, c) == inbox' = inbox \cup {[kind |-> kind, c |-> c]}

Live == {c \in Charges : att[c] \in {"CREATED", "OPEN"}}

\* assertOrderPayable
Payable ==
  /\ ord.pay \notin {"COMPLETADO", "REEMBOLSADO"}
  /\ ord.status = "PENDIENTE"
  /\ ~ord.cancelRequested
  /\ ~ord.overdue

\* Which attempts become CANCELED when the order is released or changes method.
LiveClosed == [c \in Charges |-> IF c \in Live THEN "CANCELED" ELSE att[c]]

-----------------------------------------------------------------------------
(* createPaymentIntent *)

ObtainStep(c) == IF c \in linked THEN "retrieve" ELSE IF c \in old THEN "search" ELSE "create"

\* The attempt is persisted before the provider hears of it.  A live attempt
\* is used again; there is at most one (partial unique index).
StartPayAlwaysFresh(w) ==
  /\ Idle(w) /\ Payable
  /\ \E c \in {x \in Charges : att[x] = "NONE"} :
       /\ att' = [att EXCEPT ![c] = "CREATED"]
       /\ payment' = IF payment.status = "NONE" THEN [status |-> "PENDIENTE", tx |-> None] ELSE payment
       /\ Start(w, "pay", ObtainStep(c), c, "NONE")
  /\ UNCHANGED <<ord, linked, comp, proof, provider, old, known>>

StartPay(w) ==
  /\ Idle(w) /\ Payable
  /\ \E c \in IF Live = {} THEN {x \in Charges : att[x] = "NONE"} ELSE Live :
       /\ att' = [att EXCEPT ![c] = IF @ = "NONE" THEN "CREATED" ELSE @]
       /\ payment' = IF payment.status = "NONE"
                     THEN [status |-> "PENDIENTE", tx |-> IF c \in linked THEN c ELSE None] ELSE payment
       /\ Start(w, "pay", ObtainStep(c), c, "NONE")
  /\ UNCHANGED <<ord, linked, comp, proof, provider, old, known>>

\* recoverStaleAttempts: an attempt that never learned its PaymentIntent.
StartRecover(w) ==
  /\ Idle(w)
  /\ \E c \in Charges \ linked : att[c] = "CREATED" /\ Start(w, "recover", ObtainStep(c), c, "NONE")
  /\ UNCHANGED <<local, provider, old, known>>

\* obtainIntent with a known PaymentIntent; RETRY is a new call.
Retrieve(w) ==
  LET c == work[w].c IN
  /\ At(w, "retrieve")
  /\ IF pi[c] = "CANCELED"
     THEN /\ att' = [att EXCEPT ![c] = IF @ = "OPEN" THEN "CANCELED" ELSE @]
          /\ Rest(w)
     ELSE /\ Learn(w, "got", pi[c])
          /\ UNCHANGED att
  /\ UNCHANGED <<ord, payment, linked, comp, proof, provider, old, known>>

\* obtainIntent past the horizon: search before creating anything.
Search(w) ==
  LET c == work[w].c IN
  /\ At(w, "search")
  /\ IF pi[c] = "NONE" THEN Go(w, "abandon") ELSE Learn(w, "link", pi[c])
  /\ UNCHANGED <<local, provider, old, known>>

Abandon(w) ==
  LET c == work[w].c IN
  /\ At(w, "abandon") \/ At(w, "giveUp")
  /\ att' = [att EXCEPT ![c] = IF @ = "CREATED" THEN "ABANDONED" ELSE @]
  /\ IF At(w, "giveUp") THEN Go(w, "free") ELSE Rest(w)
  /\ UNCHANGED <<ord, payment, linked, comp, proof, provider, old, known>>

\* The provider creates the PaymentIntent, or repeats its first answer.
Create(w) ==
  LET c == work[w].c IN
  /\ At(w, "create")
  /\ pi' = [pi EXCEPT ![c] = IF @ = "NONE" THEN "OPEN" ELSE @]
  /\ Learn(w, "link", "OPEN")
  /\ UNCHANGED <<local, refund, inbox, old, known>>

\* linkIntent never reopens an attempt that has ended.
Link(w) ==
  LET c == work[w].c IN
  /\ At(w, "link")
  /\ att' = [att EXCEPT ![c] = IF c \in Live THEN "OPEN" ELSE @]
  /\ linked' = linked \cup {c}
  /\ payment' = IF payment.status \in {"NONE", "COMPLETADO"} THEN payment ELSE [payment EXCEPT !.tx = c]
  /\ ord' = IF ord.pay = "COMPLETADO" THEN ord ELSE [ord EXCEPT !.intent = c]
  /\ Go(w, IF Does(w, "pay") \/ Does(w, "recover") THEN "got" ELSE "ask")
  /\ UNCHANGED <<comp, proof, provider, old, known>>

\* The customer gets the client_secret of a PaymentIntent that can still be
\* paid; a charge that was already taken is reconciled.
UseIntent(w) ==
  /\ At(w, "got")
  /\ IF work[w].saw = "SUCCEEDED" THEN Go(w, "settle") ELSE Rest(w)
  /\ known' = IF Does(w, "pay") /\ work[w].saw = "OPEN" THEN known \cup {work[w].c} ELSE known
  /\ UNCHANGED <<local, provider, old>>

\* confirmPayment: the customer asks to look at the provider.
StartConfirm(w) ==
  /\ Idle(w)
  /\ \E c \in linked : Start(w, "confirm", "got", c, pi[c])
  /\ UNCHANGED <<local, provider, old, known>>

-----------------------------------------------------------------------------
(* PaymentSettlementService *)

RequestRefund(c, reason) ==
  comp' = IF comp[c].status = "NONE"
          THEN [comp EXCEPT ![c] = [status |-> "REQUESTED", reason |-> reason]] ELSE comp

Settled(tx) ==
  /\ payment' = [status |-> "COMPLETADO", tx |-> tx]
  /\ ord' = [ord EXCEPT !.pay = "COMPLETADO", !.status = "PROCESANDO", !.overdue = FALSE,
                        !.cancelRequested = FALSE, !.intent = IF tx = Manual THEN @ ELSE tx]

AfterSettle(w) == IF Does(w, "event") THEN Go(w, "done") ELSE Rest(w)

\* settleInTx for a card charge.  A repeated notice of the charge that pays the
\* order is told from a second charge by the PaymentIntent of the order.
SettleWhenReleased(w) ==
  LET c == work[w].c IN
  /\ At(w, "settle")
  /\ \/ /\ ord.pay \in {"COMPLETADO", "REEMBOLSADO"}
        /\ ord.intent = c
        /\ UNCHANGED <<ord, payment, att, comp>>
     \/ /\ ord.pay \in {"COMPLETADO", "REEMBOLSADO"}
        /\ ord.intent # c
        /\ RequestRefund(c, "DUPLICATE_CHARGE")
        /\ UNCHANGED <<ord, payment, att>>
     \/ /\ ord.pay \notin {"COMPLETADO", "REEMBOLSADO"}
        /\ Settled(c)
        /\ att' = [att EXCEPT ![c] = IF c \in linked THEN "SUCCEEDED" ELSE @]
        /\ UNCHANGED comp
  /\ AfterSettle(w)
  /\ UNCHANGED <<linked, proof, provider, old, known>>

Settle(w) ==
  LET c == work[w].c IN
  /\ At(w, "settle")
  /\ \/ /\ ord.pay \in {"COMPLETADO", "REEMBOLSADO"}
        /\ ord.intent = c
        /\ UNCHANGED <<ord, payment, att, comp>>
     \/ /\ ord.pay \in {"COMPLETADO", "REEMBOLSADO"}
        /\ ord.intent # c
        /\ RequestRefund(c, "DUPLICATE_CHARGE")
        /\ UNCHANGED <<ord, payment, att>>
     \/ /\ ord.pay \notin {"COMPLETADO", "REEMBOLSADO"}
        /\ ord.status = "CANCELADO"
        /\ RequestRefund(c, "LATE_PAYMENT")
        /\ UNCHANGED <<ord, payment, att>>
     \/ /\ ord.pay \notin {"COMPLETADO", "REEMBOLSADO"}
        /\ ord.status # "CANCELADO"
        /\ Settled(c)
        /\ att' = [att EXCEPT ![c] = IF c \in linked THEN "SUCCEEDED" ELSE @]
        /\ UNCHANGED comp
  /\ AfterSettle(w)
  /\ UNCHANGED <<linked, proof, provider, old, known>>

\* cancelInTx; FALSE when the order was paid or released before.
CancellableByStatus(o) == o.status = "PENDIENTE"

Cancellable(o) == o.status = "PENDIENTE" /\ o.pay # "COMPLETADO"

Released(o) == [o EXCEPT !.status = "CANCELADO", !.overdue = FALSE, !.cancelRequested = FALSE]

\* OrdersService.cancel: intention, provider, transaction.
StartCancel(w) ==
  /\ Idle(w) /\ ord.status = "PENDIENTE"
  /\ ord' = [ord EXCEPT !.cancelRequested = TRUE]
  /\ \/ \E c \in Live \cap linked : Start(w, "cancel", "atProvider", c, "NONE")
     \/ Live \cap linked = {} /\ Start(w, "cancel", "cancel", None, "NONE")
  /\ UNCHANGED <<payment, att, linked, comp, proof, provider, old, known>>

CancelPayment(c) == pi' = [pi EXCEPT ![c] = "CANCELED"] /\ Emit("canceled", c)

CancelAtProvider(w) ==
  LET c == work[w].c IN
  /\ At(w, "atProvider")
  /\ \/ pi[c] = "OPEN" /\ CancelPayment(c) /\ Go(w, "cancel")
     \/ pi[c] = "CANCELED"   /\ Go(w, "cancel") /\ UNCHANGED <<pi, inbox>>
     \/ pi[c] = "SUCCEEDED"  /\ Go(w, "settle") /\ UNCHANGED <<pi, inbox>>
     \/ pi[c] = "PROCESSING" /\ Rest(w)         /\ UNCHANGED <<pi, inbox>>
  /\ UNCHANGED <<local, refund, old, known>>

CancelOrder(w) ==
  /\ At(w, "cancel")
  /\ IF Cancellable(ord) THEN ord' = Released(ord) /\ att' = LiveClosed ELSE UNCHANGED <<ord, att>>
  /\ Rest(w)
  /\ UNCHANGED <<payment, linked, comp, proof, provider, old, known>>

-----------------------------------------------------------------------------
(* Webhook events *)

\* processInboxRow: the event stays in the inbox until its work is done.
StartEventMarkedFirst(w, e) ==
  /\ Idle(w) /\ e \in inbox
  /\ Start(w, "event", CASE e.kind = "succeeded"      -> "settle"
                         [] e.kind = "payment_failed" -> "fail"
                         [] e.kind = "canceled"       -> "close"
                         [] e.kind = "refunded"       -> "read", e.c, e.kind)
  /\ inbox' = inbox \ {e}
  /\ UNCHANGED <<local, pi, refund, old, known>>

StartEvent(w, e) ==
  /\ Idle(w) /\ e \in inbox
  /\ Start(w, "event", CASE e.kind = "succeeded"      -> "settle"
                         [] e.kind = "payment_failed" -> "fail"
                         [] e.kind = "canceled"       -> "close"
                         [] e.kind = "refunded"       -> "read", e.c, e.kind)
  /\ UNCHANGED <<local, provider, old, known>>

\* A failed try is written only over PENDIENTE.
MarkFailedAlways(w) ==
  /\ At(w, "fail")
  /\ ord' = [ord EXCEPT !.pay = "FALLIDO"]
  /\ payment' = [payment EXCEPT !.status = IF @ = "PENDIENTE" THEN "FALLIDO" ELSE @]
  /\ Go(w, "done")
  /\ UNCHANGED <<att, linked, comp, proof, provider, old, known>>

MarkFailed(w) ==
  /\ At(w, "fail")
  /\ IF ord.pay = "PENDIENTE" /\ ord.status = "PENDIENTE"
     THEN /\ ord' = [ord EXCEPT !.pay = "FALLIDO"]
          /\ payment' = [payment EXCEPT !.status = IF @ = "PENDIENTE" THEN "FALLIDO" ELSE @]
     ELSE UNCHANGED <<ord, payment>>
  /\ Go(w, "done")
  /\ UNCHANGED <<att, linked, comp, proof, provider, old, known>>

MarkIntentCanceled(w) ==
  LET c == work[w].c IN
  /\ At(w, "close")
  /\ att' = [att EXCEPT ![c] = IF c \in linked /\ c \in Live THEN "CANCELED" ELSE @]
  /\ Go(w, "done")
  /\ UNCHANGED <<ord, payment, linked, comp, proof, provider, old, known>>

MarkProcessed(w) ==
  /\ At(w, "done")
  /\ inbox' = inbox \ {[kind |-> work[w].saw, c |-> work[w].c]}
  /\ Rest(w)
  /\ UNCHANGED <<local, pi, refund, old, known>>

-----------------------------------------------------------------------------
(* Maintenance: expired orders and interrupted cancellations *)

Expired == ord.overdue /\ proof # "PENDIENTE"

StartSweepExpiredOnly(w) ==
  /\ Idle(w)
  /\ ord.status = "PENDIENTE" /\ ord.pay \in {"PENDIENTE", "FALLIDO"}
  /\ Expired
  /\ Start(w, "sweep", "resolve", None, "NONE")
  /\ UNCHANGED <<local, provider, old, known>>

StartSweep(w) ==
  /\ Idle(w)
  /\ ord.status = "PENDIENTE" /\ ord.pay \in {"PENDIENTE", "FALLIDO"}
  /\ ord.cancelRequested \/ Expired
  /\ Start(w, "sweep", "resolve", None, "NONE")
  /\ UNCHANGED <<local, provider, old, known>>

\* resolveProviderBeforeRelease: FREE goes to "free", HOLD to "hold", PAID settles.
Resolve(w) ==
  /\ At(w, "resolve")
  /\ \/ Live = {} /\ Go(w, "free")
     \/ \E c \in Live : Start(w, work[w].op, IF c \in linked THEN "ask" ELSE "find", c, "NONE")
  /\ UNCHANGED <<local, provider, old, known>>

Find(w) ==
  /\ At(w, "find")
  /\ Go(w, IF pi[work[w].c] = "NONE" THEN "giveUp" ELSE "link")
  /\ UNCHANGED <<local, provider, old, known>>

Ask(w) ==
  LET c == work[w].c IN
  /\ At(w, "ask")
  /\ \/ pi[c] = "SUCCEEDED"  /\ Go(w, "settle")
     \/ pi[c] = "PROCESSING" /\ Go(w, "hold")
     \/ pi[c] = "CANCELED"   /\ Go(w, "free")
     \/ pi[c] = "OPEN"       /\ Go(w, "withdraw")
  /\ UNCHANGED <<local, provider, old, known>>

Withdraw(w) ==
  LET c == work[w].c IN
  /\ At(w, "withdraw")
  /\ \/ pi[c] = "OPEN" /\ CancelPayment(c) /\ Go(w, "free")
     \/ pi[c] = "SUCCEEDED"  /\ Go(w, "settle") /\ UNCHANGED <<pi, inbox>>
     \/ pi[c] = "CANCELED"   /\ Go(w, "free")   /\ UNCHANGED <<pi, inbox>>
     \/ pi[c] = "PROCESSING" /\ Go(w, "hold")   /\ UNCHANGED <<pi, inbox>>
  /\ UNCHANGED <<local, refund, old, known>>

\* The provider does not answer.
Unanswered(w) ==
  /\ work[w].step \in {"find", "ask", "withdraw"}
  /\ Go(w, "hold")
  /\ UNCHANGED <<local, provider, old, known>>

\* The order was listed before its provider was asked: it is looked at again.
Release(w) ==
  /\ At(w, "free") /\ Does(w, "sweep")
  /\ IF (Expired \/ ord.cancelRequested) /\ Cancellable(ord)
     THEN ord' = Released(ord) /\ att' = LiveClosed
     ELSE UNCHANGED <<ord, att>>
  /\ Rest(w)
  /\ UNCHANGED <<payment, linked, comp, proof, provider, old, known>>

HoldForReconciliation(w) ==
  /\ At(w, "hold")
  /\ ord' = IF Does(w, "sweep") /\ ord.status = "PENDIENTE" THEN [ord EXCEPT !.overdue = FALSE] ELSE ord
  /\ Rest(w)
  /\ UNCHANGED <<payment, att, linked, comp, proof, provider, old, known>>

-----------------------------------------------------------------------------
(* Manual proofs *)

StartProof(w) ==
  /\ "proof" \in Actors /\ Idle(w)
  /\ ord.status = "PENDIENTE" /\ ord.pay = "PENDIENTE" /\ proof \in {"NONE", "PENDIENTE"}
  /\ Start(w, "proof", "resolve", None, "NONE")
  /\ UNCHANGED <<local, provider, old, known>>

Submit(w) ==
  /\ At(w, "free") /\ Does(w, "proof")
  /\ IF ord.status = "PENDIENTE" /\ ord.pay # "COMPLETADO"
     THEN att' = LiveClosed /\ proof' = "PENDIENTE" ELSE UNCHANGED <<att, proof>>
  /\ Rest(w)
  /\ UNCHANGED <<ord, payment, linked, comp, provider, old, known>>

Approve ==
  /\ proof = "PENDIENTE" /\ ord.status # "CANCELADO"
  /\ proof' = "APROBADO"
  /\ IF ord.pay \in {"COMPLETADO", "REEMBOLSADO"} THEN UNCHANGED <<ord, payment>> ELSE Settled(Manual)
  /\ UNCHANGED <<att, linked, comp, provider, old, known, work>>

Reject ==
  LET failed == [ord EXCEPT !.pay = "FALLIDO"] IN
  /\ proof = "PENDIENTE"
  /\ proof' = "RECHAZADO"
  /\ IF Cancellable(failed) THEN ord' = Released(failed) /\ att' = LiveClosed
                            ELSE ord' = failed /\ UNCHANGED att
  /\ UNCHANGED <<payment, linked, comp, provider, old, known, work>>

-----------------------------------------------------------------------------
(* Compensations *)

\* processCompensations lists REQUESTED rows and calls the provider.
StartRefund(w) ==
  /\ Idle(w)
  /\ \E c \in Charges : comp[c].status = "REQUESTED" /\ Start(w, "refund", "call", c, "NONE")
  /\ UNCHANGED <<local, provider, old, known>>

\* The idempotency key makes the provider repeat its first answer.
CallRefund(w) ==
  LET c == work[w].c IN
  /\ At(w, "call")
  /\ \E r \in {"PENDING", "SUCCEEDED", "FAILED"} :
       /\ \/ /\ refund[c] = "NONE"
             /\ refund' = [refund EXCEPT ![c] = r]
             /\ IF r = "SUCCEEDED" THEN Emit("refunded", c) ELSE UNCHANGED inbox
          \/ /\ r = refund[c] \/ (r = "PENDING" /\ refund[c] = "SUCCEEDED")
             /\ UNCHANGED <<refund, inbox>>
       /\ Learn(w, IF r = "SUCCEEDED" THEN "read" ELSE "note", r)
  /\ UNCHANGED <<local, pi, old, known>>

NoteRefund(w) ==
  LET c == work[w].c IN
  /\ At(w, "note")
  /\ comp' = [comp EXCEPT ![c].status = IF work[w].saw = "FAILED" THEN "MANUAL_REVIEW" ELSE "REFUND_PENDING"]
  /\ Rest(w)
  /\ UNCHANGED <<ord, payment, att, linked, proof, provider, old, known>>

\* The provider rejected the refund for the fifth time.
RefundRejected(w) ==
  LET c == work[w].c IN
  /\ At(w, "call") /\ refund[c] = "NONE"
  /\ comp' = [comp EXCEPT ![c].status = "MANUAL_REVIEW"]
  /\ Rest(w)
  /\ UNCHANGED <<ord, payment, att, linked, proof, provider, old, known>>

\* markCompensationRefunded: the row is read first and written later.
ReadCompensation(w) ==
  LET c == work[w].c IN
  /\ At(w, "read")
  /\ IF comp[c].status \in {"NONE", "REFUNDED"}
     THEN IF Does(w, "event") THEN Go(w, "done") ELSE Rest(w)
     ELSE Go(w, "refunded")
  /\ UNCHANGED <<local, provider, old, known>>

MarkRefunded(w) ==
  LET c == work[w].c IN
  /\ At(w, "refunded")
  /\ comp' = [comp EXCEPT ![c].status = "REFUNDED"]
  /\ IF comp[c].reason = "LATE_PAYMENT"
     THEN /\ ord' = [ord EXCEPT !.pay = "REEMBOLSADO"]
          /\ payment' = IF payment.status = "NONE" THEN payment ELSE [status |-> "REEMBOLSADO", tx |-> c]
     ELSE UNCHANGED <<ord, payment>>
  /\ IF Does(w, "event") THEN Go(w, "done") ELSE Rest(w)
  /\ UNCHANGED <<att, linked, proof, provider, old, known>>

-----------------------------------------------------------------------------
(* Everything else that touches the order *)

\* A full return refunds the order and leaves its payment as it was.
Return ==
  /\ "return" \in Actors
  /\ ord.pay = "COMPLETADO" /\ ord.status # "CANCELADO"
  /\ ord' = [ord EXCEPT !.pay = "REEMBOLSADO"]
  /\ UNCHANGED <<payment, att, linked, comp, proof, provider, old, known, work>>

StaffStatus ==
  /\ "staff" \in Actors /\ ord.status # "CANCELADO"
  /\ \E s \in OrderStatus \ {"CANCELADO"} : ord' = [ord EXCEPT !.status = s]
  /\ UNCHANGED <<payment, att, linked, comp, proof, provider, old, known, work>>

\* The clock passes paymentExpiresAt, which is cleared when the order is paid
\* or released.  A pass of the cron compares with the time it started, so for
\* a running pass an extended deadline does not expire again.
TimePasses ==
  /\ \A w \in Workers : ~Does(w, "sweep")
  /\ ord.pay \in {"PENDIENTE", "FALLIDO"} /\ ord.status # "CANCELADO" /\ ~ord.overdue
  /\ ord' = [ord EXCEPT !.overdue = TRUE]
  /\ UNCHANGED <<payment, att, linked, comp, proof, provider, old, known, work>>

\* An attempt gets past the horizon.  No request lasts for 23 hours.
Age(c) ==
  /\ att[c] = "CREATED" /\ c \notin linked \cup old
  /\ \A w \in Workers : work[w].c # c
  /\ old' = old \cup {c}
  /\ UNCHANGED <<local, provider, known, work>>

Crash(w) ==
  /\ ~Idle(w) /\ Rest(w)
  /\ UNCHANGED <<local, provider, old, known>>

\* The provider and the customer's bank.
Pay(c) ==
  /\ c \in known /\ pi[c] = "OPEN"
  /\ \E s \in {"PROCESSING", "SUCCEEDED"} :
       /\ pi' = [pi EXCEPT ![c] = s]
       /\ IF s = "SUCCEEDED" THEN Emit("succeeded", c) ELSE UNCHANGED inbox
  /\ UNCHANGED <<local, refund, old, known, work>>

Taken(c) ==
  /\ pi[c] = "PROCESSING"
  /\ pi' = [pi EXCEPT ![c] = "SUCCEEDED"] /\ Emit("succeeded", c)
  /\ UNCHANGED <<local, refund, old, known, work>>

Declined(c) ==
  /\ pi[c] = "PROCESSING"
  /\ pi' = [pi EXCEPT ![c] = "OPEN"] /\ Emit("payment_failed", c)
  /\ UNCHANGED <<local, refund, old, known, work>>

RefundClears(c) ==
  /\ refund[c] = "PENDING"
  /\ refund' = [refund EXCEPT ![c] = "SUCCEEDED"] /\ Emit("refunded", c)
  /\ UNCHANGED <<local, pi, old, known, work>>

-----------------------------------------------------------------------------

Init ==
  /\ ord = [status |-> "PENDIENTE", pay |-> "PENDIENTE", intent |-> None,
            overdue |-> FALSE, cancelRequested |-> FALSE]
  /\ payment = [status |-> "NONE", tx |-> None]
  /\ att = [c \in Charges |-> "NONE"]
  /\ linked = {} /\ old = {} /\ known = {} /\ inbox = {}
  /\ comp = [c \in Charges |-> [status |-> "NONE", reason |-> "NONE"]]
  /\ proof = "NONE"
  /\ pi = [c \in Charges |-> "NONE"]
  /\ refund = [c \in Charges |-> "NONE"]
  /\ work = [w \in Workers |-> Resting]

Request(w) == StartPay(w) \/ StartConfirm(w) \/ StartCancel(w) \/ StartProof(w)

Pass(w) == StartRecover(w) \/ StartSweep(w) \/ StartRefund(w)

Advance(w) ==
  \/ Retrieve(w) \/ Search(w) \/ Abandon(w) \/ Create(w) \/ Link(w) \/ UseIntent(w) \/ Settle(w)
  \/ CancelAtProvider(w) \/ CancelOrder(w)
  \/ MarkFailed(w) \/ MarkIntentCanceled(w) \/ MarkProcessed(w)
  \/ Resolve(w) \/ Find(w) \/ Ask(w) \/ Withdraw(w) \/ Release(w) \/ HoldForReconciliation(w)
  \/ Submit(w)
  \/ CallRefund(w) \/ NoteRefund(w) \/ ReadCompensation(w) \/ MarkRefunded(w)

Fault(w) == Unanswered(w) \/ RefundRejected(w) \/ Crash(w)

Outside(c) == Pay(c) \/ Taken(c) \/ Declined(c) \/ RefundClears(c) \/ Age(c)

Next ==
  \/ \E w \in Requests : Request(w)
  \/ \E w \in Passes : Pass(w)
  \/ \E w \in Workers : Advance(w) \/ Fault(w) \/ (\E e \in inbox : StartEvent(w, e))
  \/ \E c \in Charges : Outside(c)
  \/ Approve \/ Reject \/ Return \/ StaffStatus \/ TimePasses

Spec == Init /\ [][Next]_vars

\* What keeps going: what started goes on, an event stays in the inbox, whose
\* sweep comes back every minute, every tick of the cron reaches the order, and a
\* charge that is being processed clears.  Crashes, outages and new attempts of
\* the customer to pay come to an end.
Fairness ==
  /\ \A w \in Workers : WF_vars(Advance(w))
  /\ \A c \in Charges, k \in EventKind :
       SF_vars(\E w \in Workers : [kind |-> k, c |-> c] \in inbox /\ StartEvent(w, [kind |-> k, c |-> c]))
  /\ \A w \in Passes : SF_vars(StartSweep(w))
  /\ \A c \in Charges : WF_vars(Taken(c) \/ Declined(c))
  /\ <>[][~ \E w \in Workers : Fault(w)]_vars /\ <>[][~ \E c \in Charges : Pay(c)]_vars

FairSpec == Spec /\ Fairness

-----------------------------------------------------------------------------
(* Properties *)

RowTypes ==
  /\ ord \in OrderRow /\ payment \in PaymentRow /\ proof \in ProofStatus
  /\ att \in [Charges -> AttStatus] /\ comp \in [Charges -> CompRow]
  /\ pi \in [Charges -> IntentStatus] /\ refund \in [Charges -> RefundStatus]
  /\ linked \subseteq Charges /\ old \subseteq Charges /\ known \subseteq Charges
  /\ inbox \subseteq Event

TaskTypes ==
  /\ work \in [Workers -> Task]
  /\ \A w \in Workers : work[w].step \notin Unbound => work[w].c \in Charges

\* Every row and every task has its type, and a step on a charge has one.
TypeOK == RowTypes /\ TaskTypes

Kept(c)      == payment = [status |-> "COMPLETADO", tx |-> c]
Accounted(c) == Kept(c) \/ comp[c].status # "NONE"

\* What the protocol promises about money, as a specification of its own.
LedgerCharge == [c \in Charges |->
  CASE pi[c] = "NONE" -> "none"
    [] pi[c] = "CANCELED" -> "void"
    [] pi[c] \in {"OPEN", "PROCESSING"} -> "open"
    [] pi[c] = "SUCCEEDED" -> IF Kept(c) THEN "kept"
                              ELSE IF comp[c].status = "NONE" THEN "taken"
                              ELSE IF refund[c] = "SUCCEEDED" THEN "returned" ELSE "owed"]

LedgerSale == IF ord.status = "CANCELADO" THEN "released"
              ELSE IF payment.status = "COMPLETADO" THEN "paid" ELSE "waiting"

Ledger == INSTANCE ChargeLedger WITH charge <- LedgerCharge, sale <- LedgerSale

\* Card payments implement the ledger: of all the charges an order ever has,
\* it keeps at most one, for good, and gives back those it takes too late.
ImplementsLedger == Ledger!Spec

\* A charge the provider has taken and whose event was processed either pays
\* the order or has a compensation: no interleaving of requests, crashes,
\* cancellations and the cron forgets the customer's money.
NoChargeForgotten ==
  \A c \in Charges :
    pi[c] = "SUCCEEDED" /\ [kind |-> "succeeded", c |-> c] \notin inbox => Accounted(c)

\* Cancelling an order that staff moved back to PENDIENTE does not release the
\* units of a paid one.
PaidIsNotReleased == ord.pay = "COMPLETADO" => ord.status # "CANCELADO"

\* The metric paidWithoutConsistentOrder of checkout-maintenance.service.ts
\* is zero: a completed payment belongs to an order that is paid.
PaidConsistently == payment.status = "COMPLETADO" => ord.pay = "COMPLETADO"

\* The customer never holds two PaymentIntents of one order that can both
\* still be paid.
OneOpenCharge ==
  \A c, d \in known : pi[c] \in {"OPEN", "PROCESSING"} /\ pi[d] \in {"OPEN", "PROCESSING"} => c = d

\* Every charge the provider takes is in the end kept or compensated.
EveryChargeAccounted == \A c \in Charges : pi[c] = "SUCCEEDED" ~> Accounted(c)

\* A requested cancellation ends even if the API crashed halfway: the order is
\* released, or its charge had been taken and it is paid.
CancellationsEnd == ord.cancelRequested ~> ~ord.cancelRequested
=============================================================================
