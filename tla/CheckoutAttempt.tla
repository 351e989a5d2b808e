--------------------------- MODULE CheckoutAttempt ---------------------------
(***************************************************************************)
(* Buying a cart with an Idempotency-Key: the shopper's device, which keeps *)
(* every attempt until it knows its result, and POST /orders, which claims *)
(* the key, locks the cart, and confirms or records a rejection.           *)
(*                                                                         *)
(* A request runs its handler step by step.  A step is one statement that  *)
(* other requests can see or wait for: the rows a transaction has inserted *)
(* or locked are "claim" and "holder" until it commits or rolls back.      *)
(***************************************************************************)
EXTENDS Naturals

CONSTANTS
  Keys,       \* Idempotency-Keys of one shopper
  Requests,   \* requests in flight
  None,       \* nobody
  MaxVersion  \* bound on the revisions of the cart

ASSUME AttemptAssumption == None \notin Requests /\ MaxVersion \in Nat

VARIABLES
  row,      \* committed status of checkout_attempts
  claim,    \* who has inserted the row of a key and not committed
  holder,   \* who has locked the cart
  version,  \* version of the cart
  orders,   \* committed orders: key, revision the shopper saw, revision bought
  client,   \* state of the attempt on the device
  seen,     \* revision of the cart in the payload of the attempt
  told,     \* results the store sent and the device got
  work      \* the requests

vars == <<row, claim, holder, version, orders, client, seen, told, work>>

Versions == 0..MaxVersion
OrderRow == [key : Keys, seen : Versions, at : Versions]
Answers  == {"bought", "refused", "uncertain", "unauthorized"}
Steps    == {"idle", "ask", "enter", "claim", "lock", "buy", "commit", "again",
             "record", "winner", "answer"}
Task     == [step : Steps, key : Keys \cup {None}, ans : Answers, heard : BOOLEAN]

Resting == [step |-> "idle", key |-> None, ans |-> "uncertain", heard |-> FALSE]

At(w, step)     == work[w].step = step
Rest(w)         == work' = [work EXCEPT ![w] = Resting]
Become(w, step, ans) ==
  work' = [work EXCEPT ![w] = [step |-> step, key |-> work[w].key, ans |-> ans, heard |-> work[w].heard]]
Go(w, step)     == Become(w, step, "uncertain")
Answer(w, ans)  == IF work[w].heard THEN Become(w, "answer", ans) ELSE Rest(w)
Send(w, step, k) == work' = [work EXCEPT ![w] = [step |-> step, key |-> k, ans |-> "uncertain", heard |-> TRUE]]

Bought(k) == \E o \in orders : o.key = k

\* The transaction of w, if it is in one, ends and lets its rows go.
Release(w) ==
  /\ claim' = [k \in Keys |-> IF claim[k] = w THEN None ELSE claim[k]]
  /\ holder' = IF holder = w THEN None ELSE holder

store == <<row, claim, holder, version, orders>>

-----------------------------------------------------------------------------
(* The device: utils/checkoutAttempts.ts *)

\* createAttempt keeps the key and the payload before anything is sent.  The
\* cart on the screen may be an old one.
CreateAttempt(w, k) ==
  /\ client[k] = "none" /\ At(w, "idle")
  /\ \E v \in 0..version : seen' = [seen EXCEPT ![k] = v]
  /\ client' = [client EXCEPT ![k] = "SENDING"]
  /\ Send(w, "enter", k)
  /\ UNCHANGED <<store, told>>

\* A pass of the recovery asks for the result first.
RecoverInDoubt(w, k) ==
  /\ client[k] = "IN_DOUBT" /\ At(w, "idle")
  /\ Send(w, "ask", k)
  /\ UNCHANGED <<store, client, seen, told>>

Recover(w, k) ==
  /\ client[k] \in {"SENDING", "IN_DOUBT"} /\ At(w, "idle")
  /\ Send(w, "ask", k)
  /\ UNCHANGED <<store, client, seen, told>>

\* getAttempt sees committed rows only; 404 proves nothing and the purchase
\* is sent again with its key.
GetAttempt(w) ==
  LET k == work[w].key IN
  /\ At(w, "ask")
  /\ \/ row[k] = "none" /\ Go(w, "enter") /\ UNCHANGED <<client, told>>
     \/ /\ row[k] = "SUCCEEDED"
        /\ client' = [client EXCEPT ![k] = IF @ = "gone" THEN @ ELSE "CONFIRMED"]
        /\ told' = [told EXCEPT ![k] = @ \cup {"bought"}]
        /\ Rest(w)
     \/ /\ row[k] = "REJECTED"
        /\ client' = [client EXCEPT ![k] = "gone"]
        /\ told' = [told EXCEPT ![k] = @ \cup {"refused"}]
        /\ Rest(w)
  /\ UNCHANGED <<store, seen>>

\* submitAttempt: no answer, 5xx, 408, 429 and ATTEMPT_IN_PROGRESS leave the
\* attempt in doubt; an order confirms it; any other answer removes it.
AfterAnswer(k, ans) ==
  client' = [client EXCEPT ![k] =
    CASE @ = "gone" -> "gone"
      [] ans = "uncertain" -> "IN_DOUBT"
      [] ans = "bought" -> "CONFIRMED"
      [] OTHER -> "gone"]

Receive(w) ==
  LET k == work[w].key IN
  /\ At(w, "answer")
  /\ AfterAnswer(k, work[w].ans)
  /\ told' = [told EXCEPT ![k] = @ \cup ({work[w].ans} \cap {"bought", "refused"})]
  /\ Rest(w)
  /\ UNCHANGED <<store, seen>>

\* The device stops waiting: a timeout, or the application was closed.
StopWaiting(w) ==
  /\ work[w].heard
  /\ IF At(w, "ask") \/ At(w, "answer") THEN Rest(w) ELSE work' = [work EXCEPT ![w] =
       [step |-> work[w].step, key |-> work[w].key, ans |-> "uncertain", heard |-> FALSE]]
  /\ \/ ~At(w, "ask") /\ AfterAnswer(work[w].key, "uncertain")
     \/ UNCHANGED client
  /\ UNCHANGED <<store, seen, told>>

-----------------------------------------------------------------------------
(* POST /orders: OrdersService.create *)

\* The guards in front of the handler know nothing of the attempt.
Unauthorized(w) ==
  /\ At(w, "enter")
  /\ Answer(w, "unauthorized")
  /\ UNCHANGED <<store, client, seen, told>>

\* replayAttempt answers a result that is known.  Otherwise the payment method,
\* the branch and the address are checked before the transaction starts.
ReplayAttempt(w) ==
  LET k == work[w].key IN
  /\ At(w, "enter")
  /\ \/ row[k] = "none"      /\ (Go(w, "claim") \/ Go(w, "record"))
     \/ row[k] = "SUCCEEDED" /\ Answer(w, "bought")
     \/ row[k] = "REJECTED"  /\ Answer(w, "refused")
  /\ UNCHANGED <<store, client, seen, told>>

\* INSERT ... ON CONFLICT DO NOTHING waits for whoever has inserted the key.
Claim(w) ==
  LET k == work[w].key IN
  /\ At(w, "claim") /\ claim[k] = None
  /\ IF row[k] = "none"
     THEN claim' = [claim EXCEPT ![k] = w] /\ Go(w, "lock")
     ELSE UNCHANGED claim /\ Go(w, "again")
  /\ UNCHANGED <<row, holder, version, orders, client, seen, told>>

LockCart(w) ==
  /\ At(w, "lock") /\ holder = None
  /\ holder' = w
  /\ Go(w, "buy")
  /\ UNCHANGED <<row, claim, version, orders, client, seen, told>>

\* The cart must be the one the shopper saw; prices, stock or an expired
\* reservation may refuse the purchase all the same.
Buy(w) ==
  /\ At(w, "buy")
  /\ \/ version = seen[work[w].key] /\ version < MaxVersion /\ Go(w, "commit") /\ UNCHANGED <<claim, holder>>
     \/ Release(w) /\ Go(w, "record")
  /\ UNCHANGED <<row, version, orders, client, seen, told>>

Commit(w) ==
  LET k == work[w].key IN
  /\ At(w, "commit")
  /\ orders' = orders \cup {[key |-> k, seen |-> seen[k], at |-> version]}
  /\ version' = version + 1
  /\ row' = [row EXCEPT ![k] = "SUCCEEDED"]
  /\ Release(w)
  /\ Answer(w, "bought")
  /\ UNCHANGED <<client, seen, told>>

\* Somebody else has resolved the key.
ReplayAgain(w) ==
  LET k == work[w].key IN
  /\ At(w, "again")
  /\ IF row[k] = "REJECTED" THEN Go(w, "record")
                           ELSE Answer(w, IF row[k] = "SUCCEEDED" THEN "bought" ELSE "uncertain")
  /\ UNCHANGED <<store, client, seen, told>>

\* recordRejection skips a row that exists, waiting for whoever inserts it.
RecordAlways(w) ==
  /\ At(w, "record") /\ claim[work[w].key] = None
  /\ row' = [row EXCEPT ![work[w].key] = "REJECTED"]
  /\ Go(w, "winner")
  /\ UNCHANGED <<claim, holder, version, orders, client, seen, told>>

RecordRejection(w) ==
  /\ At(w, "record") /\ claim[work[w].key] = None
  /\ row' = [row EXCEPT ![work[w].key] = IF @ = "none" THEN "REJECTED" ELSE @]
  /\ Go(w, "winner")
  /\ UNCHANGED <<claim, holder, version, orders, client, seen, told>>

\* The same purchase may have been made by another request meanwhile.
Winner(w) ==
  /\ At(w, "winner")
  /\ Answer(w, IF row[work[w].key] = "SUCCEEDED" THEN "bought" ELSE "refused")
  /\ UNCHANGED <<store, client, seen, told>>

\* withTxRetry starts the transaction again after a transient conflict; when it
\* gives up, or after a lock timeout, the answer is no result.
Abort(w) ==
  /\ work[w].step \in {"claim", "lock", "buy", "commit"}
  /\ Release(w)
  /\ Go(w, "claim") \/ Answer(w, "uncertain")
  /\ UNCHANGED <<row, version, orders, client, seen, told>>

\* The API stops: nothing is answered, and the database rolls back.
Crash(w) ==
  /\ work[w].step \notin {"idle", "ask"}
  /\ Release(w)
  /\ IF work[w].heard THEN AfterAnswer(work[w].key, "uncertain") ELSE UNCHANGED client
  /\ Rest(w)
  /\ UNCHANGED <<row, version, orders, seen, told>>

\* Another device of the shopper, or the cleanup cron, changes the cart.
ChangeCart ==
  /\ holder = None /\ version < MaxVersion
  /\ version' = version + 1
  /\ UNCHANGED <<row, claim, holder, orders, client, seen, told, work>>

-----------------------------------------------------------------------------

Init ==
  /\ row = [k \in Keys |-> "none"] /\ claim = [k \in Keys |-> None] /\ holder = None
  /\ version = 0 /\ orders = {}
  /\ client = [k \in Keys |-> "none"] /\ seen = [k \in Keys |-> 0] /\ told = [k \in Keys |-> {}]
  /\ work = [w \in Requests |-> Resting]

Advance(w) ==
  \/ GetAttempt(w) \/ ReplayAttempt(w) \/ Claim(w) \/ LockCart(w) \/ Buy(w) \/ Commit(w)
  \/ ReplayAgain(w) \/ RecordRejection(w) \/ Winner(w) \/ Receive(w)

Fault(w) == StopWaiting(w) \/ Unauthorized(w) \/ Abort(w) \/ Crash(w)

Next ==
  \/ \E w \in Requests, k \in Keys : CreateAttempt(w, k) \/ Recover(w, k)
  \/ \E w \in Requests : Advance(w) \/ Fault(w)
  \/ ChangeCart

Spec == Init /\ [][Next]_vars

\* Every request that the API accepted goes on; the device comes back to its
\* attempts every 30 seconds; outages come to an end.
Fairness ==
  /\ \A w \in Requests : WF_vars(Advance(w))
  /\ \A k \in Keys : SF_vars(\E w \in Requests : Recover(w, k))
  /\ <>[][~ \E w \in Requests : Fault(w)]_vars

FairSpec == Spec /\ Fairness

-----------------------------------------------------------------------------
(* Properties *)

\* Every row, attempt and request has the values its type allows.
TypeOK ==
  /\ row \in [Keys -> {"none", "SUCCEEDED", "REJECTED"}]
  /\ claim \in [Keys -> Requests \cup {None}] /\ holder \in Requests \cup {None}
  /\ version \in Versions /\ orders \subseteq OrderRow
  /\ client \in [Keys -> {"none", "SENDING", "IN_DOUBT", "CONFIRMED", "gone"}]
  /\ seen \in [Keys -> Versions] /\ told \in [Keys -> SUBSET {"bought", "refused"}]
  /\ work \in [Requests -> Task]

\* A purchase sent twice, at once or after a lost answer, makes one order; and
\* two purchases of the same revision of a cart, from two tabs, make one too.
SoldOnce == \A o, p \in orders : o.key = p.key \/ o.seen = p.seen => o = p

\* A shopper who was told by the store that a purchase was refused, by any of
\* the requests that carried it, never owns an order made by that purchase.
RefusalIsFinal == \A k \in Keys : "refused" \in told[k] => ~Bought(k)

\* The handler and the device implement a purchase that is decided once.
Abstract == INSTANCE Purchase WITH sold <- orders, refused <- {k \in Keys : row[k] = "REJECTED"}
ImplementsPurchase == Abstract!Spec

\* No attempt stays in doubt: the device ends up with its order, or without it.
DoubtEnds == \A k \in Keys : client[k] \in {"SENDING", "IN_DOUBT"} ~> client[k] \in {"CONFIRMED", "gone"}
=============================================================================
