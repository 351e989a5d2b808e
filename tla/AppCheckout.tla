----------------------------- MODULE AppCheckout -----------------------------
(***************************************************************************)
(* The checkout screen of the mobile app and the purchases it remembers.   *)
(*                                                                         *)
(* A purchase is written to the storage of the phone before it is sent, so *)
(* that it is found again after the app is killed.  That storage has no    *)
(* transactions: a write reads the whole list and puts it back, and writes *)
(* wait for each other (app_movil/src/utils/checkoutAttempts.ts).  Four    *)
(* tasks write: the button of the screen, the one of a screen that was     *)
(* left, the recovery that runs while the app is open, and the payment     *)
(* screen.  What POST /orders does inside is CheckoutAttempt's; here it    *)
(* decides in one step.                                                    *)
(***************************************************************************)
EXTENDS Integers

CONSTANTS
  MaxKeys,  \* bound: purchases started on this phone
  NoKey

Keys    == 1..MaxKeys  \* attemptId, numbered as they are created
Buttons == {"button", "left"}
Tasks   == Buttons \cup {"recovery", "payment"}

VARIABLES
  verdict,  \* what the server decided about a key
  disk,     \* state of each attempt in the storage of the phone
  last,     \* the attempts that were numbered
  screen,   \* where the customer is
  pending,  \* pendingAttempt of the checkout screen
  paying,   \* the order of the payment screen
  task,     \* what each task is at
  stray,    \* requests on their way that nobody waits for any more
  denied    \* attempts dropped because the session had ended

appVars   == <<screen, pending, paying>>
phoneVars == <<verdict, disk, last, appVars, task, stray, denied>>

Verdicts     == {"none", "open", "done", "REJECTED"}
AttemptState == {"none", "SENDING", "IN_DOUBT", "CONFIRMED"}
Steps        == {"idle", "reading", "write", "writing", "sent", "next", "ask"}

\* list: the attempts a recovery pass read; copy: those a write read and is to
\* put back; to: the state it gives to key.
Nothing == [k \in Keys |-> "none"]
Idle    == [step |-> "idle", key |-> NoKey, list |-> Nothing, copy |-> Nothing, to |-> "none"]

At(t, s) == task[t].step = s
Be(t, x) == task' = [task EXCEPT ![t] = x]
Go(t, s) == task' = [task EXCEPT ![t].step = s]
Work(t, s, k) == Be(t, [Idle EXCEPT !.step = s, !.key = k])
ToWrite(t, state) == task' = [task EXCEPT ![t].step = "write", ![t].to = state]

Stored    == {k \in Keys : disk[k] # "none"}
Newest(K) == CHOOSE k \in K : \A j \in K : j <= k

-----------------------------------------------------------------------------
(* The storage: a write puts back the list it read, with one attempt changed *)

BeginWrite(t) ==
  /\ At(t, "write") /\ \A u \in Tasks : ~At(u, "writing")
  /\ task' = [task EXCEPT ![t].step = "writing", ![t].copy = disk]
  /\ UNCHANGED <<verdict, disk, last, appVars, stray, denied>>

Creates(t) == t \in Buttons /\ task[t].to = "SENDING"

\* Patching or removing an attempt that is not in the list changes nothing.
PutBack(t) ==
  LET k == task[t].key
  IN  IF task[t].copy[k] = "none" /\ ~Creates(t) THEN task[t].copy
      ELSE [task[t].copy EXCEPT ![k] = task[t].to]

\* A task goes on after its write: a new attempt is sent, a result is shown.
EndWrite(t) ==
  LET k == task[t].key IN
  /\ At(t, "writing")
  /\ disk' = PutBack(t)
  /\ task' = [task EXCEPT ![t] =
       CASE Creates(t)     -> [@ EXCEPT !.step = "sent", !.copy = Nothing]
         [] t = "recovery" -> [@ EXCEPT !.step = "next", !.copy = Nothing]
         [] OTHER          -> Idle]
  /\ pending' = CASE t # "button"                        -> pending
                  [] task[t].to \in {"SENDING", "IN_DOUBT"} -> k
                  [] OTHER                               -> NoKey
  /\ IF t \in Buttons /\ task[t].to = "CONFIRMED"
     THEN screen' = "payment" /\ paying' = k ELSE UNCHANGED <<screen, paying>>
  /\ UNCHANGED <<verdict, last, stray, denied>>

-----------------------------------------------------------------------------
(* The screens *)

OpenApp ==
  /\ screen = "closed"
  /\ screen' = "shop"
  /\ UNCHANGED <<verdict, disk, last, pending, paying, task, stray, denied>>

\* The screen can be used while it reads what is remembered.
OpenCheckout ==
  /\ screen = "shop"
  /\ screen' = "opening" /\ pending' = NoKey
  /\ UNCHANGED <<verdict, disk, last, paying, task, stray, denied>>

\* The newest purchase that is remembered is resumed: to be paid, or sent again.
ToPayment(k) == screen' = "payment" /\ paying' = k

Resume ==
  /\ screen = "opening"
  /\ IF Stored # {} /\ disk[Newest(Stored)] = "CONFIRMED"
     THEN ToPayment(Newest(Stored)) /\ UNCHANGED pending
     ELSE /\ screen' = "checkout" /\ UNCHANGED paying
          /\ pending' = IF Stored = {} THEN pending ELSE Newest(Stored)
  /\ UNCHANGED <<verdict, disk, last, task, stray, denied>>

\* What the button started goes on when its screen is left.
LeaveCheckout ==
  /\ screen \in {"opening", "checkout"} /\ At("left", "idle")
  /\ screen' = "shop" /\ pending' = NoKey
  /\ task' = [task EXCEPT !["left"] = task["button"], !["button"] = Idle]
  /\ UNCHANGED <<verdict, disk, last, paying, stray, denied>>

BackToCheckout ==
  /\ screen = "payment"
  /\ screen' = "checkout" /\ paying' = NoKey
  /\ UNCHANGED <<verdict, disk, last, pending, task, stray, denied>>

\* The order is paid, or a proof was sent: nothing of it is to be recovered.
Paid ==
  /\ screen = "payment" /\ verdict[paying] \in {"open", "done"} /\ At("payment", "idle")
  /\ verdict' = [verdict EXCEPT ![paying] = "done"]
  /\ screen' = "shop" /\ pending' = NoKey /\ paying' = NoKey
  /\ IF disk[paying] = "CONFIRMED" THEN Work("payment", "write", paying) ELSE UNCHANGED task
  /\ UNCHANGED <<disk, last, stray, denied>>

\* handleCreateOrder: a purchase in doubt is sent again with its key.
PressAgain ==
  /\ screen \in {"opening", "checkout"} /\ At("button", "idle") /\ pending # NoKey
  /\ Work("button", "sent", pending)
  /\ UNCHANGED <<verdict, disk, last, appVars, stray, denied>>

\* A new one: the revision of the cart is asked for, then the attempt is written.
Press ==
  /\ screen \in {"opening", "checkout"} /\ At("button", "idle") /\ pending = NoKey
  /\ last < MaxKeys /\ last' = last + 1
  /\ Work("button", "reading", last + 1)
  /\ UNCHANGED <<verdict, disk, appVars, stray, denied>>

ReadRevision(t) ==
  /\ At(t, "reading")
  /\ ToWrite(t, "SENDING")
  /\ UNCHANGED <<verdict, disk, last, appVars, stray, denied>>

\* No answer: nothing was saved and nothing is sent.
ReadFails(t) ==
  /\ At(t, "reading")
  /\ Be(t, Idle)
  /\ UNCHANGED <<verdict, disk, last, appVars, stray, denied>>

-----------------------------------------------------------------------------
(* POST /orders with the key of the attempt *)

\* The server decides once about a key, and answers that decision again.
Decide(k) ==
  IF verdict[k] = "none" THEN \E v \in {"open", "REJECTED"} : verdict' = [verdict EXCEPT ![k] = v]
                         ELSE UNCHANGED verdict

Answered(t) ==
  /\ At(t, "sent")
  /\ Decide(task[t].key)
  /\ ToWrite(t, IF verdict'[task[t].key] = "REJECTED" THEN "none" ELSE "CONFIRMED")
  /\ UNCHANGED <<disk, last, appVars, stray, denied>>

\* A timeout or a 5xx: the request may still reach the server, or never does.
UncertainAsRefused(t) ==
  /\ At(t, "sent")
  /\ ToWrite(t, "none")
  /\ stray' \in {stray, stray \cup {task[t].key}}
  /\ UNCHANGED <<verdict, disk, last, appVars, denied>>

Uncertain(t) ==
  /\ At(t, "sent")
  /\ ToWrite(t, "IN_DOUBT")
  /\ stray' \in {stray, stray \cup {task[t].key}}
  /\ UNCHANGED <<verdict, disk, last, appVars, denied>>

\* A 401 counts as a decision, whatever an earlier request of the key did.
Denied(t) ==
  /\ At(t, "sent")
  /\ ToWrite(t, "none")
  /\ denied' = denied \cup {task[t].key}
  /\ UNCHANGED <<verdict, disk, last, appVars, stray>>

LateRequest(k) ==
  /\ k \in stray
  /\ stray' = stray \ {k}
  /\ Decide(k)
  /\ UNCHANGED <<disk, last, appVars, task, denied>>

\* The order is paid elsewhere, cancelled or expires.
OrderEnds(k) ==
  /\ verdict[k] = "open"
  /\ verdict' = [verdict EXCEPT ![k] = "done"]
  /\ UNCHANGED <<disk, last, appVars, task, stray, denied>>

-----------------------------------------------------------------------------
(* recoverAttempts: the list as it was read, newest first.  One that was sent *)
(* a moment ago, or whose next try is later, is passed over.                  *)

Unresolved(list)  == {k \in Keys : list[k] \in {"SENDING", "IN_DOUBT"}}
OlderThan(k, list) == [j \in Keys |-> IF j < k THEN list[j] ELSE "none"]

\* The recovery takes up k, as the list has it.
TakeUp(k, s, to) ==
  Be("recovery", [task["recovery"] EXCEPT !.step = s, !.key = k, !.to = to,
                                          !.list = OlderThan(k, @)])

StartRecovery ==
  /\ screen # "closed" /\ At("recovery", "idle")
  /\ Stored # {}
  /\ Be("recovery", [Idle EXCEPT !.step = "next", !.list = disk])
  /\ UNCHANGED <<verdict, disk, last, appVars, stray, denied>>

AskFor(k) ==
  /\ At("recovery", "next")
  /\ k \in Unresolved(task["recovery"].list)
  /\ TakeUp(k, "ask", task["recovery"].list[k])
  /\ UNCHANGED <<verdict, disk, last, appVars, stray, denied>>

\* A purchase is forgotten after three days: an order waits a day for its
\* payment at most, and one that was sent later found its reservation expired.
Prune(k) ==
  /\ At("recovery", "next")
  /\ task["recovery"].list[k] = "CONFIRMED" /\ verdict[k] = "done"
  /\ TakeUp(k, "write", "none")
  /\ UNCHANGED <<verdict, disk, last, appVars, stray, denied>>

EndRecovery ==
  /\ At("recovery", "next")
  /\ Be("recovery", Idle)
  /\ UNCHANGED <<verdict, disk, last, appVars, stray, denied>>

\* An attempt the server does not know is sent again with its key.
RecoveryAnswered ==
  LET k == task["recovery"].key IN
  /\ At("recovery", "ask")
  /\ CASE verdict[k] \in {"open", "done"} -> ToWrite("recovery", "CONFIRMED")
       [] verdict[k] = "REJECTED"         -> ToWrite("recovery", "none")
       [] verdict[k] = "none"             -> Go("recovery", "sent")
  /\ UNCHANGED <<verdict, disk, last, appVars, stray, denied>>

\* No answer: the attempt is written as it was read, to be tried later.
RecoveryUnanswered ==
  /\ At("recovery", "ask")
  /\ Go("recovery", "write")
  /\ UNCHANGED <<verdict, disk, last, appVars, stray, denied>>

\* The app is killed; what it had sent may still arrive.
Kill ==
  /\ screen # "closed"
  /\ screen' = "closed" /\ pending' = NoKey /\ paying' = NoKey
  /\ task' = [t \in Tasks |-> Idle]
  /\ stray' \in {stray, stray \cup {task[t].key : t \in {u \in Tasks : At(u, "sent")}}}
  /\ UNCHANGED <<verdict, disk, last, denied>>

-----------------------------------------------------------------------------

PhoneInit ==
  /\ verdict = [k \in Keys |-> "none"]
  /\ disk = Nothing
  /\ last = 0
  /\ screen = "closed" /\ pending = NoKey /\ paying = NoKey
  /\ task = [t \in Tasks |-> Idle]
  /\ stray = {} /\ denied = {}

TaskNext(t) ==
  \/ BeginWrite(t) \/ EndWrite(t)
  \/ ReadRevision(t) \/ ReadFails(t)
  \/ Answered(t) \/ Uncertain(t) \/ Denied(t)

PhoneNext ==
  \/ OpenApp \/ OpenCheckout \/ Resume \/ LeaveCheckout \/ BackToCheckout \/ Paid
  \/ PressAgain \/ Press
  \/ \E t \in Tasks : TaskNext(t)
  \/ \E k \in Keys : LateRequest(k) \/ OrderEnds(k) \/ AskFor(k) \/ Prune(k)
  \/ StartRecovery \/ EndRecovery \/ RecoveryAnswered \/ RecoveryUnanswered
  \/ Kill

PhoneSpec == PhoneInit /\ [][PhoneNext]_phoneVars

-----------------------------------------------------------------------------
(* Properties *)

PhoneTypeOK ==
  /\ verdict \in [Keys -> Verdicts] /\ disk \in [Keys -> AttemptState]
  /\ last \in 0..MaxKeys
  /\ \A t \in Tasks : task[t].step \in Steps /\ task[t].key \in Keys \cup {NoKey}

\* An order that waits for its payment is remembered by the phone that made it,
\* so that the customer is led back to it: no kill of the app, lost or late
\* answer, or write of another task makes the app forget a purchase, an answer
\* that refused the session aside.
OpenOrderIsKept ==
  \A k \in Keys : verdict[k] = "open" => disk[k] # "none" \/ k \in denied
=============================================================================
