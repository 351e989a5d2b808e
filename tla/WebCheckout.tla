----------------------------- MODULE WebCheckout -----------------------------
(***************************************************************************)
(* The checkout screen of the web front end, the drafts that were saved    *)
(* without a connection, and the purchases the browser remembers.          *)
(*                                                                         *)
(* A screen is React state and two references (CheckoutClient.tsx).  Four  *)
(* tasks run: ensureOrderCreated of the screen, the one of a screen that   *)
(* was left, the one of a screen in another tab, and the recovery that is  *)
(* mounted on every page (useCheckoutRecovery.ts).  They meet in IndexedDB, *)
(* whose transactions change one attempt or one draft at a time; a change  *)
(* of an attempt tells the screen of the same tab to read them again.      *)
(* POST /orders decides in one step.                                       *)
(***************************************************************************)
EXTENDS Naturals

CONSTANTS
  MaxKeys,  \* bound: purchases started in this browser
  Drafts,   \* drafts that can be saved
  None      \* no attempt, no draft

Keys  == 1..MaxKeys  \* attemptId, numbered as they are created
Tasks == {"button", "left", "tab", "recovery"}
Read  == 0           \* among the events: the attempts changed

VARIABLES
  basket,   \* there are lines in the local cart
  drafts,   \* state of each draft
  session,  \* sf_active_draft: the draft under review
  db,       \* state of each attempt in IndexedDB
  draftOf,  \* draftId of an attempt
  verdict,  \* what the server decided about a key
  screen,   \* state of the checkout screen
  events,   \* what syncActiveAttempt has before it: Read, or orders to ask for
  task,     \* what each task is at
  stray,    \* requests on their way that nobody waits for any more
  refused,  \* the screen was told a refusal, and the customer has done nothing since
  crossed,  \* history: the screen was left while it was starting a purchase, or another
            \* tab started one
  dropped   \* history: attempts forgotten upon an answer that decided nothing

offline  == <<basket, drafts, session>>
browser  == <<db, draftOf>>
history  == <<refused, crossed, dropped>>
webVars  == <<offline, browser, verdict, screen, events, task, stray, history>>

Closed == [open |-> FALSE, step |-> 1, method |-> "none", failed |-> FALSE,
           verifying |-> FALSE, order |-> None, attempt |-> None]
Opened == [Closed EXCEPT !.open = TRUE]
Idle   == [step |-> "idle", key |-> None, list |-> {}]

At(t, s)      == task[t].step = s
Go(t, s)      == task' = [task EXCEPT ![t].step = s]
Work(t, s, k) == task' = [task EXCEPT ![t].step = s, ![t].key = k]
\* A task that has its result: the recovery goes on with its list.
Done(t)       == task' = [task EXCEPT ![t] = IF t = "recovery" THEN [@ EXCEPT !.step = "next"] ELSE Idle]

Own         == {k \in Keys : db[k] # "none"}
Unresolved  == {k \in Keys : db[k] \in {"SENDING", "IN_DOUBT"}}
Newest      == IF Own = {} THEN None ELSE CHOOSE k \in Own : \A j \in Own : j <= k
Unused      == {k \in Keys : draftOf[k] = "unused"}
NextKey     == CHOOSE k \in Unused : \A j \in Unused : k <= j
Ordered(k)  == verdict[k] \in {"open", "done"}

\* notifyChanged: the screen, if there is one, reads the attempts again.
Notify(rest) == events' = IF screen'.open THEN rest \cup {Read} ELSE {}
\* No other tab hears of it.
Tell(t)      == IF t = "tab" THEN UNCHANGED events ELSE Notify(events)
Show(new)    == screen' = new
\* Only the screen that is mounted shows the result of its own task.
Report(t, new) == screen' = IF t = "button" THEN new ELSE screen

-----------------------------------------------------------------------------
(* The cart and the drafts, on other pages *)

AddToCart ==
  /\ ~screen.open /\ ~basket
  /\ basket' = TRUE
  /\ UNCHANGED <<drafts, session, browser, verdict, screen, events, task, stray, history>>

ClearCart ==
  /\ ~screen.open /\ basket
  /\ basket' = FALSE
  /\ UNCHANGED <<drafts, session, browser, verdict, screen, events, task, stray, history>>

\* The cart is replaced by what is left of the draft, and the checkout opened.
Review(d) ==
  /\ ~screen.open /\ drafts[d] = "kept"
  /\ basket' \in BOOLEAN
  /\ session' = d
  /\ Show(Opened) /\ Notify({})
  /\ UNCHANGED <<drafts, browser, verdict, task, stray, history>>

Discard(d) ==
  /\ ~screen.open /\ drafts[d] = "kept"
  /\ drafts' = [drafts EXCEPT ![d] = "discarded"]
  /\ UNCHANGED <<basket, session, browser, verdict, screen, events, task, stray, history>>

\* What had been sent by a page that is gone may still reach the server.
PageGone ==
  /\ Show(Closed) /\ events' = {}
  /\ stray' \in {stray, stray \cup {task[t].key : t \in {u \in Tasks \ {"tab"} : At(u, "sent")}}}
  /\ task' = [t \in Tasks |-> IF t = "tab" THEN task[t] ELSE Idle]

\* handleSaveOfflineOrder: kept, the cart emptied, and another page loaded.
SaveDraft(d) ==
  /\ screen.open /\ screen.step = 2 /\ basket /\ drafts[d] = "none"
  /\ drafts' = [drafts EXCEPT ![d] = "kept"]
  /\ basket' = FALSE
  /\ PageGone
  /\ UNCHANGED <<session, browser, verdict, history>>

\* The page is loaded again, or the tab closed and with it its session storage.
Reload ==
  /\ PageGone
  /\ session' \in {session, None}
  /\ UNCHANGED <<basket, drafts, browser, verdict, history>>

-----------------------------------------------------------------------------
(* The screen *)

OpenCheckout ==
  /\ ~screen.open
  /\ Show(Opened) /\ Notify({})
  /\ UNCHANGED <<offline, browser, verdict, task, stray, history>>

\* What the screen started goes on without it.
Leave ==
  /\ screen.open /\ At("left", "idle")
  /\ Show(Closed) /\ events' = {}
  /\ task' = [task EXCEPT !["left"] = task["button"], !["button"] = Idle]
  /\ crossed' = (crossed \/ ~At("button", "idle"))
  /\ UNCHANGED <<refused, dropped>>

LeaveCheckout == Leave /\ UNCHANGED <<offline, browser, verdict, stray>>

\* syncActiveAttempt: the newest attempt is the one of the screen.  One that
\* was sent a moment ago is not in doubt yet.
ReadAttempts ==
  /\ Read \in events
  /\ IF Newest = None
     THEN /\ Show([screen EXCEPT !.attempt = None, !.verifying = FALSE])
          /\ events' = events \ {Read}
     ELSE IF db[Newest] = "CONFIRMED"
     THEN /\ Show([screen EXCEPT !.attempt = Newest, !.verifying = FALSE, !.step = 2])
          /\ events' = (events \ {Read}) \cup {Newest}
     ELSE \E old \in BOOLEAN :
          /\ Show([screen EXCEPT !.attempt = Newest, !.step = 2,
                                 !.verifying = old \/ db[Newest] = "IN_DOUBT"])
          /\ events' = events \ {Read}
  /\ UNCHANGED <<offline, browser, verdict, task, stray, history>>

\* Its order is shown, unless it ended: then there is nothing to recover.
OrderEnded(k) ==
  /\ k \in events /\ verdict[k] = "done"
  /\ db' = [db EXCEPT ![k] = "none"]
  /\ Show([screen EXCEPT !.attempt = None])
  /\ Notify(events \ {k})
  /\ UNCHANGED <<offline, draftOf, verdict, task, stray, history>>

OrderShown(k) ==
  /\ k \in events
  /\ Show([screen EXCEPT !.order = k])
  /\ events' = events \ {k}
  /\ UNCHANGED <<offline, browser, verdict, task, stray, history>>

\* What the customer does: go on to the payment or back, choose how to pay.
Continue ==
  /\ screen.open /\ screen.step = 1 /\ basket
  /\ Show([screen EXCEPT !.step = 2]) /\ refused' = FALSE
  /\ UNCHANGED <<offline, browser, verdict, events, task, stray, crossed, dropped>>

Change ==
  /\ screen.open /\ screen.step = 2
  /\ Show([screen EXCEPT !.step = 1, !.method = "none", !.failed = FALSE]) /\ refused' = FALSE
  /\ UNCHANGED <<offline, browser, verdict, events, task, stray, crossed, dropped>>

Select(m) ==
  /\ screen.open /\ screen.step = 2
  /\ Show([screen EXCEPT !.method = m, !.failed = FALSE]) /\ refused' = FALSE
  /\ UNCHANGED <<offline, browser, verdict, events, task, stray, crossed, dropped>>

\* The first method the store offers is chosen for the customer.
Preselect(m) ==
  /\ screen.open /\ screen.step = 2 /\ screen.method = "none"
  /\ Show([screen EXCEPT !.method = m])
  /\ UNCHANGED <<offline, browser, verdict, events, task, stray, history>>

\* ensureOrderCreated: one at a time.  An attempt that is not resolved is sent
\* again with its key, the one of the screen or the newest that is kept.
EnsureOrderCreated ==
  /\ screen.open /\ screen.step = 2 /\ screen.order = None /\ At("button", "idle")
  /\ Show([screen EXCEPT !.failed = FALSE])
  /\ IF screen.attempt = None THEN Work("button", "look", None)
                              ELSE Work("button", "sent", screen.attempt)
  /\ UNCHANGED <<offline, browser, verdict, events, stray, crossed, dropped>>

\* Card and QR: the effects of the screen ask for the order by themselves.
AutoOrder ==
  /\ screen.method = "auto" /\ ~screen.failed /\ ~screen.verifying
  /\ EnsureOrderCreated /\ UNCHANGED refused

\* Try again, or hand in the proof of a payment.
Press ==
  /\ screen.failed \/ screen.method = "manual"
  /\ EnsureOrderCreated /\ refused' = FALSE

\* A screen in another tab does the same with what it remembers.
OtherTab ==
  /\ At("tab", "idle") /\ crossed' = TRUE
  /\ \/ Work("tab", "look", None)
     \/ \E k \in Keys \ Unused : Work("tab", "sent", k)
  /\ UNCHANGED <<offline, browser, verdict, screen, events, stray, refused, dropped>>

Look(t) ==
  /\ At(t, "look")
  /\ IF Newest = None THEN Go(t, "sync") ELSE Work(t, "sent", Newest)
  /\ UNCHANGED <<offline, browser, verdict, screen, events, stray, history>>

\* The session storage is that of the tab.
InView(t) == IF t = "tab" THEN {None} \cup {d \in Drafts : drafts[d] # "none"} ELSE {session}

\* startCheckout: the cart is reserved, and the attempt kept before it is sent.
SyncCart(t) ==
  /\ At(t, "sync") /\ (basket \/ t = "tab") /\ Unused # {}
  /\ db' = [db EXCEPT ![NextKey] = "SENDING"]
  /\ \E d \in InView(t) : draftOf' = [draftOf EXCEPT ![NextKey] = d]
  /\ Work(t, "sent", NextKey)
  /\ UNCHANGED screen /\ Tell(t)
  /\ UNCHANGED <<offline, verdict, stray, history>>

\* The cart cannot be reserved, nobody answers, or the attempt is not kept.
SyncFails(t) ==
  /\ At(t, "sync")
  /\ Report(t, [screen EXCEPT !.failed = TRUE])
  /\ Done(t)
  /\ UNCHANGED <<offline, browser, verdict, events, stray, history>>

-----------------------------------------------------------------------------
(* submitAttempt *)

\* The server decides once about a key, and answers it again.
Decide(k) == verdict' = [verdict EXCEPT ![k] = IF @ = "none" THEN "open" ELSE @]
Refuse(k) == verdict' = [verdict EXCEPT ![k] = IF @ = "none" THEN "REJECTED" ELSE @]

\* An attempt that is not kept any more is not written again.
Patch(k, state) == db' = [db EXCEPT ![k] = IF @ = "none" THEN @ ELSE state]
RemoveAttempt(k) == db' = [db EXCEPT ![k] = "none"]

\* The draft of a purchase is removed when its order exists.
RemoveDraft(k) ==
  drafts' = [d \in Drafts |-> IF d = draftOf[k] /\ drafts[d] = "kept" THEN "gone" ELSE drafts[d]]

Created(t) ==
  LET k == task[t].key IN
  /\ At(t, "sent") /\ verdict[k] # "REJECTED"
  /\ Decide(k)
  /\ Patch(k, "CONFIRMED") /\ Go(t, "bought")
  /\ UNCHANGED screen /\ Tell(t)
  /\ UNCHANGED <<offline, draftOf, stray, history>>

Bought(t) ==
  LET k == task[t].key IN
  /\ At(t, "bought")
  /\ RemoveDraft(k)
  /\ session' = IF t \in {"button", "left"} /\ draftOf[k] # None THEN None ELSE session
  /\ Report(t, [screen EXCEPT !.attempt = k, !.verifying = FALSE, !.order = k])
  /\ Done(t)
  /\ UNCHANGED <<basket, browser, verdict, events, stray, history>>

\* A timeout or a 5xx proves nothing: the request may still arrive.
UncertainAsBought(t) ==
  LET k == task[t].key IN
  /\ At(t, "sent")
  /\ Patch(k, "IN_DOUBT") /\ RemoveDraft(k)
  /\ stray' \in {stray, stray \cup {k}}
  /\ Report(t, [screen EXCEPT !.attempt = k, !.verifying = TRUE])
  /\ Tell(t) /\ Done(t)
  /\ UNCHANGED <<basket, session, draftOf, verdict, history>>

Uncertain(t) ==
  LET k == task[t].key IN
  /\ At(t, "sent")
  /\ Patch(k, "IN_DOUBT")
  /\ stray' \in {stray, stray \cup {k}}
  /\ Report(t, [screen EXCEPT !.attempt = k, !.verifying = TRUE])
  /\ Tell(t) /\ Done(t)
  /\ UNCHANGED <<offline, draftOf, verdict, history>>

\* Any other answer, a refused session included, is taken for a decision.
RejectedSilently(t) ==
  LET k == task[t].key IN
  /\ At(t, "sent")
  /\ Refuse(k) \/ UNCHANGED verdict
  /\ RemoveAttempt(k) /\ refused' = (refused \/ t = "button")
  /\ dropped' = IF verdict'[k] = "REJECTED" THEN dropped ELSE dropped \cup {k}
  /\ Report(t, [screen EXCEPT !.attempt = None])
  /\ Tell(t) /\ Done(t)
  /\ UNCHANGED <<offline, draftOf, stray, crossed>>

Rejected(t) ==
  LET k == task[t].key IN
  /\ At(t, "sent")
  /\ Refuse(k) \/ UNCHANGED verdict
  /\ RemoveAttempt(k) /\ refused' = (refused \/ t = "button")
  /\ dropped' = IF verdict'[k] = "REJECTED" THEN dropped ELSE dropped \cup {k}
  /\ Report(t, [screen EXCEPT !.attempt = None, !.failed = TRUE])
  /\ Tell(t) /\ Done(t)
  /\ UNCHANGED <<offline, draftOf, stray, crossed>>

LateRequest(k) ==
  /\ k \in stray
  /\ stray' = stray \ {k}
  /\ Decide(k) \/ Refuse(k)
  /\ UNCHANGED <<offline, browser, screen, events, task, history>>

\* The order is paid, cancelled or expires elsewhere.
OrderEnds(k) ==
  /\ verdict[k] = "open"
  /\ verdict' = [verdict EXCEPT ![k] = "done"]
  /\ UNCHANGED <<offline, browser, screen, events, task, stray, history>>

\* The order of the screen is paid: the success page empties the cart and
\* forgets the attempt.
Paid ==
  LET k == screen.order IN
  /\ k # None /\ verdict[k] = "open" /\ Leave
  /\ verdict' = [verdict EXCEPT ![k] = "done"]
  /\ basket' = FALSE
  /\ RemoveAttempt(k)
  /\ UNCHANGED <<drafts, session, draftOf, stray>>

-----------------------------------------------------------------------------
(* useCheckoutRecovery: the attempts as they were read, one after another *)

StartRecovery ==
  /\ At("recovery", "idle") /\ Own # {}
  /\ task' = [task EXCEPT !["recovery"] = [step |-> "next", key |-> None, list |-> Unresolved]]
  /\ UNCHANGED <<offline, browser, verdict, screen, events, stray, history>>

\* One that was sent a moment ago, or is to be tried later, is passed over.
AskFor(k) ==
  /\ At("recovery", "next") /\ k \in task["recovery"].list
  /\ task' = [task EXCEPT !["recovery"] =
       [step |-> "ask", key |-> k, list |-> {j \in @.list : j < k}]]
  /\ UNCHANGED <<offline, browser, verdict, screen, events, stray, history>>

\* pruneOldAttempts: of the purchases that ended, those older than three days.
EndRecovery ==
  /\ At("recovery", "next")
  /\ task' = [task EXCEPT !["recovery"] = Idle]
  /\ \E old \in SUBSET {k \in Keys : db[k] = "CONFIRMED" /\ verdict[k] = "done"} :
       /\ db' = [k \in Keys |-> IF k \in old THEN "none" ELSE db[k]]
       /\ UNCHANGED screen /\ IF old = {} THEN UNCHANGED events ELSE Notify(events)
  /\ UNCHANGED <<offline, draftOf, verdict, stray, history>>

\* recoverOne: an attempt the server does not know is sent again with its key.
FoundBought ==
  LET k == task["recovery"].key IN
  /\ At("recovery", "ask") /\ Ordered(k)
  /\ Patch(k, "CONFIRMED") /\ Go("recovery", "bought")
  /\ UNCHANGED screen /\ Notify(events)
  /\ UNCHANGED <<offline, draftOf, verdict, stray, history>>

FoundRejected ==
  LET k == task["recovery"].key IN
  /\ At("recovery", "ask") /\ verdict[k] = "REJECTED"
  /\ RemoveAttempt(k)
  /\ UNCHANGED screen /\ Notify(events) /\ Done("recovery")
  /\ UNCHANGED <<offline, draftOf, verdict, stray, history>>

NotFoundNotBought ==
  /\ At("recovery", "ask") /\ verdict[task["recovery"].key] = "none"
  /\ RemoveAttempt(task["recovery"].key)
  /\ UNCHANGED screen /\ Notify(events) /\ Done("recovery")
  /\ UNCHANGED <<offline, draftOf, verdict, stray, history>>

NotFound ==
  /\ At("recovery", "ask") /\ verdict[task["recovery"].key] = "none"
  /\ Go("recovery", "sent")
  /\ UNCHANGED <<offline, browser, verdict, screen, events, stray, history>>

NoAnswer ==
  /\ At("recovery", "ask")
  /\ UNCHANGED screen /\ Notify(events) /\ Done("recovery")
  /\ UNCHANGED <<offline, browser, verdict, stray, history>>

-----------------------------------------------------------------------------

WebInit ==
  /\ basket = FALSE /\ drafts = [d \in Drafts |-> "none"] /\ session = None
  /\ db = [k \in Keys |-> "none"] /\ draftOf = [k \in Keys |-> "unused"]
  /\ verdict = [k \in Keys |-> "none"]
  /\ screen = Closed /\ events = {}
  /\ task = [t \in Tasks |-> Idle]
  /\ stray = {} /\ refused = FALSE /\ crossed = FALSE /\ dropped = {}

WebNext ==
  \/ AddToCart \/ ClearCart \/ Reload
  \/ \E d \in Drafts : Review(d) \/ Discard(d) \/ SaveDraft(d)
  \/ OpenCheckout \/ LeaveCheckout \/ ReadAttempts
  \/ Continue \/ Change \/ AutoOrder \/ Press \/ Paid \/ OtherTab
  \/ \E m \in {"auto", "manual"} : Select(m) \/ Preselect(m)
  \/ \E t \in Tasks : \/ Look(t) \/ SyncCart(t) \/ SyncFails(t)
                      \/ Created(t) \/ Bought(t) \/ Uncertain(t) \/ Rejected(t)
  \/ \E k \in Keys : \/ OrderEnded(k) \/ OrderShown(k) \/ LateRequest(k)
                     \/ OrderEnds(k) \/ AskFor(k)
  \/ StartRecovery \/ EndRecovery \/ FoundBought \/ FoundRejected \/ NotFound \/ NoAnswer

WebSpec == WebInit /\ [][WebNext]_webVars

-----------------------------------------------------------------------------
(* Properties *)

\* A draft leaves the browser when the customer discards it, or when the order
\* of a purchase that came out of it exists: no lost answer, refusal, reload or
\* recovery of another attempt drops it.
DraftKept ==
  \A d \in Drafts : drafts[d] = "gone" => \E k \in Keys : draftOf[k] = d /\ Ordered(k)

\* An order that waits for its payment is remembered, whichever tabs and screens send,
\* ask and forget at once: a request that was not answered and a server that does not
\* know the key prove nothing (useCheckoutRecovery.ts:25).  Only an answer that refuses
\* the request without a decision, a session that ended, makes the browser forget it.
PurchaseNotForgotten ==
  \A k \in Keys : verdict[k] = "open" => db[k] # "none" \/ k \in dropped

\* After a refusal that its own request was told, the screen does not buy again
\* before the customer did something: no effect, event or remembered attempt starts
\* the purchase anew, unless a screen that was left or another tab started one too.
\* It says nothing of a refusal that the recovery finds.
NewPurchaseIsReviewed ==
  [][SyncCart("button") /\ ~crossed => ~refused]_webVars
=============================================================================
