----------------------------- MODULE MCScreens -----------------------------
(***************************************************************************)
(* The screens of a customer: the checkout of the app, the checkout of the *)
(* browser and the payment screen.  One part moves in each behaviour, the  *)
(* others stay as they start.  The checkouts are taken in scenes, for their *)
(* whole space is too large: with a screen that was left, with a recovery  *)
(* or, in the browser, with another tab; and there without drafts, or with *)
(* one purchase, where a session may be refused too.  One request at a     *)
(* time is late, and the payment screen waits for two at most.             *)
(***************************************************************************)
EXTENDS FiniteSets, Naturals

CONSTANTS MaxKeys, NoKey, Drafts, None

\* Attempts are numbered; None is no attempt, and neither it nor a draft is the mark
\* of an attempt that was not started.
ASSUME ScreensAssumption == MaxKeys \in Nat /\ None \notin 1..MaxKeys /\ "unused" \notin Drafts \cup {None}

VARIABLES appVerdict, disk, last, appScreen, pending, paying, appTask, appStray, denied
VARIABLES basket, drafts, session, db, draftOf, verdict, screen, events, task, stray, refused, crossed, dropped
VARIABLES sale, pane, call

VARIABLE part

Phone == INSTANCE AppCheckout WITH
  verdict <- appVerdict, screen <- appScreen, task <- appTask, stray <- appStray

Web == INSTANCE WebCheckout

Payment == INSTANCE AppPayment

phoneVars  == <<appVerdict, disk, last, appScreen, pending, paying, appTask, appStray, denied>>
webVars    == <<basket, drafts, session, db, draftOf, verdict, screen, events, task, stray,
                refused, crossed, dropped>>
payingVars == <<sale, pane, call>>

mcVars == <<phoneVars, webVars, payingVars, part>>

Busy    == {t \in Web!Tasks : task[t] # Web!Idle}
NoDraft == drafts = [d \in Drafts |-> "none"]
OneLate  == Cardinality(appStray) <= 1 /\ Cardinality(stray) <= 1
TwoCalls == Cardinality({c \in Payment!Requested : call[c] # "idle"}) <= 2
NothingLate == stray = {} /\ dropped = {}
Scene ==
  /\ OneLate /\ TwoCalls
  /\ part = "app recovery" => appTask["left"] = Phone!Idle /\ denied = {}
  /\ part = "app left"     => appTask["recovery"] = Phone!Idle
  /\ part = "web recovery" => Busy \subseteq {"button", "recovery"} /\ NoDraft /\ dropped = {}
  /\ part = "web drafts"   => /\ Busy \subseteq {"button", "recovery"} /\ ~crossed
                              /\ draftOf[MaxKeys] = "unused" /\ screen.method # "manual"
  /\ part = "web left"     => Busy \subseteq {"button", "left"} /\ NoDraft /\ NothingLate
  /\ part = "web tabs"     => Busy \subseteq {"button", "tab"} /\ NoDraft /\ NothingLate
                              /\ screen.method # "manual"

MCInit ==
  /\ part \in {"payment", "app recovery", "app left", "web recovery", "web drafts", "web left",
                "web tabs"}
  /\ Phone!PhoneInit /\ Web!WebInit /\ Payment!PayingInit

MCNext ==
  /\ \/ part \in {"app recovery", "app left"} /\ Phone!PhoneNext /\ UNCHANGED <<webVars, payingVars>>
     \/ /\ part \in {"web recovery", "web drafts", "web left", "web tabs"}
        /\ Web!WebNext /\ UNCHANGED <<phoneVars, payingVars>>
     \/ part = "payment" /\ Payment!PayingNext /\ UNCHANGED <<phoneVars, webVars>>
  /\ UNCHANGED part
  /\ Scene'

MCSpec == MCInit /\ [][MCNext]_mcVars

\* The phone remembers an order that waits for its payment.
OpenOrderIsKept == Phone!OpenOrderIsKept

\* A draft leaves the browser with its order, or discarded by the customer.
DraftKept == Web!DraftKept

\* The browser remembers an order that waits for its payment.
PurchaseNotForgotten == Web!PurchaseNotForgotten

\* The screen does not buy again by itself what it was told is refused.
NewPurchaseIsReviewed == Web!NewPurchaseIsReviewed

\* What the payment screen calls a success is one.
SuccessIsReal == Payment!SuccessIsReal
=============================================================================
