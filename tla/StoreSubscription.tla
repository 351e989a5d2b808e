------------------------- MODULE StoreSubscription -------------------------
(***************************************************************************)
(* How a store comes to exist and how its subscription opens and closes    *)
(* it: the checkout of a visitor, the signup row, the provisioning of the  *)
(* store, the webhooks of the subscription, the checkout of a store that   *)
(* subscribes again, and the platform, which suspends and retries by hand. *)
(*                                                                         *)
(* A step is one statement or one call to the provider.  Notices of the    *)
(* provider arrive in any order and more than once (see EventDelivery).    *)
(***************************************************************************)
EXTENDS Naturals, TLC

CONSTANTS
  Stores,      \* ids a store may get
  Subs,        \* subscriptions, each with the checkout session that opens it
  SignupSub,   \* the one whose checkout is a signup; the others are of a store
  Handlers,    \* webhook handlers and requests of the platform
  None

ASSUME StoreAssumption == SignupSub \in Subs /\ None \notin Subs \cup Stores

VARIABLES
  sub,        \* status of each subscription at the provider, or of its session
  buyer,      \* the store that opened the session
  announced,  \* statuses the provider has sent notices of
  signup,     \* the row of tenant_signups
  store,      \* tenants
  held,       \* stores whose last PATCH of the platform suspended them
  job         \* what each handler is doing

storeVars == <<sub, buyer, announced, signup, store, held, job>>

SubStatus == {"active", "past_due", "unpaid", "canceled"}
Session   == {"none", "open", "expired", "processing"}
LiveStatuses       == {"active", "past_due"}
SuspendingStatuses == {"unpaid", "canceled"}

SignupStatus == {"absent", "PENDING", "PROVISIONING", "COMPLETED", "FAILED", "EXPIRED"}
StoreStatus  == {"absent", "PROVISIONING", "ACTIVE", "SUSPENDED", "FAILED"}
StoreRec == [status : StoreStatus, sub : Subs \cup {None}, subStatus : SubStatus \cup {None}]
JobStep  == {"idle", "claimed", "named", "provision", "complete", "mail", "fail",
             "retrieve", "find", "write", "suspend", "reactivate"}
StoreJob == [step : JobStep, store : Stores \cup {None}, signup : BOOLEAN,
             sub : Subs \cup {None}, got : SubStatus \cup {None},
             found : {"serving", "closed by billing", "other"}]

NoStoreRow == [status |-> "absent", sub |-> None, subStatus |-> None]
OwnStore   == [status |-> "ACTIVE", sub |-> None, subStatus |-> None]
Resting    == [step |-> "idle", store |-> None, signup |-> FALSE, sub |-> None, got |-> None, found |-> "other"]

\* There is no store, or there is one that the platform created by hand.
StoreInit ==
  /\ sub = [b \in Subs |-> "none"] /\ announced = [b \in Subs |-> {}]
  /\ buyer = [b \in Subs |-> None]
  /\ signup = [status |-> "absent", store |-> None, hash |-> FALSE, sub |-> FALSE, stale |-> FALSE]
  /\ \E old \in SUBSET Stores : store = [t \in Stores |-> IF t \in old THEN OwnStore ELSE NoStoreRow]
  /\ held = {}
  /\ job = [h \in Handlers |-> Resting]

Idle(h)     == job[h].step = "idle"
Exists(t)   == store[t].status # "absent"
Live(t)     == store[t].sub # None /\ store[t].subStatus \in LiveStatuses
Paid(b)     == sub[b] \in SubStatus
Next1(h, s) == job' = [job EXCEPT ![h].step = s]
Finish(h)   == job' = [job EXCEPT ![h] = Resting]

-----------------------------------------------------------------------------
(* Checkouts, and the provider *)

\* createCheckout writes the signup before it asks for a session.
CreateCheckout ==
  /\ signup.status = "absent"
  /\ signup' = [signup EXCEPT !.status = "PENDING", !.hash = TRUE]
  /\ sub' = [sub EXCEPT ![SignupSub] = "open"]
  /\ UNCHANGED <<buyer, announced, store, held, job>>

\* createTenantCheckout: the panel of a store that serves and has no live subscription.
CreateTenantCheckout(t, b) ==
  /\ b # SignupSub /\ sub[b] = "none"
  /\ store[t].status = "ACTIVE" /\ ~Live(t)
  /\ sub' = [sub EXCEPT ![b] = "open"]
  /\ buyer' = [buyer EXCEPT ![b] = t]
  /\ UNCHANGED <<announced, signup, store, held, job>>

\* The visitor pays, at once or in a while, or lets the session run out; later
\* the subscription falls behind, ends, or is paid again.
Provider(b, s) ==
  /\ \/ sub[b] = "open" /\ s \in {"processing", "active", "expired"}
     \/ sub[b] = "processing" /\ s = "active"
     \/ sub[b] \in {"past_due", "unpaid"} /\ s = "active"
     \/ sub[b] = "active" /\ s = "past_due"
     \/ sub[b] = "past_due" /\ s = "unpaid"
     \/ sub[b] \in {"active", "past_due", "unpaid"} /\ s = "canceled"
  /\ sub' = [sub EXCEPT ![b] = s]
  /\ announced' = IF s \in SubStatus THEN [announced EXCEPT ![b] = @ \cup {s}] ELSE announced
  /\ UNCHANGED <<buyer, signup, store, held, job>>

-----------------------------------------------------------------------------
(* From a paid signup to its store *)

\* claimForProvisioning, one conditional update.
Claimable == signup.status \in {"PENDING", "FAILED"} \/ (signup.status = "PROVISIONING" /\ signup.stale)

StartProvisioning(h, paid) ==
  /\ Idle(h) /\ Claimable
  /\ signup' = [signup EXCEPT !.status = "PROVISIONING", !.sub = paid, !.stale = FALSE]
  /\ job' = [job EXCEPT ![h] = [Resting EXCEPT !.step = "claimed", !.signup = TRUE]]
  /\ UNCHANGED <<sub, buyer, announced, store, held>>

\* handleCheckoutPaid, of a session that was paid.
HandleUnpaidCheckout(h) == sub[SignupSub] \in SubStatus \cup {"processing"} /\ StartProvisioning(h, TRUE)
HandleCheckoutPaid(h) == Paid(SignupSub) /\ StartProvisioning(h, TRUE)

HandleCheckoutExpired ==
  /\ sub[SignupSub] = "expired" /\ signup.status = "PENDING"
  /\ signup' = [signup EXCEPT !.status = "EXPIRED", !.hash = FALSE]
  /\ UNCHANGED <<sub, buyer, announced, store, held, job>>

\* getCheckoutStatus: the page that waits for the store asks for the session.
GetCheckoutStatus(h) == signup.status = "PENDING" /\ (HandleCheckoutPaid(h) \/ HandleCheckoutExpired)

\* retrySignup, by hand.
RetrySignup(h) == signup.status \notin {"absent", "PENDING", "EXPIRED"} /\ StartProvisioning(h, signup.sub)

\* The id of the store is kept before anything is created under it.
IdNotKept(h, t) ==
  /\ job[h].step = "claimed"
  /\ ~Exists(t)
  /\ job' = [job EXCEPT ![h].step = "named", ![h].store = t]
  /\ UNCHANGED <<sub, buyer, announced, signup, store, held>>

FixStoreId(h, t) ==
  /\ job[h].step = "claimed"
  /\ IF signup.store = None
     THEN ~Exists(t) /\ signup' = [signup EXCEPT !.store = t, !.stale = FALSE]
     ELSE t = signup.store /\ UNCHANGED signup
  /\ job' = [job EXCEPT ![h].step = "named", ![h].store = t]
  /\ UNCHANGED <<sub, buyer, announced, store, held>>

\* createTenant takes the subscription for active; the mail of the owner, the
\* name and the domain are unique, so it may be refused.
CreateTenant(h) ==
  LET t == job[h].store IN
  /\ job[h].step = "named" /\ ~Exists(t) /\ signup.hash
  /\ store' = [store EXCEPT ![t] = [status |-> "PROVISIONING",
                                    sub |-> IF signup.sub THEN SignupSub ELSE None,
                                    subStatus |-> IF signup.sub THEN "active" ELSE None]]
  /\ Next1(h, "provision")
  /\ UNCHANGED <<sub, buyer, announced, signup, held>>

ResumeTenant(h) ==
  /\ job[h].step = "named" /\ Exists(job[h].store)
  /\ Next1(h, "provision")
  /\ UNCHANGED <<sub, buyer, announced, signup, store, held>>

CreationFails(h) ==
  /\ job[h].step = "named"
  /\ Next1(h, "fail")
  /\ UNCHANGED <<sub, buyer, announced, signup, store, held>>

\* POST :id/retry of the platform, which asks for no status.
RetryStore(h, t) ==
  /\ Idle(h) /\ Exists(t)
  /\ job' = [job EXCEPT ![h] = [Resting EXCEPT !.step = "provision", !.store = t]]
  /\ UNCHANGED <<sub, buyer, announced, signup, store, held>>

\* provision: schema, migrations and base data can be repeated; at the end the
\* store serves, whatever it was before.
Provision(h) ==
  /\ job[h].step = "provision"
  /\ store' = [store EXCEPT ![job[h].store].status = "ACTIVE"]
  /\ IF job[h].signup THEN Next1(h, "complete") ELSE Finish(h)
  /\ UNCHANGED <<sub, buyer, announced, signup, held>>

ProvisionFails(h) ==
  /\ job[h].step = "provision"
  /\ store' = [store EXCEPT ![job[h].store].status = "FAILED"]
  /\ IF job[h].signup THEN Next1(h, "fail") ELSE Finish(h)
  /\ UNCHANGED <<sub, buyer, announced, signup, held>>

CompleteSignup(h) ==
  /\ job[h].step = "complete"
  /\ signup' = [signup EXCEPT !.status = "COMPLETED", !.hash = FALSE, !.stale = FALSE]
  /\ Next1(h, "mail")
  /\ UNCHANGED <<sub, buyer, announced, store, held>>

\* A welcome that cannot be sent is caught with the errors of the provisioning.
SendWelcome(h) ==
  /\ job[h].step = "mail"
  /\ Finish(h) \/ Next1(h, "fail")
  /\ UNCHANGED <<sub, buyer, announced, signup, store, held>>

FailAndForget(h) ==
  /\ job[h].step = "fail"
  /\ signup' = [signup EXCEPT !.status = "FAILED", !.hash = FALSE, !.stale = FALSE]
  /\ Finish(h)
  /\ UNCHANGED <<sub, buyer, announced, store, held>>

FailSignup(h) ==
  /\ job[h].step = "fail"
  /\ signup' = [signup EXCEPT !.status = "FAILED", !.stale = FALSE]
  /\ Finish(h)
  /\ UNCHANGED <<sub, buyer, announced, store, held>>

Die(h) ==
  /\ ~Idle(h)
  /\ Finish(h)
  /\ UNCHANGED <<sub, buyer, announced, signup, store, held>>

\* STALE_PROVISIONING_MS.  Creating a store may take that long, a statement does not.
TurnStale ==
  /\ signup.status = "PROVISIONING"
  /\ \A h \in Handlers : job[h].signup => job[h].step = "provision"
  /\ signup' = [signup EXCEPT !.stale = TRUE]
  /\ UNCHANGED <<sub, buyer, announced, store, held, job>>

-----------------------------------------------------------------------------
(* The subscription of a store *)

\* linkTenantSubscription: unless another subscription is live.
LinkTenantSubscription(h, t, b) ==
  /\ Idle(h) /\ Paid(b) /\ t = buyer[b]
  /\ store[t].sub \in {None, b} \/ store[t].subStatus \notin LiveStatuses
  /\ store' = [store EXCEPT ![t].sub = b]
  /\ job' = [job EXCEPT ![h] = [Resting EXCEPT !.step = "retrieve", !.sub = b]]
  /\ UNCHANGED <<sub, buyer, announced, signup, held>>

\* handleSubscriptionChange reads the subscription as it is now, or, when the
\* provider does not answer, as the notice said it was.
HandleSubscriptionChange(h, b) ==
  /\ Idle(h) /\ Paid(b)
  /\ \E got \in {sub[b]} \cup announced[b] :
       job' = [job EXCEPT ![h] = [Resting EXCEPT !.step = "find", !.sub = b, !.got = got]]
  /\ UNCHANGED <<sub, buyer, announced, signup, store, held>>

\* getTenantSubscription: the panel of a store that serves asks for its subscription.
GetTenantSubscription(h, t) ==
  /\ Idle(h) /\ store[t].status = "ACTIVE" /\ store[t].sub # None
  /\ job' = [job EXCEPT ![h] = [Resting EXCEPT !.step = "retrieve", !.sub = store[t].sub]]
  /\ UNCHANGED <<sub, buyer, announced, signup, store, held>>

Retrieve(h) ==
  /\ job[h].step = "retrieve"
  /\ job' = [job EXCEPT ![h].step = "find", ![h].got = sub[job[h].sub]]
  /\ UNCHANGED <<sub, buyer, announced, signup, store, held>>

Found(t) ==
  CASE store[t].status = "ACTIVE" -> "serving"
    [] store[t].status = "SUSPENDED" /\ store[t].subStatus \in SuspendingStatuses -> "closed by billing"
    [] OTHER -> "other"

\* syncTenant finds the store of the subscription, if it exists by now, ...
FindTenant(h) ==
  /\ job[h].step = "find"
  /\ LET mine == {t \in Stores : Exists(t) /\ store[t].sub = job[h].sub} IN
     \/ mine = {} /\ Finish(h)
     \/ \E t \in mine : job' = [job EXCEPT ![h].step = "write", ![h].store = t, ![h].found = Found(t)]
  /\ UNCHANGED <<sub, buyer, announced, signup, store, held>>

\* ... and writes what follows from what it found.
SyncLate(h) ==
  /\ job[h].step = "write"
  /\ store' = [store EXCEPT
       ![job[h].store].subStatus = job[h].got,
       ![job[h].store].status =
          IF job[h].got # "active" /\ job[h].found = "serving" THEN "SUSPENDED"
          ELSE IF job[h].got = "active" /\ job[h].found = "closed by billing" THEN "ACTIVE" ELSE @]
  /\ Finish(h)
  /\ UNCHANGED <<sub, buyer, announced, signup, held>>

SyncTenant(h) ==
  /\ job[h].step = "write"
  /\ store' = [store EXCEPT
       ![job[h].store].subStatus = job[h].got,
       ![job[h].store].status =
          IF job[h].got \in SuspendingStatuses /\ job[h].found = "serving" THEN "SUSPENDED"
          ELSE IF job[h].got = "active" /\ job[h].found = "closed by billing" THEN "ACTIVE" ELSE @]
  /\ Finish(h)
  /\ UNCHANGED <<sub, buyer, announced, signup, held>>

\* PATCH :id/status of the platform reads the status ...
CheckStatus(h, t, step) ==
  /\ Idle(h) /\ store[t].status \in {"ACTIVE", "SUSPENDED"}
  /\ job' = [job EXCEPT ![h] = [Resting EXCEPT !.step = step, !.store = t]]
  /\ UNCHANGED <<sub, buyer, announced, signup, store, held>>

\* ... and writes the one it was asked for.
SetStatus(h) ==
  LET t == job[h].store IN
  \/ /\ job[h].step = "suspend"
     /\ store' = [store EXCEPT ![t].status = "SUSPENDED"] /\ held' = held \cup {t}
     /\ Finish(h) /\ UNCHANGED <<sub, buyer, announced, signup>>
  \/ /\ job[h].step = "reactivate"
     /\ store' = [store EXCEPT ![t].status = "ACTIVE"] /\ held' = held \ {t}
     /\ Finish(h) /\ UNCHANGED <<sub, buyer, announced, signup>>

-----------------------------------------------------------------------------

ProvisionStep(h) ==
  \/ \E t \in Stores : FixStoreId(h, t)
  \/ CreateTenant(h) \/ ResumeTenant(h) \/ CreationFails(h) \/ Provision(h) \/ ProvisionFails(h)
  \/ CompleteSignup(h) \/ SendWelcome(h) \/ FailSignup(h)
PlatformStep(h) ==
  \/ \E t \in Stores : RetryStore(h, t) \/ \E step \in {"suspend", "reactivate"} : CheckStatus(h, t, step)
  \/ RetrySignup(h) \/ SetStatus(h)
BillingStep(h) ==
  \/ \E t \in Stores : GetTenantSubscription(h, t) \/ \E b \in Subs : LinkTenantSubscription(h, t, b)
  \/ \E b \in Subs : HandleSubscriptionChange(h, b)
  \/ Retrieve(h) \/ FindTenant(h) \/ SyncTenant(h)

StoreNext ==
  \/ CreateCheckout \/ HandleCheckoutExpired \/ TurnStale
  \/ \E b \in Subs, s \in SubStatus \cup Session : Provider(b, s)
  \/ \E t \in Stores : \E b \in Subs : CreateTenantCheckout(t, b)
  \/ \E h \in Handlers :
       \/ HandleCheckoutPaid(h) \/ GetCheckoutStatus(h) \/ Die(h)
       \/ ProvisionStep(h) \/ PlatformStep(h) \/ BillingStep(h)

StoreSpec == StoreInit /\ [][StoreNext]_storeVars

-----------------------------------------------------------------------------
(* Properties *)

\* Every row and every job has the values its type allows.
StoreTypeOK ==
  /\ sub \in [Subs -> SubStatus \cup Session] /\ buyer \in [Subs -> Stores \cup {None}]
  /\ announced \in [Subs -> SUBSET SubStatus]
  /\ signup \in [status : SignupStatus, store : Stores \cup {None}, hash : BOOLEAN, sub : BOOLEAN, stale : BOOLEAN]
  /\ store \in [Stores -> StoreRec] /\ held \subseteq Stores /\ job \in [Handlers -> StoreJob]

\* The id of a store is fixed once, before the store is created, so that no
\* retry creates a second store (comments of the signup row and of provisionSignup).
StoreIdIsFixed ==
  [][/\ signup.store # None => signup'.store = signup.store
     /\ \A t \in Stores : ~Exists(t) /\ Exists(t)' => signup.store = t]_storeVars

\* The password of the owner is erased once it is useless, and not before its
\* store holds it: a retry of a failed signup can still create the store.
PasswordUntilStore ==
  signup.status \notin {"absent", "EXPIRED"} /\ ~signup.hash => signup.store # None /\ Exists(signup.store)

\* Paying is what a store takes: none exists for a checkout that was only
\* opened, is being processed, or expired.
OnlyPaidSignupsGetStores ==
  signup.store # None /\ Exists(signup.store) => Paid(SignupSub)

\* A store is closed by the platform or by a subscription of its own that
\* lapsed, never by late or repeated notices of a healthy one.
SuspensionHasACause ==
  \A t \in Stores : store[t].status = "SUSPENDED" =>
    t \in held \/ \E b \in Subs : announced[b] \cap SuspendingStatuses # {}
                                /\ (buyer[b] = t \/ (b = SignupSub /\ signup.store = t))

\* platform.controller.ts:362 says that a suspension by hand is not undone by
\* the webhook of the provider.
ManualSuspensionStands ==
  [][\A t \in held : (\E h \in Handlers : SyncTenant(h)) /\ store[t].status = "SUSPENDED"
       => store'[t].status = "SUSPENDED"]_storeVars
=============================================================================
