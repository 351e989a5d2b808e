---------------------------- MODULE StoreProofs ----------------------------
(***************************************************************************)
(* Theorems about a store: how it comes to exist and how its subscription  *)
(* opens and closes it, the inventory rows of its branches and products,   *)
(* and what the replicas remember of it.  The three modules share no       *)
(* variable, so each has an invariant of its own.                          *)
(***************************************************************************)
EXTENDS StoreSubscription, StoreCatalogue, TenantCache, FiniteSetTheorems, TLAPS

-----------------------------------------------------------------------------
(* The subscription of a store *)

USE StoreAssumption

\* The signup was claimed at least once.
Begun == signup.status \in {"PROVISIONING", "COMPLETED", "FAILED"}

\* The store that bought a subscription, or that a paid signup names.
Owns(t, b) == buyer[b] = t \/ (b = SignupSub /\ signup.store = t)

\* Nothing is named or claimed before the payment, and nothing is paid before
\* the signup.
SignupOK ==
  /\ signup.store # None => Begun
  /\ Begun => Paid(SignupSub)
  /\ signup.status = "absent" => sub[SignupSub] = "none"
  /\ PasswordUntilStore

\* The provider announces every status, and a session is opened once and for
\* one store.
SessionsOK ==
  /\ \A b \in Subs : /\ Paid(b) => sub[b] \in announced[b]
                     /\ buyer[b] # None => sub[b] # "none"
  /\ buyer[SignupSub] = None

\* A store has a subscription of its own.
BillingOK ==
  /\ SessionsOK
  /\ \A t \in Stores : store[t].sub # None => Owns(t, store[t].sub) /\ Paid(store[t].sub)
  /\ SuspensionHasACause

\* A job of the signup works at the store the signup names, and every job at
\* one that exists; what a webhook writes was announced, of a subscription that
\* is the store's own.
JobOK(j) ==
  /\ j.step \in {"claimed", "named", "complete", "mail", "fail"} => j.signup
  /\ j.signup => Begun
  /\ j.signup /\ j.step \in {"named", "provision", "complete"} => j.store = signup.store /\ signup.store # None
  /\ j.step \in {"provision", "complete", "write", "suspend", "reactivate"} => j.store # None /\ Exists(j.store)
  /\ j.step \in {"retrieve", "find", "write"} => j.sub # None /\ Paid(j.sub)
  /\ j.step \in {"find", "write"} => j.got \in announced[j.sub]
  /\ j.step = "write" => Owns(j.store, j.sub)

StoreInv ==
  /\ StoreTypeOK
  /\ SignupOK
  /\ BillingOK
  /\ \A h \in Handlers : JobOK(job[h])

-----------------------------------------------------------------------------
(* What every step leaves as it was *)

SignupRec == [status : SignupStatus, store : Stores \cup {None}, hash : BOOLEAN, sub : BOOLEAN, stale : BOOLEAN]

\* A signup stays begun and keeps its store, a store stays, a payment stays, a
\* notice stays sent and a session keeps its buyer.
Stable ==
  /\ Begun => Begun'
  /\ signup.store # None => signup'.store = signup.store
  /\ \A t \in Stores : Exists(t) => Exists(t)'
  /\ \A b \in Subs : /\ Paid(b) => Paid(b)'
                     /\ announced[b] \subseteq announced'[b]
                     /\ buyer[b] # None => buyer'[b] = buyer[b]

\* What a job may rely on stays true while it rests.
LEMMA JobStaysOK ==
  ASSUME StoreTypeOK, StoreTypeOK', Stable, NEW j \in StoreJob, JobOK(j)
  PROVE  JobOK(j)'
<1>1. j.store \in Stores \cup {None} /\ j.sub \in Subs \cup {None}
  BY ZenonT(60) DEF StoreJob
<1>2. j.sub # None => announced[j.sub] \subseteq announced'[j.sub]
  BY <1>1 DEF Stable
<1>3. j.store # None /\ j.sub # None /\ Owns(j.store, j.sub) => Owns(j.store, j.sub)'
  BY <1>1 DEF Stable, Owns
<1> QED
  BY <1>1, <1>2, <1>3 DEF JobOK, Stable

\* So a step needs to be looked at for the one job it moves.
LEMMA JobsStayOK ==
  ASSUME StoreInv, StoreTypeOK', Stable, NEW h \in Handlers, NEW j \in StoreJob,
         job' = [job EXCEPT ![h] = j], JobOK(j)'
  PROVE  \A g \in Handlers : JobOK(job[g])'
<1> SUFFICES ASSUME NEW g \in Handlers PROVE JobOK(job[g])'
  OBVIOUS
<1>1. job \in [Handlers -> StoreJob]
  BY DEF StoreInv, StoreTypeOK
<1>2. CASE g = h
  <2>1. job'[g] = j
    BY <1>1, <1>2
  <2> QED
    BY <2>1 DEF JobOK
<1>3. CASE g # h
  <2>1. PICK i \in StoreJob : i = job[g] /\ i = job'[g] /\ JobOK(i)
    BY <1>1, <1>3 DEF StoreInv
  <2>2. JobOK(i)'
    BY <2>1, JobStaysOK DEF StoreInv
  <2> QED
    BY <2>1, <2>2 DEF JobOK
<1> QED
  BY <1>2, <1>3

\* The same, when no job moves.
LEMMA JobsUntouched ==
  ASSUME StoreInv, StoreTypeOK', Stable, UNCHANGED job
  PROVE  \A g \in Handlers : JobOK(job[g])'
<1> SUFFICES ASSUME NEW g \in Handlers PROVE JobOK(job[g])'
  OBVIOUS
<1>1. PICK i \in StoreJob : i = job[g] /\ i = job'[g] /\ JobOK(i)
  BY DEF StoreInv, StoreTypeOK
<1>2. JobOK(i)'
  BY <1>1, JobStaysOK DEF StoreInv
<1> QED
  BY <1>1, <1>2 DEF JobOK

\* A job at rest is well formed and relies on nothing.
LEMMA RestingJob == Resting \in StoreJob /\ JobOK(Resting) /\ JobOK(Resting)'
  BY DEF Resting, StoreJob, JobStep, JobOK

\* A step that only moves a job keeps everything else.
LEMMA OnlyTheJob ==
  ASSUME StoreInv, NEW h \in Handlers, NEW j \in StoreJob, JobOK(j),
         job' = [job EXCEPT ![h] = j], UNCHANGED <<sub, buyer, announced, signup, store, held>>
  PROVE  StoreInv'
<1>1. StoreTypeOK'
  BY DEF StoreInv, StoreTypeOK
<1>2. Stable
  BY DEF Stable, Begun, Exists, Paid
<1>3. SignupOK' /\ BillingOK'
  BY DEF StoreInv, SignupOK, BillingOK, SessionsOK, Begun, PasswordUntilStore, SuspensionHasACause, Exists, Paid, Owns
<1>4. \A g \in Handlers : JobOK(job[g])'
  BY <1>1, <1>2, JobStaysOK, JobsStayOK DEF StoreInv
<1> QED
  BY <1>1, <1>3, <1>4 DEF StoreInv

-----------------------------------------------------------------------------
(* Steps that only move a job: each of them keeps the invariant *)

\* The subscription of a store is one that was paid.
LEMMA SubsOfStores ==
  ASSUME StoreInv, NEW t \in Stores, store[t].sub # None
  PROVE  store[t].sub \in Subs /\ Paid(store[t].sub)
<1>1. store[t].sub \in Subs
  BY DEF StoreInv, StoreTypeOK, StoreRec
<1> QED
  BY <1>1 DEF StoreInv, BillingOK

\* POST :id/retry.
LEMMA RetryStoreKeeps ==
  ASSUME StoreInv, NEW h \in Handlers, NEW t \in Stores, RetryStore(h, t)
  PROVE  StoreInv'
<1>1. job[h] \in StoreJob /\ JobOK(job[h]) /\ StoreTypeOK
  BY DEF StoreInv, StoreTypeOK
<1>3. PICK j \in StoreJob : j = [Resting EXCEPT !.step = "provision", !.store = t]
  BY ZenonT(60), <1>1, RestingJob DEF RetryStore, StoreJob, JobStep
<1>4. JobOK(j)
  BY ZenonT(60), <1>1, <1>3, RestingJob DEF RetryStore, Resting, StoreTypeOK, StoreJob, JobOK, Paid
<1>5. job' = [job EXCEPT ![h] = j] /\ UNCHANGED <<sub, buyer, announced, signup, store, held>>
  BY <1>3 DEF RetryStore, Next1, Finish
<1> QED
  BY <1>4, <1>5, OnlyTheJob

\* The platform asks for a status.
LEMMA CheckStatusKeeps ==
  ASSUME StoreInv, NEW h \in Handlers, NEW t \in Stores, NEW step \in {"suspend", "reactivate"}, CheckStatus(h, t, step)
  PROVE  StoreInv'
<1>1. job[h] \in StoreJob /\ JobOK(job[h]) /\ StoreTypeOK
  BY DEF StoreInv, StoreTypeOK
<1>3. PICK j \in StoreJob : j = [Resting EXCEPT !.step = step, !.store = t]
  BY ZenonT(60), <1>1, RestingJob DEF CheckStatus, StoreJob, JobStep
<1>4. JobOK(j)
  BY ZenonT(60), <1>1, <1>3, RestingJob DEF CheckStatus, Resting, StoreTypeOK, StoreJob, JobOK, Paid, Exists
<1>5. job' = [job EXCEPT ![h] = j] /\ UNCHANGED <<sub, buyer, announced, signup, store, held>>
  BY <1>3 DEF CheckStatus, Next1, Finish
<1> QED
  BY <1>4, <1>5, OnlyTheJob

\* A store has a subscription that was paid.
LEMMA GetTenantSubscriptionKeeps ==
  ASSUME StoreInv, NEW h \in Handlers, NEW t \in Stores, GetTenantSubscription(h, t)
  PROVE  StoreInv'
<1>1. job[h] \in StoreJob /\ JobOK(job[h]) /\ StoreTypeOK
  BY DEF StoreInv, StoreTypeOK
<1>2. store[t].sub \in Subs /\ Paid(store[t].sub)
  BY SubsOfStores DEF GetTenantSubscription
<1>3. PICK j \in StoreJob : j = [Resting EXCEPT !.step = "retrieve", !.sub = store[t].sub]
  BY ZenonT(60), <1>1, <1>2, RestingJob DEF GetTenantSubscription, StoreJob, JobStep
<1>4. JobOK(j)
  BY ZenonT(60), <1>1, <1>2, <1>3, RestingJob DEF GetTenantSubscription, Resting, StoreTypeOK, StoreJob, JobOK, Paid
<1>5. job' = [job EXCEPT ![h] = j] /\ UNCHANGED <<sub, buyer, announced, signup, store, held>>
  BY <1>3 DEF GetTenantSubscription, Next1, Finish
<1> QED
  BY <1>4, <1>5, OnlyTheJob

\* The subscription is read.
LEMMA RetrieveKeeps ==
  ASSUME StoreInv, NEW h \in Handlers, Retrieve(h)
  PROVE  StoreInv'
<1>1. job[h] \in StoreJob /\ JobOK(job[h]) /\ StoreTypeOK
  BY DEF StoreInv, StoreTypeOK
<1>2. /\ job[h].sub \in Subs /\ Paid(job[h].sub)
      /\ sub[job[h].sub] \in SubStatus /\ sub[job[h].sub] \in announced[job[h].sub]
  BY ZenonT(60), <1>1 DEF Retrieve, JobOK, StoreJob, StoreInv, BillingOK, SessionsOK, Paid
<1>3. PICK j \in StoreJob : j = [job[h] EXCEPT !.step = "find", !.got = sub[job[h].sub]]
  BY ZenonT(60), <1>1, <1>2, RestingJob DEF Retrieve, StoreJob, JobStep
<1>4. JobOK(j)
  BY ZenonT(60), <1>1, <1>2, <1>3, RestingJob DEF Retrieve, Resting, StoreTypeOK, StoreJob, JobOK, Paid, Begun
<1>5. job' = [job EXCEPT ![h] = j] /\ UNCHANGED <<sub, buyer, announced, signup, store, held>>
  BY <1>3 DEF Retrieve, Next1, Finish
<1> QED
  BY <1>4, <1>5, OnlyTheJob

\* The store is resumed.
LEMMA ResumeTenantKeeps ==
  ASSUME StoreInv, NEW h \in Handlers, ResumeTenant(h)
  PROVE  StoreInv'
<1>1. job[h] \in StoreJob /\ JobOK(job[h]) /\ StoreTypeOK
  BY DEF StoreInv, StoreTypeOK
<1>3. PICK j \in StoreJob : j = [job[h] EXCEPT !.step = "provision"]
  BY ZenonT(60), <1>1, RestingJob DEF ResumeTenant, StoreJob, JobStep
<1>4. JobOK(j)
  BY ZenonT(60), <1>1, <1>3, RestingJob DEF ResumeTenant, Resting, StoreTypeOK, StoreJob, JobOK, Paid, Exists, Begun
<1>5. job' = [job EXCEPT ![h] = j] /\ UNCHANGED <<sub, buyer, announced, signup, store, held>>
  BY <1>3 DEF ResumeTenant, Next1, Finish
<1> QED
  BY <1>4, <1>5, OnlyTheJob

\* The store is refused.
LEMMA CreationFailsKeeps ==
  ASSUME StoreInv, NEW h \in Handlers, CreationFails(h)
  PROVE  StoreInv'
<1>1. job[h] \in StoreJob /\ JobOK(job[h]) /\ StoreTypeOK
  BY DEF StoreInv, StoreTypeOK
<1>3. PICK j \in StoreJob : j = [job[h] EXCEPT !.step = "fail"]
  BY ZenonT(60), <1>1, RestingJob DEF CreationFails, StoreJob, JobStep
<1>4. JobOK(j)
  BY ZenonT(60), <1>1, <1>3, RestingJob DEF CreationFails, Resting, StoreTypeOK, StoreJob, JobOK, Paid, Begun
<1>5. job' = [job EXCEPT ![h] = j] /\ UNCHANGED <<sub, buyer, announced, signup, store, held>>
  BY <1>3 DEF CreationFails, Next1, Finish
<1> QED
  BY <1>4, <1>5, OnlyTheJob

\* The welcome is sent, or not.
LEMMA SendWelcomeKeeps ==
  ASSUME StoreInv, NEW h \in Handlers, SendWelcome(h)
  PROVE  StoreInv'
<1>1. job[h] \in StoreJob /\ JobOK(job[h]) /\ job[h].step = "mail"
  BY DEF StoreInv, StoreTypeOK, SendWelcome
<1>2. PICK j \in StoreJob : j = [job[h] EXCEPT !.step = "fail"]
  BY ZenonT(60), <1>1 DEF StoreJob, JobStep
<1>3. JobOK(j)
  BY ZenonT(60), <1>1, <1>2 DEF JobOK, StoreJob, Begun
<1>4. /\ job' = [job EXCEPT ![h] = Resting] \/ job' = [job EXCEPT ![h] = j]
      /\ UNCHANGED <<sub, buyer, announced, signup, store, held>>
  BY <1>2 DEF SendWelcome, Next1, Finish, StoreInv, StoreTypeOK
<1> QED
  BY <1>3, <1>4, OnlyTheJob, RestingJob

\* The process dies.
LEMMA DieKeeps ==
  ASSUME StoreInv, NEW h \in Handlers, Die(h)
  PROVE  StoreInv'
  BY OnlyTheJob, RestingJob DEF Die, Finish

\* The subscription is as it is, or as a notice said.
LEMMA HandleSubscriptionChangeKeeps ==
  ASSUME StoreInv, NEW h \in Handlers, NEW b \in Subs, HandleSubscriptionChange(h, b)
  PROVE  StoreInv'
<1>1. Paid(b) /\ sub[b] \in announced[b] /\ announced[b] \subseteq SubStatus
  BY DEF HandleSubscriptionChange, StoreInv, StoreTypeOK, BillingOK, SessionsOK
<1>2. PICK got \in announced[b] :
        job' = [job EXCEPT ![h] = [Resting EXCEPT !.step = "find", !.sub = b, !.got = got]]
  BY ZenonT(60), <1>1 DEF HandleSubscriptionChange
<1>3. PICK j \in StoreJob : j = [Resting EXCEPT !.step = "find", !.sub = b, !.got = got]
  BY ZenonT(60), <1>1, RestingJob DEF StoreJob, JobStep
<1>4. JobOK(j)
  BY <1>1, <1>3, RestingJob DEF Resting, JobOK, Paid
<1> QED
  BY <1>2, <1>3, <1>4, OnlyTheJob DEF HandleSubscriptionChange

\* The store of the subscription is found, or there is none.
LEMMA FindTenantKeeps ==
  ASSUME StoreInv, NEW h \in Handlers, FindTenant(h)
  PROVE  StoreInv'
<1>1. job[h] \in StoreJob /\ JobOK(job[h]) /\ job[h].step = "find"
  BY ZenonT(60) DEF StoreInv, StoreTypeOK, FindTenant
<1>2. CASE Finish(h)
  BY ZenonT(60), <1>2, OnlyTheJob, RestingJob DEF FindTenant, Finish
<1>3. ASSUME NEW t \in Stores, Exists(t), store[t].sub = job[h].sub,
             job' = [job EXCEPT ![h].step = "write", ![h].store = t, ![h].found = Found(t)]
      PROVE  StoreInv'
  <2>1. Found(t) \in {"serving", "closed by billing", "other"}
    BY DEF Found
  <2>2. PICK j \in StoreJob : j = [job[h] EXCEPT !.step = "write", !.store = t, !.found = Found(t)]
    BY ZenonT(60), <1>1, <2>1 DEF StoreJob, JobStep
  <2>3. Owns(t, job[h].sub) /\ t # None
    BY <1>1, <1>3 DEF JobOK, StoreInv, BillingOK
  <2>4. JobOK(j)
    BY ZenonT(60), <1>1, <1>3, <2>2, <2>3 DEF JobOK, StoreJob
  <2>5. job' = [job EXCEPT ![h] = j]
    BY <1>3, <2>2 DEF StoreInv, StoreTypeOK
  <2> QED
    BY ZenonT(60), <2>4, <2>5, OnlyTheJob DEF FindTenant
<1> QED
  BY ZenonT(60), <1>2, <1>3 DEF FindTenant

-----------------------------------------------------------------------------
(* Steps that write: each of them keeps the invariant *)

\* One row of a store changes.
LEMMA OneStoreChanges ==
  ASSUME StoreTypeOK, NEW t \in Stores, NEW r \in StoreRec, store' = [store EXCEPT ![t] = r]
  PROVE  /\ store' \in [Stores -> StoreRec] /\ store'[t] = r
         /\ \A u \in Stores : u # t => store'[u] = store[u]
  BY DEF StoreTypeOK

\* What a step has to show of the billing: the subscriptions it links and the
\* stores it closes.
NewLinksOK ==
  \A u \in Stores, b \in Subs : store'[u].sub = b /\ store[u].sub # b => Owns(u, b)' /\ Paid(b)'
NewClosuresOK ==
  \A u \in Stores : store'[u].status = "SUSPENDED" =>
    \/ u \in held'
    \/ store[u].status = "SUSPENDED" /\ u \notin held
    \/ \E b \in Subs : announced[b] \cap SuspendingStatuses # {} /\ Owns(u, b)

\* Whatever was linked or closed before has its cause still.
LEMMA BillingStays ==
  ASSUME StoreTypeOK, StoreTypeOK', BillingOK, Stable, SessionsOK', NewLinksOK, NewClosuresOK
  PROVE  BillingOK'
<1>1. \A u \in Stores, b \in Subs : Owns(u, b) => Owns(u, b)'
  BY DEF Stable, Owns
<1>3. ASSUME NEW u \in Stores, NEW b \in Subs, store'[u].sub = b
      PROVE  Owns(u, b)' /\ Paid(b)'
  <2>1. CASE store[u].sub = b
    <3>1. Owns(u, b) /\ Paid(b)
      BY <2>1 DEF BillingOK
    <3> QED
      BY <1>1, <3>1 DEF Stable
  <2> QED
    BY <1>3, <2>1 DEF NewLinksOK
<1>4. SuspensionHasACause'
  <2> SUFFICES ASSUME NEW u \in Stores, store'[u].status = "SUSPENDED", u \notin held'
               PROVE  \E b \in Subs : announced'[b] \cap SuspendingStatuses # {} /\ Owns(u, b)'
    BY DEF SuspensionHasACause, Owns
  <2>1. \E b \in Subs : announced[b] \cap SuspendingStatuses # {} /\ Owns(u, b)
    BY DEF NewClosuresOK, BillingOK, SuspensionHasACause, Owns
  <2> QED
    BY <1>1, <2>1 DEF Stable
<1> QED
  <2>1. \A u \in Stores : store'[u].sub \in Subs \cup {None}
    BY DEF StoreTypeOK, StoreRec
  <2> QED
    BY <1>3, <1>4, <2>1 DEF BillingOK, Owns, Paid

\* A visitor signs up.
LEMMA CreateCheckoutKeeps ==
  ASSUME StoreInv, CreateCheckout
  PROVE  StoreInv'
<1>1. StoreTypeOK /\ SignupOK /\ BillingOK /\ \A g \in Handlers : job[g] \in StoreJob /\ JobOK(job[g])
  BY DEF StoreInv, StoreTypeOK
<1>2. /\ signup.status = "absent"
      /\ signup' \in SignupRec /\ signup'.status = "PENDING" /\ signup'.hash = TRUE /\ signup'.store = signup.store
      /\ sub' \in [Subs -> SubStatus \cup Session] /\ sub'[SignupSub] = "open"
      /\ \A b \in Subs : b # SignupSub => sub'[b] = sub[b]
      /\ UNCHANGED <<buyer, announced, store, held, job>>
  BY ZenonT(60), <1>1 DEF CreateCheckout, StoreTypeOK, SignupRec, SignupStatus, SubStatus, Session, Paid, StoreRec
<1>4. StoreTypeOK'
  BY <1>1, <1>2 DEF StoreTypeOK, SignupRec
<1>5. Stable
  BY <1>1, <1>2 DEF Stable, SignupOK, BillingOK, SessionsOK, StoreTypeOK, SubStatus, Session, Begun, Exists, Paid
<1>6. SignupOK'
  BY <1>1, <1>2, <1>5 DEF Stable, SignupOK, PasswordUntilStore, StoreTypeOK, SubStatus, Session, Begun, Exists, Paid
<1>7. BillingOK'
  <2>1. SessionsOK'
    BY <1>1, <1>2 DEF SessionsOK, BillingOK, StoreTypeOK, SubStatus, Session, Begun, Exists, Paid
  <2>2. NewLinksOK
    BY <1>1, <1>2 DEF NewLinksOK, BillingOK, SignupOK, StoreTypeOK, SubStatus, Session, Begun, Exists, Paid, Owns
  <2>3. NewClosuresOK
    BY <1>1, <1>2 DEF NewClosuresOK, BillingOK, SuspendingStatuses, SignupOK, StoreTypeOK, SubStatus, Session, Begun, Exists, Paid, Owns
  <2> QED
    BY <1>1, <1>4, <1>5, <2>1, <2>2, <2>3, BillingStays
<1>9. \A g \in Handlers : JobOK(job[g])'
  BY <1>2, <1>4, <1>5, JobsUntouched
<1> QED
  BY <1>4, <1>6, <1>7, <1>9 DEF StoreInv

\* The session ran out.
LEMMA HandleCheckoutExpiredKeeps ==
  ASSUME StoreInv, HandleCheckoutExpired
  PROVE  StoreInv'
<1>1. StoreTypeOK /\ SignupOK /\ BillingOK /\ \A g \in Handlers : job[g] \in StoreJob /\ JobOK(job[g])
  BY DEF StoreInv, StoreTypeOK
<1>2. /\ signup.status = "PENDING"
      /\ signup' \in SignupRec /\ signup'.status = "EXPIRED" /\ signup'.hash = FALSE /\ signup'.store = signup.store
      /\ UNCHANGED <<sub, buyer, announced, store, held, job>>
  BY <1>1 DEF HandleCheckoutExpired, StoreTypeOK, SignupRec, SignupStatus, SubStatus, Session, Paid, StoreRec
<1>4. StoreTypeOK'
  BY <1>1, <1>2 DEF StoreTypeOK, SignupRec
<1>5. Stable
  BY <1>1, <1>2 DEF Stable, SignupOK, BillingOK, SessionsOK, StoreTypeOK, SubStatus, Session, Begun, Exists, Paid
<1>6. SignupOK'
  BY <1>1, <1>2, <1>5 DEF Stable, SignupOK, PasswordUntilStore, StoreTypeOK, SubStatus, Session, Begun, Exists, Paid
<1>7. BillingOK'
  <2>1. SessionsOK'
    BY <1>1, <1>2 DEF SessionsOK, BillingOK, StoreTypeOK, SubStatus, Session, Begun, Exists, Paid
  <2>2. NewLinksOK
    BY <1>1, <1>2 DEF NewLinksOK, BillingOK, SignupOK, StoreTypeOK, SubStatus, Session, Begun, Exists, Paid, Owns
  <2>3. NewClosuresOK
    BY <1>1, <1>2 DEF NewClosuresOK, BillingOK, SuspendingStatuses, SignupOK, StoreTypeOK, SubStatus, Session, Begun, Exists, Paid, Owns
  <2> QED
    BY <1>1, <1>4, <1>5, <2>1, <2>2, <2>3, BillingStays
<1>9. \A g \in Handlers : JobOK(job[g])'
  BY <1>2, <1>4, <1>5, JobsUntouched
<1> QED
  BY <1>4, <1>6, <1>7, <1>9 DEF StoreInv

\* Fifteen minutes without an end.
LEMMA TurnStaleKeeps ==
  ASSUME StoreInv, TurnStale
  PROVE  StoreInv'
<1>1. StoreTypeOK /\ SignupOK /\ BillingOK /\ \A g \in Handlers : job[g] \in StoreJob /\ JobOK(job[g])
  BY DEF StoreInv, StoreTypeOK
<1>2. /\ signup' \in SignupRec /\ signup'.status = signup.status /\ signup'.hash = signup.hash /\ signup'.store = signup.store
      /\ UNCHANGED <<sub, buyer, announced, store, held, job>>
  BY <1>1 DEF TurnStale, StoreTypeOK, SignupRec, SignupStatus, SubStatus, Session, Paid, StoreRec
<1>4. StoreTypeOK'
  BY <1>1, <1>2 DEF StoreTypeOK, SignupRec
<1>5. Stable
  BY <1>1, <1>2 DEF Stable, SignupOK, BillingOK, SessionsOK, StoreTypeOK, SubStatus, Session, Begun, Exists, Paid
<1>6. SignupOK'
  BY <1>1, <1>2, <1>5 DEF Stable, SignupOK, PasswordUntilStore, StoreTypeOK, SubStatus, Session, Begun, Exists, Paid
<1>7. BillingOK'
  <2>1. SessionsOK'
    BY <1>1, <1>2 DEF SessionsOK, BillingOK, StoreTypeOK, SubStatus, Session, Begun, Exists, Paid
  <2>2. NewLinksOK
    BY <1>1, <1>2 DEF NewLinksOK, BillingOK, SignupOK, StoreTypeOK, SubStatus, Session, Begun, Exists, Paid, Owns
  <2>3. NewClosuresOK
    BY <1>1, <1>2 DEF NewClosuresOK, BillingOK, SuspendingStatuses, SignupOK, StoreTypeOK, SubStatus, Session, Begun, Exists, Paid, Owns
  <2> QED
    BY <1>1, <1>4, <1>5, <2>1, <2>2, <2>3, BillingStays
<1>9. \A g \in Handlers : JobOK(job[g])'
  BY <1>2, <1>4, <1>5, JobsUntouched
<1> QED
  BY <1>4, <1>6, <1>7, <1>9 DEF StoreInv

\* The provider takes the money, or does not.
LEMMA ProviderKeeps ==
  ASSUME StoreInv, NEW b \in Subs, NEW s \in SubStatus \cup Session, Provider(b, s)
  PROVE  StoreInv'
<1>1. StoreTypeOK /\ SignupOK /\ BillingOK /\ \A g \in Handlers : job[g] \in StoreJob /\ JobOK(job[g])
  BY DEF StoreInv, StoreTypeOK
<1>2. /\ sub[b] # "none" /\ s # "none" /\ (Paid(b) => s \in SubStatus)
      /\ sub' \in [Subs -> SubStatus \cup Session] /\ sub'[b] = s
      /\ \A c \in Subs : c # b => sub'[c] = sub[c]
      /\ announced' \in [Subs -> SUBSET SubStatus] /\ (s \in SubStatus => s \in announced'[b])
      /\ \A c \in Subs : announced[c] \subseteq announced'[c]
      /\ UNCHANGED <<buyer, signup, store, held, job>>
  BY <1>1 DEF Provider, StoreTypeOK, SignupRec, SignupStatus, SubStatus, Session, Paid, StoreRec
<1>4. StoreTypeOK'
  BY <1>1, <1>2 DEF StoreTypeOK, SignupRec
<1>5. Stable
  BY <1>1, <1>2 DEF Stable, SignupOK, BillingOK, SessionsOK, StoreTypeOK, SubStatus, Session, Begun, Exists, Paid
<1>6. SignupOK'
  BY <1>1, <1>2, <1>5 DEF Stable, SignupOK, PasswordUntilStore, StoreTypeOK, SubStatus, Session, Begun, Exists, Paid
<1>7. BillingOK'
  <2>1. SessionsOK'
    BY <1>1, <1>2 DEF SessionsOK, BillingOK, StoreTypeOK, SubStatus, Session, Begun, Exists, Paid
  <2>2. NewLinksOK
    BY <1>1, <1>2 DEF NewLinksOK, BillingOK, SignupOK, StoreTypeOK, SubStatus, Session, Begun, Exists, Paid, Owns
  <2>3. NewClosuresOK
    BY <1>1, <1>2 DEF NewClosuresOK, BillingOK, SuspendingStatuses, SignupOK, StoreTypeOK, SubStatus, Session, Begun, Exists, Paid, Owns
  <2> QED
    BY <1>1, <1>4, <1>5, <2>1, <2>2, <2>3, BillingStays
<1>9. \A g \in Handlers : JobOK(job[g])'
  BY <1>2, <1>4, <1>5, JobsUntouched
<1> QED
  BY <1>4, <1>6, <1>7, <1>9 DEF StoreInv

\* A store subscribes.
LEMMA CreateTenantCheckoutKeeps ==
  ASSUME StoreInv, NEW t \in Stores, NEW b \in Subs, CreateTenantCheckout(t, b)
  PROVE  StoreInv'
<1>1. StoreTypeOK /\ SignupOK /\ BillingOK /\ \A g \in Handlers : job[g] \in StoreJob /\ JobOK(job[g])
  BY DEF StoreInv, StoreTypeOK
<1>2. /\ b # SignupSub /\ sub[b] = "none"
      /\ sub' \in [Subs -> SubStatus \cup Session] /\ sub'[b] = "open"
      /\ buyer' \in [Subs -> Stores \cup {None}]
      /\ \A c \in Subs : c # b => sub'[c] = sub[c] /\ buyer'[c] = buyer[c]
      /\ UNCHANGED <<announced, signup, store, held, job>>
  BY <1>1 DEF CreateTenantCheckout, StoreTypeOK, SignupRec, SignupStatus, SubStatus, Session, Paid, StoreRec
<1>4. StoreTypeOK'
  BY <1>1, <1>2 DEF StoreTypeOK, SignupRec
<1>5. Stable
  BY <1>1, <1>2 DEF Stable, SignupOK, BillingOK, SessionsOK, StoreTypeOK, SubStatus, Session, Begun, Exists, Paid
<1>6. SignupOK'
  BY <1>1, <1>2, <1>5 DEF Stable, SignupOK, PasswordUntilStore, StoreTypeOK, SubStatus, Session, Begun, Exists, Paid
<1>7. BillingOK'
  <2>1. SessionsOK'
    BY <1>1, <1>2 DEF SessionsOK, BillingOK, StoreTypeOK, SubStatus, Session, Begun, Exists, Paid
  <2>2. NewLinksOK
    BY <1>1, <1>2 DEF NewLinksOK, BillingOK, SignupOK, StoreTypeOK, SubStatus, Session, Begun, Exists, Paid, Owns
  <2>3. NewClosuresOK
    BY <1>1, <1>2 DEF NewClosuresOK, BillingOK, SuspendingStatuses, SignupOK, StoreTypeOK, SubStatus, Session, Begun, Exists, Paid, Owns
  <2> QED
    BY <1>1, <1>4, <1>5, <2>1, <2>2, <2>3, BillingStays
<1>9. \A g \in Handlers : JobOK(job[g])'
  BY <1>2, <1>4, <1>5, JobsUntouched
<1> QED
  BY <1>4, <1>6, <1>7, <1>9 DEF StoreInv

\* A paid signup is claimed.
LEMMA StartProvisioningKeeps ==
  ASSUME StoreInv, NEW h \in Handlers, NEW paid \in BOOLEAN, Paid(SignupSub), StartProvisioning(h, paid)
  PROVE  StoreInv'
<1>1. StoreTypeOK /\ SignupOK /\ BillingOK /\ \A g \in Handlers : job[g] \in StoreJob /\ JobOK(job[g])
  BY DEF StoreInv, StoreTypeOK
<1>2. /\ signup.status \in {"PENDING", "FAILED", "PROVISIONING"}
      /\ signup' \in SignupRec /\ signup'.status = "PROVISIONING" /\ signup'.hash = signup.hash /\ signup'.store = signup.store
      /\ UNCHANGED <<sub, buyer, announced, store, held>>
  BY <1>1 DEF StartProvisioning, Claimable, StoreTypeOK, SignupRec, SignupStatus
<1>3. PICK j \in StoreJob : j = [Resting EXCEPT !.step = "claimed", !.signup = TRUE] /\ job' = [job EXCEPT ![h] = j]
  BY ZenonT(60), RestingJob DEF StartProvisioning, StoreJob, JobStep
<1>4. StoreTypeOK'
  BY <1>1, <1>2, <1>3 DEF StoreTypeOK, SignupRec
<1>5. Stable
  BY <1>1, <1>2 DEF Stable, SignupOK, BillingOK, SessionsOK, StoreTypeOK, SubStatus, Session, Begun, Exists, Paid
<1>6. SignupOK'
  BY <1>1, <1>2, <1>5 DEF Stable, SignupOK, PasswordUntilStore, StoreTypeOK, SubStatus, Session, Begun, Exists, Paid
<1>7. BillingOK'
  <2>1. SessionsOK'
    BY <1>1, <1>2 DEF SessionsOK, BillingOK, StoreTypeOK, SubStatus, Session, Begun, Exists, Paid
  <2>2. NewLinksOK
    BY <1>1, <1>2 DEF NewLinksOK, BillingOK, SignupOK, StoreTypeOK, SubStatus, Session, Begun, Exists, Paid, Owns
  <2>3. NewClosuresOK
    BY <1>1, <1>2 DEF NewClosuresOK, BillingOK, SuspendingStatuses, SignupOK, StoreTypeOK, SubStatus, Session, Begun, Exists, Paid, Owns
  <2> QED
    BY <1>1, <1>4, <1>5, <2>1, <2>2, <2>3, BillingStays
<1>8. JobOK(j)'
  BY ZenonT(60), <1>1, <1>2, <1>3, <1>5, RestingJob DEF Stable, JobOK, Owns, StoreJob, SignupOK, BillingOK, StoreTypeOK, SubStatus, Session, Begun, Exists, Paid
<1>9. \A g \in Handlers : JobOK(job[g])'
  BY <1>3, <1>4, <1>5, <1>8, JobsStayOK
<1> QED
  BY <1>4, <1>6, <1>7, <1>9 DEF StoreInv

\* The id of the store is kept.
LEMMA FixStoreIdKeeps ==
  ASSUME StoreInv, NEW h \in Handlers, NEW t \in Stores, FixStoreId(h, t)
  PROVE  StoreInv'
<1>1. StoreTypeOK /\ SignupOK /\ BillingOK /\ \A g \in Handlers : job[g] \in StoreJob /\ JobOK(job[g])
  BY DEF StoreInv, StoreTypeOK
<1>2. /\ job[h].step = "claimed" /\ Begun
      /\ signup.store # None => signup.store = t
      /\ signup' \in SignupRec /\ signup'.status = signup.status /\ signup'.hash = signup.hash /\ signup'.store = t
      /\ UNCHANGED <<sub, buyer, announced, store, held>>
  BY ZenonT(60), <1>1 DEF FixStoreId, JobOK, StoreTypeOK, SignupRec
<1>3. PICK j \in StoreJob : j = [job[h] EXCEPT !.step = "named", !.store = t] /\ job' = [job EXCEPT ![h] = j]
  <2>1. PICK j \in StoreJob : j = [job[h] EXCEPT !.step = "named", !.store = t]
    BY ZenonT(60), <1>1, <1>2, RestingJob DEF StoreJob, JobStep
  <2> QED
    BY ZenonT(60), <1>1, <2>1 DEF FixStoreId, Next1, Finish, StoreTypeOK
<1>4. StoreTypeOK'
  BY <1>1, <1>2, <1>3 DEF StoreTypeOK, SignupRec
<1>5. Stable
  BY <1>1, <1>2 DEF Stable, SignupOK, BillingOK, SessionsOK, StoreTypeOK, SubStatus, Session, Begun, Exists, Paid
<1>6. SignupOK'
  BY <1>1, <1>2, <1>5 DEF Stable, SignupOK, PasswordUntilStore, StoreTypeOK, SubStatus, Session, Begun, Exists, Paid
<1>7. BillingOK'
  <2>1. SessionsOK'
    BY <1>1, <1>2 DEF SessionsOK, BillingOK, StoreTypeOK, SubStatus, Session, Begun, Exists, Paid
  <2>2. NewLinksOK
    BY <1>1, <1>2 DEF NewLinksOK, BillingOK, SignupOK, StoreTypeOK, SubStatus, Session, Begun, Exists, Paid, Owns
  <2>3. NewClosuresOK
    BY <1>1, <1>2 DEF NewClosuresOK, BillingOK, SuspendingStatuses, SignupOK, StoreTypeOK, SubStatus, Session, Begun, Exists, Paid, Owns
  <2> QED
    BY <1>1, <1>4, <1>5, <2>1, <2>2, <2>3, BillingStays
<1>8. JobOK(j)'
  <2>1. j.step = "named" /\ j.store = t /\ j.signup = job[h].signup
    BY ZenonT(60), <1>1, <1>3 DEF StoreJob
  <2>2. job[h].signup
    BY <1>1, <1>2 DEF JobOK
  <2>3. Begun' /\ signup'.store = t
    BY <1>2, <1>5 DEF Stable
  <2>4. t # None
    BY StoreAssumption
  <2> QED
    BY <2>1, <2>2, <2>3, <2>4 DEF JobOK
<1>9. \A g \in Handlers : JobOK(job[g])'
  BY <1>3, <1>4, <1>5, <1>8, JobsStayOK
<1> QED
  BY <1>4, <1>6, <1>7, <1>9 DEF StoreInv

\* The store is created.
LEMMA CreateTenantKeeps ==
  ASSUME StoreInv, NEW h \in Handlers, NEW t \in Stores, t = job[h].store, CreateTenant(h)
  PROVE  StoreInv'
<1>1. StoreTypeOK /\ SignupOK /\ BillingOK /\ \A g \in Handlers : job[g] \in StoreJob /\ JobOK(job[g])
  BY DEF StoreInv, StoreTypeOK
<1>2. /\ job[h].step = "named" /\ job[h].signup /\ Begun /\ t = signup.store /\ ~Exists(t)
      /\ store' \in [Stores -> StoreRec]
      /\ store'[t].status = "PROVISIONING" /\ store'[t].sub \in {None, SignupSub}
      /\ \A u \in Stores : u # t => store'[u] = store[u]
      /\ UNCHANGED <<sub, buyer, announced, signup, held>>
  <2>0. store[t] \in StoreRec
    BY <1>1 DEF StoreTypeOK
  <2>1. PICK r \in StoreRec : r = [status |-> "PROVISIONING", sub |-> IF signup.sub THEN SignupSub ELSE None,
                                subStatus |-> IF signup.sub THEN "active" ELSE None]
    BY ZenonT(60), <1>1, <2>0 DEF CreateTenant, StoreTypeOK, StoreRec, StoreStatus, JobOK, StoreJob, SubStatus
  <2>2. store' = [store EXCEPT ![t] = r]
    BY <2>1 DEF CreateTenant, StoreTypeOK
  <2>3. store' \in [Stores -> StoreRec] /\ store'[t] = r /\ \A u \in Stores : u # t => store'[u] = store[u]
    BY <1>1, <2>1, <2>2, OneStoreChanges
  <2> QED
    BY <1>1, <2>1, <2>3 DEF CreateTenant, JobOK, Exists
<1>3. PICK j \in StoreJob : j = [job[h] EXCEPT !.step = "provision"] /\ job' = [job EXCEPT ![h] = j]
  <2>1. PICK j \in StoreJob : j = [job[h] EXCEPT !.step = "provision"]
    BY ZenonT(60), <1>1, <1>2, RestingJob DEF StoreJob, JobStep
  <2> QED
    BY <1>1, <2>1 DEF CreateTenant, Next1, Finish, StoreTypeOK
<1>4. StoreTypeOK'
  BY <1>1, <1>2, <1>3 DEF StoreTypeOK, SignupRec
<1>5. Stable
  BY <1>1, <1>2 DEF Stable, SignupOK, BillingOK, SessionsOK, StoreTypeOK, SubStatus, Session, Begun, Exists, Paid
<1>6. SignupOK'
  BY <1>1, <1>2, <1>5 DEF Stable, SignupOK, PasswordUntilStore, StoreTypeOK, SubStatus, Session, Begun, Exists, Paid
<1>7. BillingOK'
  <2>1. SessionsOK'
    BY <1>1, <1>2 DEF SessionsOK, BillingOK, StoreTypeOK, SubStatus, Session, Begun, Exists, Paid
  <2>2. NewLinksOK
    BY <1>1, <1>2 DEF NewLinksOK, BillingOK, SignupOK, StoreTypeOK, SubStatus, Session, Begun, Exists, Paid, Owns
  <2>3. NewClosuresOK
    BY <1>1, <1>2 DEF NewClosuresOK, BillingOK, SuspendingStatuses, SignupOK, StoreTypeOK, SubStatus, Session, Begun, Exists, Paid, Owns
  <2> QED
    BY <1>1, <1>4, <1>5, <2>1, <2>2, <2>3, BillingStays
<1>8. JobOK(j)'
  <2>1. j.step = "provision" /\ j.signup /\ j.store = t
    BY ZenonT(60), <1>1, <1>2, <1>3 DEF StoreJob
  <2> QED
    BY <1>2, <2>1 DEF JobOK, Begun, Exists
<1>9. \A g \in Handlers : JobOK(job[g])'
  BY <1>3, <1>4, <1>5, <1>8, JobsStayOK
<1> QED
  BY <1>4, <1>6, <1>7, <1>9 DEF StoreInv

\* The store serves.
LEMMA ProvisionKeeps ==
  ASSUME StoreInv, NEW h \in Handlers, NEW t \in Stores, t = job[h].store, Provision(h)
  PROVE  StoreInv'
<1>1. StoreTypeOK /\ SignupOK /\ BillingOK /\ \A g \in Handlers : job[g] \in StoreJob /\ JobOK(job[g])
  BY DEF StoreInv, StoreTypeOK
<1>2. /\ job[h].step = "provision" /\ Exists(t)
      /\ store' \in [Stores -> StoreRec]
      /\ store'[t].status = "ACTIVE" /\ store'[t].sub = store[t].sub
      /\ \A u \in Stores : u # t => store'[u] = store[u]
      /\ UNCHANGED <<sub, buyer, announced, signup, held>>
  <2>0. store[t] \in StoreRec
    BY <1>1 DEF StoreTypeOK
  <2>1. PICK r \in StoreRec : r = [store[t] EXCEPT !.status = "ACTIVE"]
    BY ZenonT(60), <1>1, <2>0 DEF Provision, StoreTypeOK, StoreRec, StoreStatus, JobOK, StoreJob, SubStatus
  <2>2. store' = [store EXCEPT ![t] = r]
    BY <2>1 DEF Provision, StoreTypeOK
  <2>3. store' \in [Stores -> StoreRec] /\ store'[t] = r /\ \A u \in Stores : u # t => store'[u] = store[u]
    BY <1>1, <2>1, <2>2, OneStoreChanges
  <2> QED
    BY <1>1, <2>1, <2>3 DEF Provision, JobOK, StoreRec
<1>3. PICK j \in StoreJob : j = (IF job[h].signup THEN [job[h] EXCEPT !.step = "complete"] ELSE Resting) /\ job' = [job EXCEPT ![h] = j]
  <2>1. CASE job[h].signup
    <3>1. PICK j \in StoreJob : j = [job[h] EXCEPT !.step = "complete"]
      BY ZenonT(60), <1>1 DEF StoreJob, JobStep
    <3> QED
      BY <1>1, <2>1, <3>1 DEF Provision, Next1, StoreTypeOK
  <2>2. CASE ~job[h].signup
    BY <2>2, RestingJob DEF Provision, Finish
  <2> QED
    BY <2>1, <2>2
<1>4. StoreTypeOK'
  BY <1>1, <1>2, <1>3 DEF StoreTypeOK, SignupRec
<1>5. Stable
  BY <1>1, <1>2 DEF Stable, SignupOK, BillingOK, SessionsOK, StoreTypeOK, SubStatus, Session, Begun, Exists, Paid
<1>6. SignupOK'
  BY <1>1, <1>2, <1>5 DEF Stable, SignupOK, PasswordUntilStore, StoreTypeOK, SubStatus, Session, Begun, Exists, Paid
<1>7. BillingOK'
  <2>1. SessionsOK'
    BY <1>1, <1>2 DEF SessionsOK, BillingOK, StoreTypeOK, SubStatus, Session, Begun, Exists, Paid
  <2>2. NewLinksOK
    BY <1>1, <1>2 DEF NewLinksOK, BillingOK, SignupOK, StoreTypeOK, SubStatus, Session, Begun, Exists, Paid, Owns
  <2>3. NewClosuresOK
    BY <1>1, <1>2 DEF NewClosuresOK, BillingOK, SuspendingStatuses, SignupOK, StoreTypeOK, SubStatus, Session, Begun, Exists, Paid, Owns
  <2> QED
    BY <1>1, <1>4, <1>5, <2>1, <2>2, <2>3, BillingStays
<1>8. JobOK(j)'
  <2>1. CASE ~job[h].signup
    BY <1>3, <2>1, RestingJob
  <2>2. CASE job[h].signup
    <3>1. j.step = "complete" /\ j.store = t /\ j.signup
      BY ZenonT(60), <1>1, <1>3, <2>2 DEF StoreJob
    <3>2. Begun /\ t = signup.store /\ t # None /\ Exists(t)
      BY <1>1, <1>2, <2>2 DEF JobOK
    <3>3. Begun' /\ signup' = signup /\ Exists(t)'
      BY <1>2, <3>2 DEF Begun, Exists
    <3> QED
      BY <3>1, <3>2, <3>3 DEF JobOK
  <2> QED
    BY <2>1, <2>2
<1>9. \A g \in Handlers : JobOK(job[g])'
  BY <1>3, <1>4, <1>5, <1>8, JobsStayOK
<1> QED
  BY <1>4, <1>6, <1>7, <1>9 DEF StoreInv

\* The provisioning fails.
LEMMA ProvisionFailsKeeps ==
  ASSUME StoreInv, NEW h \in Handlers, NEW t \in Stores, t = job[h].store, ProvisionFails(h)
  PROVE  StoreInv'
<1>1. StoreTypeOK /\ SignupOK /\ BillingOK /\ \A g \in Handlers : job[g] \in StoreJob /\ JobOK(job[g])
  BY DEF StoreInv, StoreTypeOK
<1>2. /\ job[h].step = "provision" /\ Exists(t)
      /\ store' \in [Stores -> StoreRec]
      /\ store'[t].status = "FAILED" /\ store'[t].sub = store[t].sub
      /\ \A u \in Stores : u # t => store'[u] = store[u]
      /\ UNCHANGED <<sub, buyer, announced, signup, held>>
  <2>0. store[t] \in StoreRec
    BY <1>1 DEF StoreTypeOK
  <2>1. PICK r \in StoreRec : r = [store[t] EXCEPT !.status = "FAILED"]
    BY ZenonT(60), <1>1, <2>0 DEF ProvisionFails, StoreTypeOK, StoreRec, StoreStatus, JobOK, StoreJob, SubStatus
  <2>2. store' = [store EXCEPT ![t] = r]
    BY <2>1 DEF ProvisionFails, StoreTypeOK
  <2>3. store' \in [Stores -> StoreRec] /\ store'[t] = r /\ \A u \in Stores : u # t => store'[u] = store[u]
    BY <1>1, <2>1, <2>2, OneStoreChanges
  <2> QED
    BY <1>1, <2>1, <2>3 DEF ProvisionFails, JobOK, StoreRec
<1>3. PICK j \in StoreJob : j = (IF job[h].signup THEN [job[h] EXCEPT !.step = "fail"] ELSE Resting) /\ job' = [job EXCEPT ![h] = j]
  <2>1. CASE job[h].signup
    <3>1. PICK j \in StoreJob : j = [job[h] EXCEPT !.step = "fail"]
      BY ZenonT(60), <1>1 DEF StoreJob, JobStep
    <3> QED
      BY <1>1, <2>1, <3>1 DEF ProvisionFails, Next1, StoreTypeOK
  <2>2. CASE ~job[h].signup
    BY <2>2, RestingJob DEF ProvisionFails, Finish
  <2> QED
    BY <2>1, <2>2
<1>4. StoreTypeOK'
  BY <1>1, <1>2, <1>3 DEF StoreTypeOK, SignupRec
<1>5. Stable
  BY <1>1, <1>2 DEF Stable, SignupOK, BillingOK, SessionsOK, StoreTypeOK, SubStatus, Session, Begun, Exists, Paid
<1>6. SignupOK'
  BY <1>1, <1>2, <1>5 DEF Stable, SignupOK, PasswordUntilStore, StoreTypeOK, SubStatus, Session, Begun, Exists, Paid
<1>7. BillingOK'
  <2>1. SessionsOK'
    BY <1>1, <1>2 DEF SessionsOK, BillingOK, StoreTypeOK, SubStatus, Session, Begun, Exists, Paid
  <2>2. NewLinksOK
    BY <1>1, <1>2 DEF NewLinksOK, BillingOK, SignupOK, StoreTypeOK, SubStatus, Session, Begun, Exists, Paid, Owns
  <2>3. NewClosuresOK
    BY <1>1, <1>2 DEF NewClosuresOK, BillingOK, SuspendingStatuses, SignupOK, StoreTypeOK, SubStatus, Session, Begun, Exists, Paid, Owns
  <2> QED
    BY <1>1, <1>4, <1>5, <2>1, <2>2, <2>3, BillingStays
<1>8. JobOK(j)'
  <2>1. CASE ~job[h].signup
    BY <1>3, <2>1, RestingJob
  <2>2. CASE job[h].signup
    <3>1. j.step = "fail" /\ j.store = t /\ j.signup
      BY ZenonT(60), <1>1, <1>3, <2>2 DEF StoreJob
    <3>2. Begun /\ t = signup.store /\ t # None /\ Exists(t)
      BY <1>1, <1>2, <2>2 DEF JobOK
    <3>3. Begun' /\ signup' = signup /\ Exists(t)'
      BY <1>2, <3>2 DEF Begun, Exists
    <3> QED
      BY <3>1, <3>2, <3>3 DEF JobOK
  <2> QED
    BY <2>1, <2>2
<1>9. \A g \in Handlers : JobOK(job[g])'
  BY <1>3, <1>4, <1>5, <1>8, JobsStayOK
<1> QED
  BY <1>4, <1>6, <1>7, <1>9 DEF StoreInv

\* The signup is complete, and the password erased.
LEMMA CompleteSignupKeeps ==
  ASSUME StoreInv, NEW h \in Handlers, CompleteSignup(h)
  PROVE  StoreInv'
<1>1. StoreTypeOK /\ SignupOK /\ BillingOK /\ \A g \in Handlers : job[g] \in StoreJob /\ JobOK(job[g])
  BY DEF StoreInv, StoreTypeOK
<1>2. /\ job[h].step = "complete" /\ job[h].signup /\ Begun /\ signup.store # None /\ Exists(signup.store)
      /\ signup' \in SignupRec /\ signup'.status = "COMPLETED" /\ signup'.hash = FALSE /\ signup'.store = signup.store
      /\ UNCHANGED <<sub, buyer, announced, store, held>>
  BY <1>1 DEF CompleteSignup, JobOK, StoreTypeOK, SignupRec, SignupStatus
<1>3. PICK j \in StoreJob : j = [job[h] EXCEPT !.step = "mail"] /\ job' = [job EXCEPT ![h] = j]
  <2>1. PICK j \in StoreJob : j = [job[h] EXCEPT !.step = "mail"]
    BY ZenonT(60), <1>1, <1>2, RestingJob DEF StoreJob, JobStep
  <2> QED
    BY <1>1, <2>1 DEF CompleteSignup, Next1, Finish, StoreTypeOK
<1>4. StoreTypeOK'
  BY <1>1, <1>2, <1>3 DEF StoreTypeOK, SignupRec
<1>5. Stable
  BY <1>1, <1>2 DEF Stable, SignupOK, BillingOK, SessionsOK, StoreTypeOK, SubStatus, Session, Begun, Exists, Paid
<1>6. SignupOK'
  BY <1>1, <1>2, <1>5 DEF Stable, SignupOK, PasswordUntilStore, StoreTypeOK, SubStatus, Session, Begun, Exists, Paid
<1>7. BillingOK'
  <2>1. SessionsOK'
    BY <1>1, <1>2 DEF SessionsOK, BillingOK, StoreTypeOK, SubStatus, Session, Begun, Exists, Paid
  <2>2. NewLinksOK
    BY <1>1, <1>2 DEF NewLinksOK, BillingOK, SignupOK, StoreTypeOK, SubStatus, Session, Begun, Exists, Paid, Owns
  <2>3. NewClosuresOK
    BY <1>1, <1>2 DEF NewClosuresOK, BillingOK, SuspendingStatuses, SignupOK, StoreTypeOK, SubStatus, Session, Begun, Exists, Paid, Owns
  <2> QED
    BY <1>1, <1>4, <1>5, <2>1, <2>2, <2>3, BillingStays
<1>8. JobOK(j)'
  BY ZenonT(60), <1>1, <1>2, <1>3, <1>5, RestingJob DEF Stable, JobOK, Owns, StoreJob, SignupOK, BillingOK, StoreTypeOK, SubStatus, Session, Begun, Exists, Paid
<1>9. \A g \in Handlers : JobOK(job[g])'
  BY <1>3, <1>4, <1>5, <1>8, JobsStayOK
<1> QED
  BY <1>4, <1>6, <1>7, <1>9 DEF StoreInv

\* The signup failed.
LEMMA FailSignupKeeps ==
  ASSUME StoreInv, NEW h \in Handlers, FailSignup(h)
  PROVE  StoreInv'
<1>1. StoreTypeOK /\ SignupOK /\ BillingOK /\ \A g \in Handlers : job[g] \in StoreJob /\ JobOK(job[g])
  BY DEF StoreInv, StoreTypeOK
<1>2. /\ Begun
      /\ signup' \in SignupRec /\ signup'.status = "FAILED" /\ signup'.hash = signup.hash /\ signup'.store = signup.store
      /\ UNCHANGED <<sub, buyer, announced, store, held>>
  BY <1>1 DEF FailSignup, JobOK, StoreTypeOK, SignupRec, SignupStatus
<1>3. PICK j \in StoreJob : j = Resting /\ job' = [job EXCEPT ![h] = j]
  <2>1. PICK j \in StoreJob : j = Resting
    BY ZenonT(60), <1>1, <1>2, RestingJob DEF StoreJob, JobStep
  <2> QED
    BY <1>1, <2>1 DEF FailSignup, Next1, Finish, StoreTypeOK
<1>4. StoreTypeOK'
  BY <1>1, <1>2, <1>3 DEF StoreTypeOK, SignupRec
<1>5. Stable
  BY <1>1, <1>2 DEF Stable, SignupOK, BillingOK, SessionsOK, StoreTypeOK, SubStatus, Session, Begun, Exists, Paid
<1>6. SignupOK'
  BY <1>1, <1>2, <1>5 DEF Stable, SignupOK, PasswordUntilStore, StoreTypeOK, SubStatus, Session, Begun, Exists, Paid
<1>7. BillingOK'
  <2>1. SessionsOK'
    BY <1>1, <1>2 DEF SessionsOK, BillingOK, StoreTypeOK, SubStatus, Session, Begun, Exists, Paid
  <2>2. NewLinksOK
    BY <1>1, <1>2 DEF NewLinksOK, BillingOK, SignupOK, StoreTypeOK, SubStatus, Session, Begun, Exists, Paid, Owns
  <2>3. NewClosuresOK
    BY <1>1, <1>2 DEF NewClosuresOK, BillingOK, SuspendingStatuses, SignupOK, StoreTypeOK, SubStatus, Session, Begun, Exists, Paid, Owns
  <2> QED
    BY <1>1, <1>4, <1>5, <2>1, <2>2, <2>3, BillingStays
<1>8. JobOK(j)'
  BY <1>3, RestingJob DEF JobOK
<1>9. \A g \in Handlers : JobOK(job[g])'
  BY <1>3, <1>4, <1>5, <1>8, JobsStayOK
<1> QED
  BY <1>4, <1>6, <1>7, <1>9 DEF StoreInv

\* The subscription is linked.
LEMMA LinkTenantSubscriptionKeeps ==
  ASSUME StoreInv, NEW h \in Handlers, NEW t \in Stores, NEW b \in Subs, LinkTenantSubscription(h, t, b)
  PROVE  StoreInv'
<1>1. StoreTypeOK /\ SignupOK /\ BillingOK /\ \A g \in Handlers : job[g] \in StoreJob /\ JobOK(job[g])
  BY DEF StoreInv, StoreTypeOK
<1>2. /\ Paid(b) /\ Owns(t, b)
      /\ store' \in [Stores -> StoreRec]
      /\ store'[t].status = store[t].status /\ store'[t].sub = b
      /\ \A u \in Stores : u # t => store'[u] = store[u]
      /\ UNCHANGED <<sub, buyer, announced, signup, held>>
  <2>0. store[t] \in StoreRec
    BY <1>1 DEF StoreTypeOK
  <2>1. PICK r \in StoreRec : r = [store[t] EXCEPT !.sub = b]
    BY ZenonT(60), <1>1, <2>0 DEF LinkTenantSubscription, StoreTypeOK, StoreRec, StoreStatus, JobOK, StoreJob, SubStatus
  <2>2. store' = [store EXCEPT ![t] = r]
    BY <2>1 DEF LinkTenantSubscription, StoreTypeOK
  <2>3. store' \in [Stores -> StoreRec] /\ store'[t] = r /\ \A u \in Stores : u # t => store'[u] = store[u]
    BY <1>1, <2>1, <2>2, OneStoreChanges
  <2> QED
    BY <1>1, <2>1, <2>3 DEF LinkTenantSubscription, StoreRec, Owns
<1>3. PICK j \in StoreJob : j = [Resting EXCEPT !.step = "retrieve", !.sub = b] /\ job' = [job EXCEPT ![h] = j]
  <2>1. PICK j \in StoreJob : j = [Resting EXCEPT !.step = "retrieve", !.sub = b]
    BY ZenonT(60), <1>1, <1>2, RestingJob DEF StoreJob, JobStep
  <2> QED
    BY <1>1, <2>1 DEF LinkTenantSubscription, Next1, Finish, StoreTypeOK
<1>4. StoreTypeOK'
  BY <1>1, <1>2, <1>3 DEF StoreTypeOK, SignupRec
<1>5. Stable
  BY <1>1, <1>2 DEF Stable, SignupOK, BillingOK, SessionsOK, StoreTypeOK, SubStatus, Session, Begun, Exists, Paid
<1>6. SignupOK'
  BY <1>1, <1>2, <1>5 DEF Stable, SignupOK, PasswordUntilStore, StoreTypeOK, SubStatus, Session, Begun, Exists, Paid
<1>7. BillingOK'
  <2>1. SessionsOK'
    BY <1>1, <1>2 DEF SessionsOK, BillingOK, StoreTypeOK, SubStatus, Session, Begun, Exists, Paid
  <2>2. NewLinksOK
    BY <1>1, <1>2 DEF NewLinksOK, BillingOK, SignupOK, StoreTypeOK, SubStatus, Session, Begun, Exists, Paid, Owns
  <2>3. NewClosuresOK
    BY <1>1, <1>2 DEF NewClosuresOK, BillingOK, SuspendingStatuses, SignupOK, StoreTypeOK, SubStatus, Session, Begun, Exists, Paid, Owns
  <2> QED
    BY <1>1, <1>4, <1>5, <2>1, <2>2, <2>3, BillingStays
<1>8. JobOK(j)'
  <2>1. j.step = "retrieve" /\ j.sub = b /\ j.signup = FALSE
    BY ZenonT(60), <1>3 DEF Resting, StoreJob
  <2>2. Paid(b)' /\ b # None
    BY <1>2, <1>5, StoreAssumption DEF Stable
  <2> QED
    BY <2>1, <2>2 DEF JobOK
<1>9. \A g \in Handlers : JobOK(job[g])'
  BY <1>3, <1>4, <1>5, <1>8, JobsStayOK
<1> QED
  BY <1>4, <1>6, <1>7, <1>9 DEF StoreInv

\* The store follows its subscription.
LEMMA SyncTenantKeeps ==
  ASSUME StoreInv, NEW h \in Handlers, NEW t \in Stores, t = job[h].store, SyncTenant(h)
  PROVE  StoreInv'
<1>1. StoreTypeOK /\ SignupOK /\ BillingOK /\ \A g \in Handlers : job[g] \in StoreJob /\ JobOK(job[g])
  BY DEF StoreInv, StoreTypeOK
<1>2. /\ job[h].step = "write" /\ Exists(t)
      /\ job[h].sub \in Subs /\ Owns(t, job[h].sub) /\ job[h].got \in announced[job[h].sub]
      /\ store' \in [Stores -> StoreRec]
      /\ store'[t].sub = store[t].sub /\ Exists(t)' 
      /\ \A u \in Stores : u # t => store'[u] = store[u]
      /\ store'[t].status = "SUSPENDED" => store[t].status = "SUSPENDED" \/ job[h].got \in SuspendingStatuses
      /\ UNCHANGED <<sub, buyer, announced, signup, held>>
  <2>1. job[h].step = "write" /\ Exists(t) /\ job[h].sub \in Subs /\ job[h].got \in announced[job[h].sub]
        /\ Owns(t, job[h].sub) /\ job[h].got \in SubStatus
    BY ZenonT(60), <1>1 DEF SyncTenant, JobOK, StoreJob, StoreTypeOK
  <2>2. PICK s \in StoreStatus :
          s = IF job[h].got \in SuspendingStatuses /\ job[h].found = "serving" THEN "SUSPENDED"
              ELSE IF job[h].got = "active" /\ job[h].found = "closed by billing" THEN "ACTIVE" ELSE store[t].status
    BY ZenonT(60), <1>1 DEF StoreTypeOK, StoreRec, StoreStatus
  <2>0. store[t] \in StoreRec
    BY <1>1 DEF StoreTypeOK
  <2>3. PICK r \in StoreRec : r = [store[t] EXCEPT !.subStatus = job[h].got, !.status = s]
    BY <2>0, <2>1 DEF StoreRec
  <2>4. store' = [store EXCEPT ![t] = r]
    <3>1. store' = [store EXCEPT ![t] = [store[t] EXCEPT !.subStatus = job[h].got, !.status = s]]
      BY ZenonT(60), <1>1, <2>2 DEF SyncTenant, StoreTypeOK
    <3> QED
      BY <3>1, <2>3
  <2>5. store' \in [Stores -> StoreRec] /\ store'[t] = r /\ \A u \in Stores : u # t => store'[u] = store[u]
    BY <1>1, <2>3, <2>4, OneStoreChanges
  <2>6. r.sub = store[t].sub /\ r.status = s
    BY <1>1, <2>3 DEF StoreTypeOK, StoreRec
  <2> QED
    BY ZenonT(60), <2>1, <2>2, <2>5, <2>6 DEF SyncTenant, Exists
<1>3. PICK j \in StoreJob : j = Resting /\ job' = [job EXCEPT ![h] = j]
  <2>1. PICK j \in StoreJob : j = Resting
    BY ZenonT(60), <1>1, <1>2, RestingJob DEF StoreJob, JobStep
  <2> QED
    BY ZenonT(60), <1>1, <2>1 DEF SyncTenant, Next1, Finish, StoreTypeOK
<1>4. StoreTypeOK'
  BY <1>1, <1>2, <1>3 DEF StoreTypeOK, SignupRec
<1>5. Stable
  BY <1>1, <1>2 DEF Stable, SignupOK, BillingOK, SessionsOK, StoreTypeOK, SubStatus, Session, Begun, Exists, Paid
<1>6. SignupOK'
  BY <1>1, <1>2, <1>5 DEF Stable, SignupOK, PasswordUntilStore, StoreTypeOK, SubStatus, Session, Begun, Exists, Paid
<1>7. BillingOK'
  <2>1. SessionsOK'
    BY <1>1, <1>2 DEF SessionsOK, BillingOK, StoreTypeOK, SubStatus, Session, Begun, Exists, Paid
  <2>2. NewLinksOK
    BY <1>1, <1>2 DEF NewLinksOK, BillingOK, SignupOK, StoreTypeOK, SubStatus, Session, Begun, Exists, Paid, Owns
  <2>3. NewClosuresOK
    BY <1>1, <1>2 DEF NewClosuresOK, BillingOK, SuspendingStatuses, SignupOK, StoreTypeOK, SubStatus, Session, Begun, Exists, Paid, Owns
  <2> QED
    BY <1>1, <1>4, <1>5, <2>1, <2>2, <2>3, BillingStays
<1>8. JobOK(j)'
  BY <1>3, RestingJob DEF JobOK
<1>9. \A g \in Handlers : JobOK(job[g])'
  BY <1>3, <1>4, <1>5, <1>8, JobsStayOK
<1> QED
  BY <1>4, <1>6, <1>7, <1>9 DEF StoreInv

\* The platform closes or opens.
LEMMA SetStatusKeeps ==
  ASSUME StoreInv, NEW h \in Handlers, NEW t \in Stores, t = job[h].store, SetStatus(h)
  PROVE  StoreInv'
<1>1. StoreTypeOK /\ SignupOK /\ BillingOK /\ \A g \in Handlers : job[g] \in StoreJob /\ JobOK(job[g])
  BY DEF StoreInv, StoreTypeOK
<1>2. /\ Exists(t)
      /\ held' \subseteq Stores /\ \A u \in held : u # t => u \in held'
      /\ store' \in [Stores -> StoreRec]
      /\ store'[t].sub = store[t].sub /\ (store'[t].status = "ACTIVE" \/ (store'[t].status = "SUSPENDED" /\ t \in held'))
      /\ \A u \in Stores : u # t => store'[u] = store[u]
      /\ UNCHANGED <<sub, buyer, announced, signup>>
  <2>1. CASE job[h].step = "suspend"
    <3>0. store[t] \in StoreRec
      BY <1>1 DEF StoreTypeOK
    <3>1. PICK r \in StoreRec : r = [store[t] EXCEPT !.status = "SUSPENDED"]
      BY <3>0 DEF StoreRec, StoreStatus
    <3>2. store' = [store EXCEPT ![t] = r] /\ held' = held \cup {t} /\ UNCHANGED <<sub, buyer, announced, signup>>
      BY <2>1, <3>1 DEF SetStatus, StoreTypeOK
    <3>3. store' \in [Stores -> StoreRec] /\ store'[t] = r /\ \A u \in Stores : u # t => store'[u] = store[u]
      BY <1>1, <3>1, <3>2, OneStoreChanges
    <3> QED
      BY <1>1, <2>1, <3>1, <3>2, <3>3 DEF StoreTypeOK, JobOK, StoreRec
  <2>2. CASE job[h].step = "reactivate"
    <3>0. store[t] \in StoreRec
      BY <1>1 DEF StoreTypeOK
    <3>1. PICK r \in StoreRec : r = [store[t] EXCEPT !.status = "ACTIVE"]
      BY <3>0 DEF StoreRec, StoreStatus
    <3>2. store' = [store EXCEPT ![t] = r] /\ held' = held \ {t} /\ UNCHANGED <<sub, buyer, announced, signup>>
      BY <2>2, <3>1 DEF SetStatus, StoreTypeOK
    <3>3. store' \in [Stores -> StoreRec] /\ store'[t] = r /\ \A u \in Stores : u # t => store'[u] = store[u]
      BY <1>1, <3>1, <3>2, OneStoreChanges
    <3> QED
      BY <1>1, <2>2, <3>1, <3>2, <3>3 DEF StoreTypeOK, JobOK, StoreRec
  <2> QED
    BY <2>1, <2>2 DEF SetStatus
<1>3. PICK j \in StoreJob : j = Resting /\ job' = [job EXCEPT ![h] = j]
  <2>1. PICK j \in StoreJob : j = Resting
    BY ZenonT(60), <1>1, <1>2, RestingJob DEF StoreJob, JobStep
  <2> QED
    BY <1>1, <2>1 DEF SetStatus, Next1, Finish, StoreTypeOK
<1>4. StoreTypeOK'
  BY <1>1, <1>2, <1>3 DEF StoreTypeOK, SignupRec
<1>5. Stable
  BY <1>1, <1>2 DEF Stable, SignupOK, BillingOK, SessionsOK, StoreTypeOK, SubStatus, Session, Begun, Exists, Paid
<1>6. SignupOK'
  BY <1>1, <1>2, <1>5 DEF Stable, SignupOK, PasswordUntilStore, StoreTypeOK, SubStatus, Session, Begun, Exists, Paid
<1>7. BillingOK'
  <2>1. SessionsOK'
    BY <1>1, <1>2 DEF SessionsOK, BillingOK, StoreTypeOK, SubStatus, Session, Begun, Exists, Paid
  <2>2. NewLinksOK
    BY <1>1, <1>2 DEF NewLinksOK, BillingOK, SignupOK, StoreTypeOK, SubStatus, Session, Begun, Exists, Paid, Owns
  <2>3. NewClosuresOK
    BY <1>1, <1>2 DEF NewClosuresOK, BillingOK, SuspendingStatuses, SignupOK, StoreTypeOK, SubStatus, Session, Begun, Exists, Paid, Owns
  <2> QED
    BY <1>1, <1>4, <1>5, <2>1, <2>2, <2>3, BillingStays
<1>8. JobOK(j)'
  BY <1>3, RestingJob DEF JobOK
<1>9. \A g \in Handlers : JobOK(job[g])'
  BY <1>3, <1>4, <1>5, <1>8, JobsStayOK
<1> QED
  BY <1>4, <1>6, <1>7, <1>9 DEF StoreInv

-----------------------------------------------------------------------------
(* Theorems *)

\* At first there is no signup, and no store has a subscription.
LEMMA StoreInitially == StoreInit => StoreInv
<1> SUFFICES ASSUME StoreInit PROVE StoreInv
  OBVIOUS
<1> USE DEF StoreInit
<1>1. /\ sub \in [Subs -> SubStatus \cup Session] /\ buyer \in [Subs -> Stores \cup {None}]
      /\ announced \in [Subs -> SUBSET SubStatus] /\ held \subseteq Stores
  BY DEF SubStatus, Session
<1>2. signup \in SignupRec /\ signup.status = "absent" /\ signup.store = None
  BY DEF SignupRec, SignupStatus
<1>3. job \in [Handlers -> StoreJob] /\ \A h \in Handlers : job[h] = Resting
  BY RestingJob
<1>4. store \in [Stores -> StoreRec] /\ \A t \in Stores : store[t].status # "SUSPENDED" /\ store[t].sub = None
  <2>1. NoStoreRow \in StoreRec /\ OwnStore \in StoreRec
    BY DEF NoStoreRow, OwnStore, StoreRec, StoreStatus
  <2> QED
    BY <2>1 DEF NoStoreRow, OwnStore
<1>5. StoreTypeOK
  BY <1>1, <1>2, <1>3, <1>4 DEF StoreTypeOK, SignupRec
<1>6. SignupOK
  BY <1>2 DEF SignupOK, Begun, PasswordUntilStore
<1>7. BillingOK
  BY <1>4 DEF BillingOK, SessionsOK, Paid, SubStatus, SuspensionHasACause
<1>8. \A h \in Handlers : JobOK(job[h])
  BY <1>3, RestingJob
<1> QED
  BY <1>5, <1>6, <1>7, <1>8 DEF StoreInv

\* A job that works at a store works at one there is.
LEMMA JobStores ==
  ASSUME StoreInv, NEW h \in Handlers,
         job[h].step \in {"named", "provision", "write", "suspend", "reactivate"}
  PROVE  job[h].store \in Stores
<1>1. JobOK(job[h]) /\ job[h] \in StoreJob
  BY DEF StoreInv, StoreTypeOK
<1> QED
  BY ZenonT(60), <1>1 DEF JobOK, StoreJob

\* The steps of a provisioning.
LEMMA ProvisionStepKeeps == ASSUME StoreInv, NEW h \in Handlers, ProvisionStep(h) PROVE StoreInv'
<1>1. CASE \E t \in Stores : FixStoreId(h, t)
  BY <1>1, FixStoreIdKeeps
<1>2. CASE CreateTenant(h)
  BY <1>2, CreateTenantKeeps, JobStores DEF CreateTenant
<1>3. CASE Provision(h)
  BY <1>3, ProvisionKeeps, JobStores DEF Provision
<1>4. CASE ProvisionFails(h)
  BY <1>4, ProvisionFailsKeeps, JobStores DEF ProvisionFails
<1> QED
  BY <1>1, <1>2, <1>3, <1>4, ResumeTenantKeeps, CreationFailsKeeps, CompleteSignupKeeps, SendWelcomeKeeps,
     FailSignupKeeps DEF ProvisionStep

\* Whoever claims a signup claims one that was paid.
LEMMA ClaimsKeep ==
  ASSUME StoreInv, NEW h \in Handlers, HandleCheckoutPaid(h) \/ GetCheckoutStatus(h) \/ RetrySignup(h)
  PROVE  StoreInv'
<1>1. CASE HandleCheckoutPaid(h)
  BY <1>1, StartProvisioningKeeps DEF HandleCheckoutPaid
<1>2. CASE GetCheckoutStatus(h)
  BY <1>1, <1>2, StartProvisioningKeeps, HandleCheckoutExpiredKeeps DEF GetCheckoutStatus, HandleCheckoutPaid
<1>3. CASE RetrySignup(h)
  <2>1. signup.sub \in BOOLEAN /\ Paid(SignupSub)
    BY <1>3 DEF RetrySignup, StoreInv, StoreTypeOK, SignupOK, SignupStatus, Begun
  <2>2. PICK paid \in BOOLEAN : paid = signup.sub
    BY <2>1
  <2>3. StartProvisioning(h, paid)
    BY <1>3, <2>2 DEF RetrySignup, StartProvisioning
  <2> QED
    BY <2>1, <2>3, StartProvisioningKeeps
<1> QED
  BY <1>1, <1>2, <1>3

\* The steps of the platform.
LEMMA PlatformStepKeeps == ASSUME StoreInv, NEW h \in Handlers, PlatformStep(h) PROVE StoreInv'
<1>1. CASE SetStatus(h)
  BY <1>1, SetStatusKeeps, JobStores DEF SetStatus
<1> QED
  BY <1>1, RetryStoreKeeps, CheckStatusKeeps, ClaimsKeep DEF PlatformStep

\* The steps of the billing.
LEMMA BillingStepKeeps == ASSUME StoreInv, NEW h \in Handlers, BillingStep(h) PROVE StoreInv'
<1>1. CASE SyncTenant(h)
  BY ZenonT(60), <1>1, SyncTenantKeeps, JobStores DEF SyncTenant
<1> QED
  BY SMTT(60), <1>1, GetTenantSubscriptionKeeps, LinkTenantSubscriptionKeeps, HandleSubscriptionChangeKeeps, RetrieveKeeps,
     FindTenantKeeps DEF BillingStep

\* Every step keeps the invariant.
LEMMA StoreStep == StoreInv /\ [StoreNext]_storeVars => StoreInv'
<1> SUFFICES ASSUME StoreInv, [StoreNext]_storeVars PROVE StoreInv'
  OBVIOUS
<1>1. CASE UNCHANGED storeVars
  BY <1>1 DEF storeVars, StoreInv, StoreTypeOK, SignupOK, BillingOK, SessionsOK, JobOK, PasswordUntilStore,
       SuspensionHasACause, Begun, Exists, Paid, Owns
<1>2. CASE StoreNext
  BY <1>2, CreateCheckoutKeeps, HandleCheckoutExpiredKeeps, TurnStaleKeeps, ProviderKeeps, CreateTenantCheckoutKeeps,
     ClaimsKeep, DieKeeps, ProvisionStepKeeps, PlatformStepKeeps, BillingStepKeeps DEF StoreNext
<1> QED
  BY <1>1, <1>2

\* The invariant holds for any number of stores, subscriptions and handlers.
THEOREM StoreInvariance == StoreSpec => []StoreInv
  BY StoreInitially, StoreStep, PTL DEF StoreSpec

\* The password of the owner is erased when its store holds it, not before.
THEOREM PasswordUntilStoreHolds == StoreSpec => []PasswordUntilStore
<1>1. StoreInv => PasswordUntilStore
  BY DEF StoreInv, SignupOK
<1> QED
  BY <1>1, StoreInvariance, PTL

\* A store that a signup got was paid.
THEOREM OnlyPaidSignupsGetStoresHolds == StoreSpec => []OnlyPaidSignupsGetStores
<1>1. StoreInv => OnlyPaidSignupsGetStores
  BY DEF StoreInv, SignupOK, OnlyPaidSignupsGetStores
<1> QED
  BY <1>1, StoreInvariance, PTL

\* A store is closed by the platform or by a subscription of its own that lapsed.
THEOREM SuspensionHasACauseHolds == StoreSpec => []SuspensionHasACause
<1>1. StoreInv => SuspensionHasACause
  BY DEF StoreInv, BillingOK
<1> QED
  BY <1>1, StoreInvariance, PTL

\* A signup names one store for good, and only a store that is named comes to be.
THEOREM StoreIdIsFixedHolds == StoreSpec => StoreIdIsFixed
<1> DEFINE Fixed == /\ signup.store # None => signup'.store = signup.store
                    /\ \A t \in Stores : ~Exists(t) /\ Exists(t)' => signup.store = t
<1>1. StoreInv /\ [StoreNext]_storeVars => [Fixed]_storeVars
  <2> SUFFICES ASSUME StoreInv, StoreNext PROVE Fixed
    OBVIOUS
  <2>1. StoreTypeOK /\ SignupOK /\ \A g \in Handlers : job[g] \in StoreJob /\ JobOK(job[g])
    BY DEF StoreInv, StoreTypeOK
  <2>2. ASSUME CreateCheckout PROVE Fixed
    BY <2>1, <2>2 DEF CreateCheckout, StartProvisioning, HandleCheckoutPaid, HandleCheckoutExpired, SignupOK, Begun, StoreTypeOK, Exists
  <2>3. ASSUME HandleCheckoutExpired PROVE Fixed
    BY <2>1, <2>3 DEF HandleCheckoutExpired, StartProvisioning, HandleCheckoutPaid, HandleCheckoutExpired, SignupOK, Begun, StoreTypeOK, Exists
  <2>4. ASSUME TurnStale PROVE Fixed
    BY <2>1, <2>4 DEF TurnStale, StartProvisioning, HandleCheckoutPaid, HandleCheckoutExpired, SignupOK, Begun, StoreTypeOK, Exists
  <2>5. ASSUME NEW b \in Subs, NEW s \in SubStatus \cup Session, Provider(b, s) PROVE Fixed
    BY <2>5 DEF Provider, Exists
  <2>6. ASSUME NEW t \in Stores, NEW b \in Subs, CreateTenantCheckout(t, b) PROVE Fixed
    BY <2>6 DEF CreateTenantCheckout, Exists
  <2>7. ASSUME NEW h \in Handlers, HandleCheckoutPaid(h) PROVE Fixed
    BY <2>1, <2>7 DEF HandleCheckoutPaid, StartProvisioning, HandleCheckoutPaid, HandleCheckoutExpired, SignupOK, Begun, StoreTypeOK, Exists
  <2>8. ASSUME NEW h \in Handlers, GetCheckoutStatus(h) PROVE Fixed
    BY <2>1, <2>8 DEF GetCheckoutStatus, StartProvisioning, HandleCheckoutPaid, HandleCheckoutExpired, SignupOK, Begun, StoreTypeOK, Exists
  <2>9. ASSUME NEW h \in Handlers, Die(h) PROVE Fixed
    BY <2>9 DEF Die, Exists
  <2>10. ASSUME NEW h \in Handlers, NEW t \in Stores, FixStoreId(h, t) PROVE Fixed
    BY <2>1, <2>10 DEF FixStoreId, StoreTypeOK, Exists
  <2>11. ASSUME NEW h \in Handlers, CreateTenant(h) PROVE Fixed
    BY <2>1, <2>11 DEF CreateTenant, StoreTypeOK, StoreRec, JobOK, Exists
  <2>12. ASSUME NEW h \in Handlers, ResumeTenant(h) PROVE Fixed
    BY <2>12 DEF ResumeTenant, Exists
  <2>13. ASSUME NEW h \in Handlers, CreationFails(h) PROVE Fixed
    BY <2>13 DEF CreationFails, Exists
  <2>14. ASSUME NEW h \in Handlers, Provision(h) PROVE Fixed
    BY <2>1, <2>14 DEF Provision, StoreTypeOK, StoreRec, JobOK, Exists
  <2>15. ASSUME NEW h \in Handlers, ProvisionFails(h) PROVE Fixed
    BY <2>1, <2>15 DEF ProvisionFails, StoreTypeOK, StoreRec, JobOK, Exists
  <2>16. ASSUME NEW h \in Handlers, CompleteSignup(h) PROVE Fixed
    BY <2>1, <2>16 DEF CompleteSignup, StartProvisioning, HandleCheckoutPaid, HandleCheckoutExpired, SignupOK, Begun, StoreTypeOK, Exists
  <2>17. ASSUME NEW h \in Handlers, SendWelcome(h) PROVE Fixed
    BY <2>17 DEF SendWelcome, Exists
  <2>18. ASSUME NEW h \in Handlers, FailSignup(h) PROVE Fixed
    BY <2>1, <2>18 DEF FailSignup, StartProvisioning, HandleCheckoutPaid, HandleCheckoutExpired, SignupOK, Begun, StoreTypeOK, Exists
  <2>19. ASSUME NEW h \in Handlers, NEW t \in Stores, RetryStore(h, t) PROVE Fixed
    BY <2>19 DEF RetryStore, Exists
  <2>20. ASSUME NEW h \in Handlers, NEW t \in Stores, NEW step \in {"suspend", "reactivate"}, CheckStatus(h, t, step) PROVE Fixed
    BY <2>20 DEF CheckStatus, Exists
  <2>21. ASSUME NEW h \in Handlers, RetrySignup(h) PROVE Fixed
    BY <2>1, <2>21 DEF RetrySignup, StartProvisioning, HandleCheckoutPaid, HandleCheckoutExpired, SignupOK, Begun, StoreTypeOK, Exists
  <2>22. ASSUME NEW h \in Handlers, SetStatus(h) PROVE Fixed
    BY <2>1, <2>22 DEF SetStatus, StoreTypeOK, StoreRec, JobOK, Exists
  <2>23. ASSUME NEW h \in Handlers, NEW t \in Stores, GetTenantSubscription(h, t) PROVE Fixed
    BY <2>23 DEF GetTenantSubscription, Exists
  <2>24. ASSUME NEW h \in Handlers, NEW t \in Stores, NEW b \in Subs, LinkTenantSubscription(h, t, b) PROVE Fixed
    BY <2>1, <2>24 DEF LinkTenantSubscription, StoreTypeOK, StoreRec, JobOK, Exists
  <2>25. ASSUME NEW h \in Handlers, NEW b \in Subs, HandleSubscriptionChange(h, b) PROVE Fixed
    BY <2>25 DEF HandleSubscriptionChange, Exists
  <2>26. ASSUME NEW h \in Handlers, Retrieve(h) PROVE Fixed
    BY <2>26 DEF Retrieve, Exists
  <2>27. ASSUME NEW h \in Handlers, FindTenant(h) PROVE Fixed
    BY ZenonT(60), <2>27 DEF FindTenant, Exists
  <2>28. ASSUME NEW h \in Handlers, SyncTenant(h) PROVE Fixed
    BY ZenonT(60), <2>1, <2>28 DEF SyncTenant, StoreTypeOK, StoreRec, JobOK, Exists
  <2> QED
    BY <2>2, <2>3, <2>4, <2>5, <2>6, <2>7, <2>8, <2>9, <2>10, <2>11, <2>12, <2>13, <2>14, <2>15, <2>16, <2>17, <2>18, <2>19, <2>20, <2>21, <2>22, <2>23, <2>24, <2>25, <2>26, <2>27, <2>28 DEF StoreNext, ProvisionStep, PlatformStep, BillingStep
<1> QED
  BY <1>1, StoreInvariance, PTL DEF StoreSpec, StoreIdIsFixed

-----------------------------------------------------------------------------
(* Its branches and products *)

USE CatalogueAssumption

TaskRec == [step : Steps, on : Branches \cup Products \cup {"none"}, list : SUBSET (Branches \X Products)]

\* A request that seeds holds pairs of what it created, and a product that is
\* taken out of the archive exists.
TasksAreOwn ==
  \A a \in Admins :
    /\ task[a].step = "seed" => \A bp \in task[a].list : task[a].on \in {bp[1], bp[2]}
    /\ \A p \in Products : At(a, "open", p) => product[p] # "absent"

\* A pair that has no row yet is one that some request is going to list, or has
\* listed and is going to seed.
Covers(a, b, p) == \/ At(a, "read", b) \/ At(a, "read", p)
                   \/ task[a].step = "seed" /\ <<b, p>> \in task[a].list

EveryPairIsCovered ==
  \A b \in Existing(branch), p \in Existing(product) :
    <<b, p>> \in seeded \cup passedOver \/ \E a \in Admins : Covers(a, b, p)

\* Requests that counted and have not written yet, and the room they leave.
BranchesToCome == {a \in Admins : task[a].step \in {"insert", "open"} /\ task[a].on \in Branches}
ProductsToCome == {a \in Admins : task[a].step \in {"insert", "open"} /\ task[a].on \in Products}
Fits(active, toCome, max) ==
  toCome # {} => Cardinality(active) + Cardinality(toCome) < max + Cardinality(Admins)

CatalogueInv ==
  /\ CatalogueTypeOK
  /\ TasksAreOwn
  /\ EveryPairIsCovered
  /\ Fits(Active(branch), BranchesToCome, MaxBranches)
  /\ Fits(Active(product), ProductsToCome, MaxProducts)

-----------------------------------------------------------------------------
(* Requests *)

\* Every statement leaves the requests of the others alone.
LEMMA OneTaskMoves ==
  ASSUME CatalogueTypeOK, NEW a \in Admins,
         NEW step \in Steps, NEW x \in Branches \cup Products \cup {"none"}, NEW list \in SUBSET (Branches \X Products),
         Resume(a, step, x, list)
  PROVE  /\ task' \in [Admins -> TaskRec]
         /\ task'[a].step = step /\ task'[a].on = x /\ task'[a].list = list
         /\ \A c \in Admins : c # a => task'[c] = task[c]
<1>1. [step |-> step, on |-> x, list |-> list] \in TaskRec
  BY DEF TaskRec
<1> QED
  BY <1>1 DEF CatalogueTypeOK, TaskRec, Resume

\* A request that ends leaves the requests of the others alone.
LEMMA TaskEnds ==
  ASSUME CatalogueTypeOK, NEW a \in Admins, Release(a)
  PROVE  /\ task' \in [Admins -> TaskRec]
         /\ task'[a].step = "idle"
         /\ \A c \in Admins : c # a => task'[c] = task[c]
<1>1. Free \in TaskRec /\ Free.step = "idle"
  BY DEF TaskRec, Free, Steps
<1> QED
  BY <1>1 DEF CatalogueTypeOK, TaskRec, Release

-----------------------------------------------------------------------------
(* Counting *)

\* Rows that are active become fewer; or a request that counted writes one; or
\* a request counts and finds room.
Counted(active, toCome, active1, toCome1, max) ==
  \/ active1 \subseteq active /\ toCome1 \subseteq toCome
  \/ \E a \in toCome : \E x : active1 \subseteq active \cup {x} /\ toCome1 \subseteq toCome \ {a}
  \/ active1 = active /\ Cardinality(active) < max

\* What was counted still fits, and rows that grow stay under the limit plus the
\* number of requests.
LEMMA CountedFits ==
  ASSUME NEW active, IsFiniteSet(active), NEW toCome \in SUBSET Admins,
         NEW active1, NEW toCome1 \in SUBSET Admins, NEW max \in Nat,
         Fits(active, toCome, max), Counted(active, toCome, active1, toCome1, max)
  PROVE  /\ Fits(active1, toCome1, max)
         /\ Cardinality(active1) > Cardinality(active) => Cardinality(active1) < max + Cardinality(Admins)
<1>1. /\ IsFiniteSet(toCome) /\ IsFiniteSet(toCome1)
      /\ Cardinality(active) \in Nat /\ Cardinality(Admins) \in Nat
      /\ Cardinality(toCome) \in Nat /\ Cardinality(toCome1) \in Nat
      /\ Cardinality(toCome1) <= Cardinality(Admins)
  BY FS_Subset, FS_CardinalityType
<1>2. CASE active1 \subseteq active /\ toCome1 \subseteq toCome
  <2>1. Cardinality(active1) \in Nat /\ Cardinality(active1) <= Cardinality(active)
    BY <1>2, FS_Subset, FS_CardinalityType
  <2>2. Cardinality(toCome1) <= Cardinality(toCome)
    BY <1>1, <1>2, FS_Subset
  <2> QED
    BY <1>1, <1>2, <2>1, <2>2 DEF Fits
<1>3. ASSUME NEW a \in toCome, NEW x, active1 \subseteq active \cup {x}, toCome1 \subseteq toCome \ {a}
      PROVE  /\ Fits(active1, toCome1, max)
             /\ Cardinality(active1) < max + Cardinality(Admins)
  <2>1. IsFiniteSet(active \cup {x}) /\ Cardinality(active \cup {x}) <= Cardinality(active) + 1
    <3>1. /\ IsFiniteSet(active \cup {x})
          /\ Cardinality(active \cup {x}) \in {Cardinality(active), Cardinality(active) + 1}
      BY FS_AddElement
    <3> QED
      BY <1>1, <3>1
  <2>2. Cardinality(active1) \in Nat /\ Cardinality(active1) <= Cardinality(active \cup {x})
        /\ Cardinality(active \cup {x}) \in Nat
    BY <1>3, <2>1, FS_Subset, FS_CardinalityType
  <2>3. IsFiniteSet(toCome \ {a}) /\ Cardinality(toCome \ {a}) = Cardinality(toCome) - 1
    BY <1>1, FS_RemoveElement
  <2>4. Cardinality(toCome1) <= Cardinality(toCome) - 1
    BY <1>3, <2>3, FS_Subset
  <2> QED
    BY <1>1, <2>1, <2>2, <2>4 DEF Fits
<1>4. CASE active1 = active /\ Cardinality(active) < max
  BY <1>1, <1>4 DEF Fits
<1> QED
  BY <1>2, <1>3, <1>4 DEF Counted

\* The rows that are active are finitely many.
LEMMA RowsFinite ==
  CatalogueTypeOK => IsFiniteSet(Active(branch)) /\ IsFiniteSet(Active(product))
  BY FS_Subset DEF CatalogueTypeOK, Active

-----------------------------------------------------------------------------
(* Steps *)

\* What the step must keep, the counts apart.
CatalogueKept == CatalogueTypeOK' /\ TasksAreOwn' /\ EveryPairIsCovered'
BranchesCounted == Counted(Active(branch), BranchesToCome, Active(branch)', BranchesToCome', MaxBranches)
ProductsCounted == Counted(Active(product), ProductsToCome, Active(product)', ProductsToCome', MaxProducts)

\* A request that begins read what it needs and writes nothing yet.
LEMMA RequestBegins ==
  ASSUME CatalogueInv, NEW a \in Admins, IdleAdmin(a),
         NEW step \in {"insert", "open", "close", "delete"}, NEW x \in Branches \cup Products,
         Resume(a, step, x, {}), UNCHANGED <<branch, product, seeded, passedOver>>,
         x \in Products /\ step = "open" => product[x] # "absent",
         x \in Branches /\ step \in {"insert", "open"} => Cardinality(Active(branch)) < MaxBranches,
         x \in Products /\ step \in {"insert", "open"} => Cardinality(Active(product)) < MaxProducts
  PROVE  CatalogueKept /\ BranchesCounted /\ ProductsCounted
<1>1. /\ task' \in [Admins -> TaskRec]
      /\ task'[a].step = step /\ task'[a].on = x /\ task'[a].list = {}
      /\ \A c \in Admins : c # a => task'[c] = task[c]
  BY OneTaskMoves DEF CatalogueInv, Steps
<1>2. CatalogueTypeOK'
  BY <1>1 DEF CatalogueInv, CatalogueTypeOK, TaskRec
<1>3. TasksAreOwn'
  BY <1>1 DEF CatalogueInv, TasksAreOwn, At
<1>4. EveryPairIsCovered'
  <2>1. \A c \in Admins, b \in Branches, p \in Products : Covers(c, b, p) => Covers(c, b, p)'
    BY <1>1 DEF Covers, At, IdleAdmin
  <2> QED
    BY ZenonT(60), <2>1 DEF CatalogueInv, EveryPairIsCovered, Existing, CatalogueTypeOK
<1>5. BranchesCounted
  <2>1. CASE x \in Branches /\ step \in {"insert", "open"}
    BY <2>1 DEF BranchesCounted, Counted, Active
  <2>2. CASE ~(x \in Branches /\ step \in {"insert", "open"})
    BY <2>2, <1>1 DEF BranchesCounted, Counted, Active, BranchesToCome
  <2> QED
    BY <2>1, <2>2
<1>6. ProductsCounted
  <2>1. CASE x \in Products /\ step \in {"insert", "open"}
    BY <2>1 DEF ProductsCounted, Counted, Active
  <2>2. CASE ~(x \in Products /\ step \in {"insert", "open"})
    BY <2>2, <1>1 DEF ProductsCounted, Counted, Active, ProductsToCome
  <2> QED
    BY <2>1, <2>2
<1> QED
  BY <1>2, <1>3, <1>4, <1>5, <1>6 DEF CatalogueKept

\* A step of any request keeps the invariant, the counts apart, and counts.
LEMMA CatalogueMoves ==
  ASSUME CatalogueInv, CatalogueNext
  PROVE  CatalogueKept /\ BranchesCounted /\ ProductsCounted
<1> USE DEF CatalogueInv
<1>1. ASSUME NEW a \in Admins, NEW b \in Branches, CreateBranch(a, b)
      PROVE  CatalogueKept /\ BranchesCounted /\ ProductsCounted
  <2>1. IdleAdmin(a) /\ Resume(a, "insert", b, {}) /\ UNCHANGED <<branch, product, seeded, passedOver>>
    BY <1>1 DEF CreateBranch
  <2>2. Cardinality(Active(branch)) < MaxBranches
    <3>1. IsFiniteSet(Existing(branch)) /\ Active(branch) \subseteq Existing(branch)
      BY FS_Subset DEF CatalogueTypeOK, Existing, Active
    <3>2. Cardinality(Active(branch)) <= Cardinality(Existing(branch))
          /\ Cardinality(Active(branch)) \in Nat /\ Cardinality(Existing(branch)) \in Nat
      BY <3>1, FS_Subset, FS_CardinalityType
    <3> QED
      BY <3>2, <1>1 DEF CreateBranch
  <2> QED
    BY <2>1, <2>2, RequestBegins
<1>2. ASSUME NEW a \in Admins, NEW b \in Branches, InsertBranch(a, b)
      PROVE  CatalogueKept /\ BranchesCounted /\ ProductsCounted
  <2>1. /\ task' \in [Admins -> TaskRec]
        /\ task'[a].step = "read" /\ task'[a].on = b /\ task'[a].list = {}
        /\ \A c \in Admins : c # a => task'[c] = task[c]
    <3>1. Resume(a, "read", b, {})
      BY <1>2 DEF InsertBranch
    <3>2. {} \in SUBSET (Branches \X Products) /\ "read" \in Steps
      BY DEF CatalogueTypeOK, Existing, Active, Steps
    <3> QED
      BY <3>1, <3>2, OneTaskMoves
  <2>2. CatalogueTypeOK'
    BY <1>2, <2>1 DEF InsertBranch, CatalogueTypeOK, TaskRec, Presence
  <2>3. TasksAreOwn' /\ EveryPairIsCovered'
    <3>1. TasksAreOwn'
      BY <1>2, <2>1 DEF InsertBranch, TasksAreOwn, At, CatalogueTypeOK, Existing, Active
    <3>2. EveryPairIsCovered'
      <4> SUFFICES ASSUME NEW b1 \in Existing(branch)', NEW p1 \in Existing(product)',
                          <<b1, p1>> \notin (seeded \cup passedOver)'
                   PROVE  \E c \in Admins : Covers(c, b1, p1)'
        BY ZenonT(60) DEF EveryPairIsCovered
      <4>1. CASE b1 = b
        BY <4>1, <2>1 DEF Covers, At
      <4>2. CASE b1 # b
        <5>1. b1 \in Existing(branch) /\ p1 \in Existing(product) /\ <<b1, p1>> \notin seeded \cup passedOver
          BY <4>2, <1>2 DEF InsertBranch, Existing, CatalogueTypeOK
        <5>2. PICK c \in Admins : Covers(c, b1, p1)
          BY <5>1 DEF EveryPairIsCovered
        <5> QED
          BY <5>2, <1>2, <2>1 DEF Covers, At, InsertBranch
      <4> QED
        BY <4>1, <4>2
    <3> QED
      BY <3>1, <3>2
  <2>4. BranchesCounted
    <3>1. a \in BranchesToCome /\ BranchesToCome' \subseteq BranchesToCome \ {a}
      BY <1>2, <2>1 DEF InsertBranch, At, BranchesToCome, Steps
    <3>2. Active(branch)' \subseteq Active(branch) \cup {b}
      BY <1>2 DEF InsertBranch, Active, CatalogueTypeOK
    <3> QED
      BY <3>1, <3>2 DEF InsertBranch, At, BranchesCounted, Counted
  <2>5. ProductsCounted
    BY <1>2, <2>1 DEF InsertBranch, At, ProductsCounted, Counted, Active, ProductsToCome, CatalogueTypeOK
  <2> QED
    BY <2>1, <2>2, <2>3, <2>4, <2>5 DEF CatalogueKept
<1>3. ASSUME NEW a \in Admins, NEW b \in Branches, ReadProducts(a, b)
      PROVE  CatalogueKept /\ BranchesCounted /\ ProductsCounted
  <2>1. /\ task' \in [Admins -> TaskRec]
        /\ task'[a].step = "seed" /\ task'[a].on = b /\ task'[a].list = {b} \X Existing(product)
        /\ \A c \in Admins : c # a => task'[c] = task[c]
    <3>1. Resume(a, "seed", b, {b} \X Existing(product))
      BY <1>3 DEF ReadProducts
    <3>2. {b} \X Existing(product) \in SUBSET (Branches \X Products) /\ "seed" \in Steps
      BY DEF CatalogueTypeOK, Existing, Active, Steps
    <3> QED
      BY <3>1, <3>2, OneTaskMoves
  <2>2. CatalogueTypeOK'
    BY <1>3, <2>1 DEF ReadProducts, CatalogueTypeOK, TaskRec, Presence
  <2>3. TasksAreOwn' /\ EveryPairIsCovered'
    <3>1. TasksAreOwn'
      BY <1>3, <2>1 DEF ReadProducts, TasksAreOwn, At, CatalogueTypeOK, Existing, Active
    <3>2. EveryPairIsCovered'
      <4> SUFFICES ASSUME NEW b1 \in Existing(branch)', NEW p1 \in Existing(product)',
                          <<b1, p1>> \notin (seeded \cup passedOver)'
                   PROVE  \E c \in Admins : Covers(c, b1, p1)'
        BY DEF EveryPairIsCovered
      <4>1. b1 \in Existing(branch) /\ p1 \in Existing(product) /\ <<b1, p1>> \notin seeded \cup passedOver
        BY <1>3 DEF ReadProducts, Existing
      <4>2. PICK c \in Admins : Covers(c, b1, p1)
        BY <4>1 DEF EveryPairIsCovered
      <4>3. CASE c = a /\ b1 = b
        BY <4>1, <4>3, <2>1 DEF Covers, At
      <4>4. CASE c = a /\ b1 # b
        BY <4>1, <4>2, <4>4, <1>3 DEF Covers, At, ReadProducts, CatalogueTypeOK, Existing
      <4>5. CASE c # a
        BY <4>2, <4>5, <2>1 DEF Covers, At
      <4> QED
        BY <4>3, <4>4, <4>5
    <3> QED
      BY <3>1, <3>2
  <2>4. BranchesCounted
    BY <1>3, <2>1 DEF ReadProducts, At, BranchesCounted, Counted, Active, BranchesToCome, CatalogueTypeOK
  <2>5. ProductsCounted
    BY <1>3, <2>1 DEF ReadProducts, At, ProductsCounted, Counted, Active, ProductsToCome, CatalogueTypeOK
  <2> QED
    BY <2>1, <2>2, <2>3, <2>4, <2>5 DEF CatalogueKept
<1>4. ASSUME NEW a \in Admins, NEW b \in Branches, Reopen(a, b)
      PROVE  CatalogueKept /\ BranchesCounted /\ ProductsCounted
  <2>1. IdleAdmin(a) /\ Resume(a, "open", b, {}) /\ UNCHANGED <<branch, product, seeded, passedOver>>
    BY <1>4 DEF Reopen
  <2> QED
    BY <1>4, <2>1, RequestBegins DEF Reopen
<1>5. ASSUME NEW a \in Admins, NEW b \in Branches, Close(a, b)
      PROVE  CatalogueKept /\ BranchesCounted /\ ProductsCounted
  <2>1. IdleAdmin(a) /\ Resume(a, "close", b, {}) /\ UNCHANGED <<branch, product, seeded, passedOver>>
    BY <1>5 DEF Close
  <2> QED
    BY <1>5, <2>1, RequestBegins DEF Close
<1>6. ASSUME NEW a \in Admins, NEW b \in Branches, SwitchBranch(a, b)
      PROVE  CatalogueKept /\ BranchesCounted /\ ProductsCounted
  <2>1. /\ task' \in [Admins -> TaskRec]
        /\ task'[a].step = "idle"
        /\ \A c \in Admins : c # a => task'[c] = task[c]
    BY <1>6, TaskEnds DEF SwitchBranch
  <2>2. CatalogueTypeOK'
    BY <1>6, <2>1 DEF SwitchBranch, CatalogueTypeOK, TaskRec, Presence
  <2>3. TasksAreOwn' /\ EveryPairIsCovered'
    <3>1. TasksAreOwn'
      BY <1>6, <2>1 DEF SwitchBranch, TasksAreOwn, At, CatalogueTypeOK, Existing, Active
    <3>2. EveryPairIsCovered'
      <4> SUFFICES ASSUME NEW b1 \in Existing(branch)', NEW p1 \in Existing(product)',
                          <<b1, p1>> \notin (seeded \cup passedOver)'
                   PROVE  \E c \in Admins : Covers(c, b1, p1)'
        BY DEF EveryPairIsCovered
      <4>1. b1 \in Existing(branch) /\ p1 \in Existing(product) /\ <<b1, p1>> \notin seeded \cup passedOver
        BY <1>6 DEF SwitchBranch, Existing, CatalogueTypeOK
      <4>2. PICK c \in Admins : Covers(c, b1, p1)
        BY <4>1 DEF EveryPairIsCovered
      <4> QED
        BY <4>1, <4>2, <1>6, <2>1 DEF Covers, At, SwitchBranch, Existing
    <3> QED
      BY <3>1, <3>2
  <2>4. BranchesCounted
    <3>1. CASE task[a].step = "open"
      <4>1. a \in BranchesToCome /\ BranchesToCome' \subseteq BranchesToCome \ {a}
        BY <3>1, <1>6, <2>1 DEF SwitchBranch, At, BranchesToCome
      <4>2. Active(branch)' \subseteq Active(branch) \cup {b}
        BY <1>6 DEF SwitchBranch, Active, CatalogueTypeOK
      <4> QED
        BY <4>1, <4>2 DEF SwitchBranch, At, BranchesCounted, Counted
    <3>2. CASE task[a].step # "open"
      BY <3>2, <1>6, <2>1 DEF SwitchBranch, At, BranchesCounted, Counted, Active, BranchesToCome, CatalogueTypeOK
    <3> QED
      BY <3>1, <3>2
  <2>5. ProductsCounted
    BY <1>6, <2>1 DEF SwitchBranch, At, ProductsCounted, Counted, Active, ProductsToCome, CatalogueTypeOK
  <2> QED
    BY <2>1, <2>2, <2>3, <2>4, <2>5 DEF CatalogueKept
<1>7. ASSUME NEW a \in Admins, NEW b \in Branches, RemoveBranch(a, b)
      PROVE  CatalogueKept /\ BranchesCounted /\ ProductsCounted
  <2>1. IdleAdmin(a) /\ Resume(a, "delete", b, {}) /\ UNCHANGED <<branch, product, seeded, passedOver>>
    BY <1>7 DEF RemoveBranch
  <2> QED
    BY <1>7, <2>1, RequestBegins DEF RemoveBranch
<1>8. ASSUME NEW a \in Admins, NEW b \in Branches, DeleteBranch(a, b)
      PROVE  CatalogueKept /\ BranchesCounted /\ ProductsCounted
  <2>1. /\ task' \in [Admins -> TaskRec]
        /\ task'[a].step = "idle"
        /\ \A c \in Admins : c # a => task'[c] = task[c]
    BY <1>8, TaskEnds DEF DeleteBranch
  <2>2. CatalogueTypeOK'
    BY <1>8, <2>1 DEF DeleteBranch, CatalogueTypeOK, TaskRec, Presence
  <2>3. TasksAreOwn' /\ EveryPairIsCovered'
    <3>1. TasksAreOwn'
      BY <1>8, <2>1 DEF DeleteBranch, TasksAreOwn, At, CatalogueTypeOK, Existing, Active
    <3>2. EveryPairIsCovered'
      <4> SUFFICES ASSUME NEW b1 \in Existing(branch)', NEW p1 \in Existing(product)',
                          <<b1, p1>> \notin (seeded \cup passedOver)'
                   PROVE  \E c \in Admins : Covers(c, b1, p1)'
        BY DEF EveryPairIsCovered
      <4>1. b1 \in Existing(branch) /\ p1 \in Existing(product) /\ <<b1, p1>> \notin seeded \cup passedOver
        BY <1>8 DEF DeleteBranch, Existing, CatalogueTypeOK
      <4>2. PICK c \in Admins : Covers(c, b1, p1)
        BY <4>1 DEF EveryPairIsCovered
      <4> QED
        BY <4>1, <4>2, <1>8, <2>1 DEF Covers, At, DeleteBranch, Existing
    <3> QED
      BY <3>1, <3>2
  <2>4. BranchesCounted
    BY <1>8, <2>1 DEF DeleteBranch, At, BranchesCounted, Counted, Active, BranchesToCome, CatalogueTypeOK
  <2>5. ProductsCounted
    BY <1>8, <2>1 DEF DeleteBranch, At, ProductsCounted, Counted, Active, ProductsToCome, CatalogueTypeOK
  <2> QED
    BY <2>1, <2>2, <2>3, <2>4, <2>5 DEF CatalogueKept
<1>9. ASSUME NEW a \in Admins, NEW p \in Products, CreateProduct(a, p)
      PROVE  CatalogueKept /\ BranchesCounted /\ ProductsCounted
  <2>1. IdleAdmin(a) /\ Resume(a, "insert", p, {}) /\ UNCHANGED <<branch, product, seeded, passedOver>>
    BY <1>9 DEF CreateProduct
  <2> QED
    BY <1>9, <2>1, RequestBegins DEF CreateProduct
<1>10. ASSUME NEW a \in Admins, NEW p \in Products, InsertProduct(a, p)
      PROVE  CatalogueKept /\ BranchesCounted /\ ProductsCounted
  <2>1. /\ task' \in [Admins -> TaskRec]
        /\ task'[a].step = "read" /\ task'[a].on = p /\ task'[a].list = {}
        /\ \A c \in Admins : c # a => task'[c] = task[c]
    <3>1. Resume(a, "read", p, {})
      BY <1>10 DEF InsertProduct
    <3>2. {} \in SUBSET (Branches \X Products) /\ "read" \in Steps
      BY DEF CatalogueTypeOK, Existing, Active, Steps
    <3> QED
      BY <3>1, <3>2, OneTaskMoves
  <2>2. CatalogueTypeOK'
    BY <1>10, <2>1 DEF InsertProduct, CatalogueTypeOK, TaskRec, Presence
  <2>3. TasksAreOwn' /\ EveryPairIsCovered'
    <3>1. TasksAreOwn'
      BY <1>10, <2>1 DEF InsertProduct, TasksAreOwn, At, CatalogueTypeOK, Existing, Active
    <3>2. EveryPairIsCovered'
      <4> SUFFICES ASSUME NEW b1 \in Existing(branch)', NEW p1 \in Existing(product)',
                          <<b1, p1>> \notin (seeded \cup passedOver)'
                   PROVE  \E c \in Admins : Covers(c, b1, p1)'
        BY ZenonT(60) DEF EveryPairIsCovered
      <4>1. CASE p1 = p
        BY <4>1, <2>1 DEF Covers, At
      <4>2. CASE p1 # p
        <5>1. b1 \in Existing(branch) /\ p1 \in Existing(product) /\ <<b1, p1>> \notin seeded \cup passedOver
          BY <4>2, <1>10 DEF InsertProduct, Existing, CatalogueTypeOK
        <5>2. PICK c \in Admins : Covers(c, b1, p1)
          BY <5>1 DEF EveryPairIsCovered
        <5> QED
          BY <5>2, <1>10, <2>1 DEF Covers, At, InsertProduct
      <4> QED
        BY <4>1, <4>2
    <3> QED
      BY <3>1, <3>2
  <2>4. BranchesCounted
    BY <1>10, <2>1 DEF InsertProduct, At, BranchesCounted, Counted, Active, BranchesToCome, CatalogueTypeOK
  <2>5. ProductsCounted
    <3>1. a \in ProductsToCome /\ ProductsToCome' \subseteq ProductsToCome \ {a}
      BY <1>10, <2>1 DEF InsertProduct, At, ProductsToCome, Steps
    <3>2. Active(product)' \subseteq Active(product) \cup {p}
      BY <1>10 DEF InsertProduct, Active, CatalogueTypeOK
    <3> QED
      BY <3>1, <3>2 DEF ProductsCounted, Counted
  <2> QED
    BY <2>1, <2>2, <2>3, <2>4, <2>5 DEF CatalogueKept
<1>11. ASSUME NEW a \in Admins, NEW p \in Products, ReadBranches(a, p)
      PROVE  CatalogueKept /\ BranchesCounted /\ ProductsCounted
  <2>1. /\ task' \in [Admins -> TaskRec]
        /\ task'[a].step = "seed" /\ task'[a].on = p /\ task'[a].list = Active(branch) \X {p}
        /\ \A c \in Admins : c # a => task'[c] = task[c]
    <3>1. Resume(a, "seed", p, Active(branch) \X {p})
      BY <1>11 DEF ReadBranches
    <3>2. Active(branch) \X {p} \in SUBSET (Branches \X Products) /\ "seed" \in Steps
      BY DEF CatalogueTypeOK, Existing, Active, Steps
    <3> QED
      BY <3>1, <3>2, OneTaskMoves
  <2>2. CatalogueTypeOK'
    <3>1. {<<b, p>> : b \in Existing(branch) \ Active(branch)} \subseteq Branches \X Products
      BY DEF Existing, CatalogueTypeOK
    <3> QED
      BY <1>11, <2>1, <3>1 DEF ReadBranches, CatalogueTypeOK, TaskRec
  <2>3. TasksAreOwn' /\ EveryPairIsCovered'
    <3>1. TasksAreOwn'
      BY <1>11, <2>1 DEF ReadBranches, TasksAreOwn, At, CatalogueTypeOK, Existing, Active
    <3>2. EveryPairIsCovered'
      <4> SUFFICES ASSUME NEW b1 \in Existing(branch)', NEW p1 \in Existing(product)',
                          <<b1, p1>> \notin (seeded \cup passedOver)'
                   PROVE  \E c \in Admins : Covers(c, b1, p1)'
        BY DEF EveryPairIsCovered
      <4>1. b1 \in Existing(branch) /\ p1 \in Existing(product) /\ <<b1, p1>> \notin seeded \cup passedOver
        BY <1>11 DEF ReadBranches, Existing
      <4>2. PICK c \in Admins : Covers(c, b1, p1)
        BY <4>1 DEF EveryPairIsCovered
      <4>3. CASE c = a /\ p1 = p
        <5>1. b1 \in Active(branch)
          BY <4>1, <4>3, <1>11 DEF ReadBranches, Existing, Active
        <5> QED
          BY <5>1, <4>3, <2>1 DEF Covers, At
      <4>4. CASE c = a /\ p1 # p
        BY <4>1, <4>2, <4>4, <1>11 DEF Covers, At, ReadBranches, CatalogueTypeOK, Existing
      <4>5. CASE c # a
        BY <4>2, <4>5, <2>1 DEF Covers, At
      <4> QED
        BY <4>3, <4>4, <4>5
    <3> QED
      BY <3>1, <3>2
  <2>4. BranchesCounted
    BY <1>11, <2>1 DEF ReadBranches, At, BranchesCounted, Counted, Active, BranchesToCome, CatalogueTypeOK
  <2>5. ProductsCounted
    BY <1>11, <2>1 DEF ReadBranches, At, ProductsCounted, Counted, Active, ProductsToCome, CatalogueTypeOK
  <2> QED
    BY <2>1, <2>2, <2>3, <2>4, <2>5 DEF CatalogueKept
<1>12. ASSUME NEW a \in Admins, NEW p \in Products, Archive(a, p)
      PROVE  CatalogueKept /\ BranchesCounted /\ ProductsCounted
  <2>1. UNCHANGED <<branch, seeded, passedOver, task>>
    BY <1>12 DEF Archive
  <2>2. CatalogueTypeOK'
    BY <1>12 DEF Archive, CatalogueTypeOK, Presence
  <2>3. TasksAreOwn' /\ EveryPairIsCovered'
    <3>1. TasksAreOwn'
      BY <1>12 DEF Archive, TasksAreOwn, At, CatalogueTypeOK
    <3>2. Existing(product)' = Existing(product) /\ Existing(branch)' = Existing(branch)
      BY <1>12 DEF Archive, Existing, CatalogueTypeOK
    <3> QED
      BY <3>1, <3>2, <2>1 DEF EveryPairIsCovered, Covers, At
  <2>4. BranchesCounted
    BY <1>12, <2>1 DEF Archive, At, BranchesCounted, Counted, Active, BranchesToCome, CatalogueTypeOK
  <2>5. ProductsCounted
    BY <1>12, <2>1 DEF Archive, At, ProductsCounted, Counted, Active, ProductsToCome, CatalogueTypeOK
  <2> QED
    BY <2>1, <2>2, <2>3, <2>4, <2>5 DEF CatalogueKept
<1>13. ASSUME NEW a \in Admins, NEW p \in Products, Unarchive(a, p)
      PROVE  CatalogueKept /\ BranchesCounted /\ ProductsCounted
  <2>1. IdleAdmin(a) /\ Resume(a, "open", p, {}) /\ UNCHANGED <<branch, product, seeded, passedOver>>
    BY <1>13 DEF Unarchive
  <2> QED
    BY <1>13, <2>1, RequestBegins DEF Unarchive
<1>14. ASSUME NEW a \in Admins, NEW p \in Products, SwitchProduct(a, p)
      PROVE  CatalogueKept /\ BranchesCounted /\ ProductsCounted
  <2>1. /\ task' \in [Admins -> TaskRec]
        /\ task'[a].step = "idle"
        /\ \A c \in Admins : c # a => task'[c] = task[c]
    BY <1>14, TaskEnds DEF SwitchProduct
  <2>2. CatalogueTypeOK'
    BY <1>14, <2>1 DEF SwitchProduct, CatalogueTypeOK, TaskRec, Presence
  <2>3. TasksAreOwn' /\ EveryPairIsCovered'
    <3>1. TasksAreOwn'
      BY <1>14, <2>1 DEF SwitchProduct, TasksAreOwn, At, CatalogueTypeOK, Existing, Active
    <3>2. EveryPairIsCovered'
      <4>1. Existing(product)' = Existing(product) /\ Existing(branch)' = Existing(branch)
        BY <1>14 DEF SwitchProduct, Existing, CatalogueTypeOK, TasksAreOwn
      <4>2. \A c \in Admins, b1 \in Branches, p1 \in Products : Covers(c, b1, p1) => Covers(c, b1, p1)'
        BY <1>14, <2>1 DEF SwitchProduct, Covers, At
      <4> QED
        BY ZenonT(60), <4>1, <4>2, <1>14 DEF SwitchProduct, EveryPairIsCovered, Existing, CatalogueTypeOK
    <3> QED
      BY <3>1, <3>2
  <2>4. BranchesCounted
    BY <1>14, <2>1 DEF SwitchProduct, At, BranchesCounted, Counted, Active, BranchesToCome, CatalogueTypeOK
  <2>5. ProductsCounted
    <3>1. a \in ProductsToCome /\ ProductsToCome' \subseteq ProductsToCome \ {a}
      BY <1>14, <2>1 DEF SwitchProduct, At, ProductsToCome, Steps
    <3>2. Active(product)' \subseteq Active(product) \cup {p}
      BY <1>14 DEF SwitchProduct, Active, CatalogueTypeOK
    <3> QED
      BY <3>1, <3>2 DEF ProductsCounted, Counted
  <2> QED
    BY <2>1, <2>2, <2>3, <2>4, <2>5 DEF CatalogueKept
<1>15. ASSUME NEW a \in Admins, Seed(a)
      PROVE  CatalogueKept /\ BranchesCounted /\ ProductsCounted
  <2>1. /\ task' \in [Admins -> TaskRec]
        /\ task'[a].step = "idle"
        /\ \A c \in Admins : c # a => task'[c] = task[c]
    BY <1>15, TaskEnds DEF Seed
  <2>2. CatalogueTypeOK'
    BY <1>15, <2>1 DEF Seed, CatalogueTypeOK, TaskRec, Presence
  <2>3. TasksAreOwn' /\ EveryPairIsCovered'
    <3>1. TasksAreOwn'
      BY <1>15, <2>1 DEF Seed, TasksAreOwn, At, CatalogueTypeOK, Existing, Active
    <3>2. EveryPairIsCovered'
      <4> SUFFICES ASSUME NEW b1 \in Existing(branch)', NEW p1 \in Existing(product)',
                          <<b1, p1>> \notin (seeded \cup passedOver)'
                   PROVE  \E c \in Admins : Covers(c, b1, p1)'
        BY ZenonT(60) DEF EveryPairIsCovered
      <4>1. b1 \in Existing(branch) /\ p1 \in Existing(product) /\ <<b1, p1>> \notin seeded \cup passedOver
        BY <1>15 DEF Seed, Existing
      <4>2. PICK c \in Admins : Covers(c, b1, p1)
        BY <4>1 DEF EveryPairIsCovered
      <4>3. CASE c = a
        <5>1. <<b1, p1>> \in task[a].list
          BY <4>2, <4>3, <1>15 DEF Seed, Covers, At
        <5>2. CASE \A bp \in task[a].list : branch[bp[1]] # "absent"
          BY <5>1, <5>2, <1>15 DEF Seed
        <5>3. CASE ~(\A bp \in task[a].list : branch[bp[1]] # "absent")
          BY <5>1, <5>3, <4>1, <1>15 DEF Seed, Existing
        <5> QED
          BY <5>2, <5>3
      <4>4. CASE c # a
        BY <4>2, <4>4, <2>1 DEF Covers, At
      <4> QED
        BY <4>3, <4>4
    <3> QED
      BY <3>1, <3>2
  <2>4. BranchesCounted
    BY <1>15, <2>1 DEF Seed, At, BranchesCounted, Counted, Active, BranchesToCome, CatalogueTypeOK
  <2>5. ProductsCounted
    BY <1>15, <2>1 DEF Seed, At, ProductsCounted, Counted, Active, ProductsToCome, CatalogueTypeOK
  <2> QED
    BY <2>1, <2>2, <2>3, <2>4, <2>5 DEF CatalogueKept
<1> QED
  BY <1>1, <1>2, <1>3, <1>4, <1>5, <1>6, <1>7, <1>8, <1>9, <1>10, <1>11, <1>12, <1>13, <1>14, <1>15 DEF CatalogueNext

-----------------------------------------------------------------------------
(* Theorems *)

\* At first every pair has its row and nobody is at work.
LEMMA CatalogueInitially == CatalogueInit => CatalogueInv
<1> SUFFICES ASSUME CatalogueInit PROVE CatalogueInv
  OBVIOUS
<1> USE DEF CatalogueInit
<1>1. CatalogueTypeOK
  BY DEF CatalogueTypeOK, Free, Steps, Presence
<1>2. TasksAreOwn
  BY DEF TasksAreOwn, Free, At
<1>3. EveryPairIsCovered
  BY DEF EveryPairIsCovered, Existing
<1>4. BranchesToCome = {} /\ ProductsToCome = {}
  BY DEF BranchesToCome, ProductsToCome, Free
<1> QED
  BY <1>1, <1>2, <1>3, <1>4 DEF CatalogueInv, Fits

\* Every step keeps the invariant.
LEMMA CatalogueStep == CatalogueInv /\ [CatalogueNext]_catalogueVars => CatalogueInv'
<1> SUFFICES ASSUME CatalogueInv, [CatalogueNext]_catalogueVars PROVE CatalogueInv'
  OBVIOUS
<1>1. CASE UNCHANGED catalogueVars
  BY <1>1 DEF catalogueVars, CatalogueInv, CatalogueTypeOK, TasksAreOwn, EveryPairIsCovered, Covers, At,
       Existing, Active, Fits, BranchesToCome, ProductsToCome
<1>2. CASE CatalogueNext
  <2>1. CatalogueKept /\ BranchesCounted /\ ProductsCounted
    BY <1>2, CatalogueMoves
  <2>2. Fits(Active(branch)', BranchesToCome', MaxBranches)
    <3>1. BranchesToCome \in SUBSET Admins /\ BranchesToCome' \in SUBSET Admins
      BY DEF BranchesToCome
    <3> QED
      BY <2>1, <3>1, RowsFinite, CountedFits DEF BranchesCounted, CatalogueInv
  <2>3. Fits(Active(product)', ProductsToCome', MaxProducts)
    <3>1. ProductsToCome \in SUBSET Admins /\ ProductsToCome' \in SUBSET Admins
      BY DEF ProductsToCome
    <3> QED
      BY <2>1, <3>1, RowsFinite, CountedFits DEF ProductsCounted, CatalogueInv
  <2> QED
    BY <2>1, <2>2, <2>3 DEF CatalogueKept, CatalogueInv, Fits
<1> QED
  BY <1>1, <1>2

\* The invariant holds for any number of branches, products and requests.
THEOREM CatalogueInvariance == CatalogueSpec => []CatalogueInv
  BY CatalogueInitially, CatalogueStep, PTL DEF CatalogueSpec

\* Every branch and every product that nobody is working at have met: there is
\* an inventory row, or the pair was passed over on purpose.
THEOREM EveryPairIsSeededHolds == CatalogueSpec => []EveryPairIsSeeded
<1>1. CatalogueInv => EveryPairIsSeeded
  <2> SUFFICES ASSUME CatalogueInv, NEW b \in Existing(branch), NEW p \in Existing(product),
                      \A a \in Admins : task[a].on \notin {b, p}
               PROVE  <<b, p>> \in seeded \cup passedOver
    BY DEF EveryPairIsSeeded
  <2>1. \A a \in Admins : ~Covers(a, b, p)
    BY DEF CatalogueInv, TasksAreOwn, Covers, At
  <2> QED
    BY <2>1 DEF CatalogueInv, EveryPairIsCovered
<1> QED
  BY <1>1, CatalogueInvariance, PTL

\* The limit of the plan is passed by fewer than the requests there are.
THEOREM NoGrowthPastTheLimitHolds == CatalogueSpec => NoGrowthPastTheLimit
<1> DEFINE Grows(f, max) == Cardinality(Active(f)') > Cardinality(Active(f))
                            => Cardinality(Active(f)') < max + Cardinality(Admins)
           Bounded == Grows(branch, MaxBranches) /\ Grows(product, MaxProducts)
<1>1. CatalogueInv /\ [CatalogueNext]_catalogueVars => [Bounded]_catalogueVars
  <2> SUFFICES ASSUME CatalogueInv, CatalogueNext PROVE Bounded
    OBVIOUS
  <2>1. BranchesCounted /\ ProductsCounted
    BY CatalogueMoves
  <2>2. Grows(branch, MaxBranches)
    <3>1. BranchesToCome \in SUBSET Admins /\ BranchesToCome' \in SUBSET Admins
      BY DEF BranchesToCome
    <3> QED
      BY <2>1, <3>1, RowsFinite, CountedFits DEF BranchesCounted, CatalogueInv
  <2>3. Grows(product, MaxProducts)
    <3>1. ProductsToCome \in SUBSET Admins /\ ProductsToCome' \in SUBSET Admins
      BY DEF ProductsToCome
    <3> QED
      BY <2>1, <3>1, RowsFinite, CountedFits DEF ProductsCounted, CatalogueInv
  <2> QED
    BY <2>2, <2>3
<1> QED
  BY <1>1, CatalogueInvariance, PTL DEF CatalogueSpec, NoGrowthPastTheLimit

-----------------------------------------------------------------------------
(* What the replicas remember *)

USE CacheAssumption

\* A wrong entry is no older than the change, give or take the time of one
\* request.
EntryFresh(e) == Valid(e) /\ e.value # truth => since <= e.age + 1

\* What a request read and has not kept yet was true when its period began.
ReadFresh(r) ==
  r.at # NoValue /\ ~r.drops =>
    r.value \in BOOLEAN /\ (r.value # truth => since <= IF r.late THEN 1 ELSE 0)

CacheInv ==
  /\ CacheTypeOK
  /\ \A i \in Replicas, k \in Keys : EntryFresh(cache[i][k])
  /\ \A q \in Readers : ReadFresh(reading[q])

Entry   == [value : BOOLEAN \cup {NoValue}, age : 0..TTL - 1]
Reading == [at : Replicas \cup {NoValue}, key : Keys, value : BOOLEAN \cup {NoValue},
            late : BOOLEAN, drops : BOOLEAN]

\* No entry is well formed and fresh.
LEMMA EmptyEntry == NoEntry \in Entry /\ EntryFresh(NoEntry) /\ EntryFresh(NoEntry)'
  BY DEF NoEntry, Entry, EntryFresh, Valid

\* A reader at rest is well formed and has read nothing.
LEMMA RestingReader == NotReading \in Reading /\ ReadFresh(NotReading) /\ ReadFresh(NotReading)'
  BY DEF NotReading, Reading, Keys, ReadFresh

\* At first nothing is remembered.
LEMMA CacheInitially == CacheInit => CacheInv
<1> SUFFICES ASSUME CacheInit PROVE CacheInv
  OBVIOUS
<1>1. CacheTypeOK
  BY EmptyEntry, RestingReader DEF CacheInit, CacheTypeOK, Entry, Reading
<1> QED
  BY <1>1, EmptyEntry, RestingReader DEF CacheInit, CacheInv

\* One entry is written.
LEMMA EntryWritten ==
  ASSUME CacheTypeOK, \A i \in Replicas, k \in Keys : EntryFresh(cache[i][k]),
         NEW i \in Replicas, NEW k \in Keys, NEW e \in Entry,
         cache' = [cache EXCEPT ![i][k] = e], EntryFresh(e)', UNCHANGED <<truth, since>>
  PROVE  /\ cache' \in [Replicas -> [Keys -> Entry]]
         /\ \A j \in Replicas, l \in Keys : EntryFresh(cache[j][l])'
<1>1. cache \in [Replicas -> [Keys -> Entry]]
  BY DEF CacheTypeOK, Entry
<1>2. cache' \in [Replicas -> [Keys -> Entry]]
  BY <1>1
<1>3. \A j \in Replicas, l \in Keys : cache'[j][l] = IF j = i /\ l = k THEN e ELSE cache[j][l]
  BY <1>1
<1> QED
  BY <1>2, <1>3 DEF EntryFresh, Valid


\* Every step keeps the invariant.
LEMMA CacheStep == CacheInv /\ [CacheNext]_cacheVars => CacheInv'
<1> SUFFICES ASSUME CacheInv, [CacheNext]_cacheVars PROVE CacheInv'
  OBVIOUS
<1> USE DEF CacheInv
<1>t. /\ truth \in BOOLEAN /\ since \in 0..TTL + 1
      /\ cache \in [Replicas -> [Keys -> Entry]] /\ reading \in [Readers -> Reading]
  BY DEF CacheTypeOK, Entry, Reading
<1>0. ASSUME UNCHANGED cacheVars PROVE CacheInv'
  BY <1>0 DEF cacheVars, CacheTypeOK, EntryFresh, ReadFresh, Valid
<1>1. ASSUME NEW q \in Readers, Keep(q) PROVE CacheInv'
  <2>0. PICK r \in Reading : r = reading[q]
    BY <1>t
  <2>1. r.at \in Replicas /\ r.at # NoValue /\ ~r.drops /\ r.value \in BOOLEAN /\ r.key \in Keys
    BY <2>0, <1>1 DEF Keep, IdleReader, ReadFresh, Reading
  <2>2. PICK e \in Entry : e = [value |-> r.value, age |-> 0]
    <3>1. \A v \in BOOLEAN \cup {NoValue} : [value |-> v, age |-> 0] \in Entry
      BY DEF Entry
    <3> QED
      BY <3>1, <2>1
  <2>3. /\ cache' = [cache EXCEPT ![r.at][r.key] = e] /\ UNCHANGED <<truth, since>>
        /\ reading' = [reading EXCEPT ![q] = NotReading]
    BY <1>1, <2>0, <2>2 DEF Keep, Answers
  <2>4. EntryFresh(e)'
    <3>1. r.value # truth => since <= 1
      BY <2>0, <2>1, <1>t DEF ReadFresh
    <3> QED
      BY <3>1, <2>2, <2>3 DEF EntryFresh
  <2>5. /\ cache' \in [Replicas -> [Keys -> Entry]]
        /\ \A j \in Replicas, l \in Keys : EntryFresh(cache[j][l])'
    BY <2>1, <2>2, <2>3, <2>4, EntryWritten
  <2>6. reading' \in [Readers -> Reading] /\ \A p \in Readers : ReadFresh(reading[p])'
    BY <2>3, <1>t, RestingReader DEF ReadFresh
  <2> QED
    BY <2>3, <2>5, <2>6, <1>t DEF CacheTypeOK, Entry, Reading
<1>2. ASSUME NEW q \in Readers, NEW i \in Replicas, NEW k \in Keys, Lookup(q, i, k) PROVE CacheInv'
  <2> DEFINE r == [NotReading EXCEPT !.at = i, !.key = k, !.value = truth]
  <2>1. r \in Reading /\ r.value = truth
    BY <1>t, RestingReader DEF Reading
  <2>2. UNCHANGED <<truth, since, cache>> /\ reading' = [reading EXCEPT ![q] = r]
    BY <1>2 DEF Lookup
  <2>3. ReadFresh(r)'
    BY <2>1, <2>2, <1>t DEF ReadFresh
  <2>4. reading' \in [Readers -> Reading] /\ \A p \in Readers : ReadFresh(reading[p])'
    BY <2>1, <2>2, <2>3, <1>t DEF ReadFresh
  <2> QED
    BY <2>2, <2>4, <1>t DEF CacheTypeOK, Entry, Reading, EntryFresh, Valid
<1>3. ASSUME NEW q \in Readers, NEW i \in Replicas, Change(q, i) PROVE CacheInv'
  <2> DEFINE r == [NotReading EXCEPT !.at = i, !.drops = TRUE]
  <2>1. r \in Reading /\ r.drops
    BY RestingReader DEF Reading
  <2>2. since' = 0 /\ truth' \in BOOLEAN /\ UNCHANGED cache /\ reading' = [reading EXCEPT ![q] = r]
    BY <1>3 DEF Change
  <2>3. reading' \in [Readers -> Reading] /\ \A p \in Readers : ReadFresh(reading[p])'
    BY <2>1, <2>2, <1>t DEF ReadFresh
  <2>4. \A j \in Replicas, l \in Keys : EntryFresh(cache[j][l])'
    <3> SUFFICES ASSUME NEW j \in Replicas, NEW l \in Keys PROVE 0 <= cache[j][l].age + 1
      BY <2>2 DEF EntryFresh
    <3>1. cache[j][l] \in Entry
      BY <1>t
    <3> QED
      BY <3>1 DEF Entry
  <2> QED
    BY <2>2, <2>3, <2>4, <1>t DEF CacheTypeOK, Entry, Reading
<1>4. ASSUME NEW q \in Readers, Invalidate(q) PROVE CacheInv'
  <2>1. /\ cache' = [cache EXCEPT ![reading[q].at] = [k \in Keys |-> NoEntry]]
        /\ reading' = [reading EXCEPT ![q] = NotReading] /\ UNCHANGED <<truth, since>>
    BY <1>4 DEF Invalidate, Answers
  <2>2. cache' \in [Replicas -> [Keys -> Entry]]
    BY <2>1, <1>t, EmptyEntry
  <2>3. \A j \in Replicas, l \in Keys : cache'[j][l] \in {NoEntry, cache[j][l]}
    BY <2>1, <1>t
  <2>4. \A j \in Replicas, l \in Keys : EntryFresh(cache[j][l])'
    BY <2>1, <2>3, EmptyEntry DEF EntryFresh, Valid
  <2>5. reading' \in [Readers -> Reading] /\ \A p \in Readers : ReadFresh(reading[p])'
    BY <2>1, <1>t, RestingReader DEF ReadFresh
  <2> QED
    BY <2>1, <2>2, <2>4, <2>5, <1>t DEF CacheTypeOK, Entry, Reading
<1>5. ASSUME NEW i \in Replicas, NEW k \in Keys, EvictOldest(i, k) PROVE CacheInv'
  <2>1. cache' = [cache EXCEPT ![i][k] = NoEntry] /\ UNCHANGED <<truth, since, reading>>
    BY <1>5 DEF EvictOldest
  <2>2. /\ cache' \in [Replicas -> [Keys -> Entry]]
        /\ \A j \in Replicas, l \in Keys : EntryFresh(cache[j][l])'
    BY <2>1, EmptyEntry, EntryWritten
  <2> QED
    BY <2>1, <2>2, <1>t DEF CacheTypeOK, Entry, Reading, ReadFresh
<1>6. ASSUME Tick PROVE CacheInv'
  <2>1. since' \in 0..TTL + 1 /\ since' <= since + 1 /\ UNCHANGED truth
    BY <1>6, <1>t DEF Tick
  <2>2. \A e \in Entry : Aged(e) \in Entry /\ (EntryFresh(e) => EntryFresh(Aged(e))')
    <3> TAKE e \in Entry
    <3>1. CASE Valid(e) /\ e.age + 1 < TTL
      BY <3>1, <2>1, <1>t DEF Aged, Entry, EntryFresh, Valid
    <3>2. CASE ~(Valid(e) /\ e.age + 1 < TTL)
      BY <3>2, EmptyEntry DEF Aged
    <3> QED
      BY <3>1, <3>2
  <2>3. cache' = [i \in Replicas |-> [k \in Keys |-> Aged(cache[i][k])]]
    BY <1>6 DEF Tick
  <2>4. /\ cache' \in [Replicas -> [Keys -> Entry]]
        /\ \A i \in Replicas, k \in Keys : EntryFresh(cache[i][k])'
    <3>1. \A i \in Replicas, k \in Keys : cache[i][k] \in Entry /\ cache'[i][k] = Aged(cache[i][k])
      BY <1>t, <2>3
    <3>2. cache' \in [Replicas -> [Keys -> Entry]]
      BY <3>1, <2>2, <2>3
    <3> QED
      BY <3>1, <3>2, <2>2 DEF EntryFresh, Valid
  <2>5. reading' \in [Readers -> Reading] /\ \A q \in Readers : ReadFresh(reading[q])'
    <3>1. ASSUME NEW r \in Reading, r.late = FALSE, ReadFresh(r)
          PROVE  [r EXCEPT !.late = TRUE] \in Reading /\ ReadFresh([r EXCEPT !.late = TRUE])'
      <4> DEFINE s == [r EXCEPT !.late = TRUE]
      <4>1. s \in Reading /\ s.at = r.at /\ s.drops = r.drops /\ s.value = r.value /\ s.late
        BY DEF Reading
      <4>2. r.at # NoValue /\ ~r.drops /\ r.value # truth => since' <= 1
        BY <3>1, <2>1, <1>t DEF ReadFresh
      <4> HIDE DEF s
      <4>3. ReadFresh(s)'
        BY <4>1, <4>2, <2>1, <3>1 DEF ReadFresh
      <4> QED
        BY <4>1, <4>3 DEF s
    <3>2. \A q \in Readers : reading[q] \in Reading /\ reading[q].late = FALSE
      BY <1>6, <1>t DEF Tick, Reading
    <3>3. \A q \in Readers : reading'[q] \in {NotReading, [reading[q] EXCEPT !.late = TRUE]}
      BY <1>6 DEF Tick
    <3>4. \A q \in Readers : reading'[q] \in Reading
      BY ZenonT(60), <3>1, <3>2, <3>3, RestingReader
    <3>5. reading' \in [Readers -> Reading]
      BY <3>4, <1>6 DEF Tick
    <3>6. ASSUME NEW q \in Readers PROVE ReadFresh(reading[q])'
      <4>1. PICK r \in Reading : r = reading[q] /\ r.late = FALSE /\ ReadFresh(r)
        BY <3>2
      <4>2. PICK s \in Reading : s = reading'[q] /\ s \in {NotReading, [r EXCEPT !.late = TRUE]}
        BY <3>3, <3>4, <4>1
      <4>3. ReadFresh(s)'
        BY <3>1, <4>1, <4>2, RestingReader
      <4> QED
        BY <4>2, <4>3 DEF ReadFresh
    <3> QED
      BY <3>5, <3>6
  <2> QED
    BY <2>1, <2>4, <2>5, <1>t DEF CacheTypeOK, Entry, Reading
<1> QED
  BY <1>0, <1>1, <1>2, <1>3, <1>4, <1>5, <1>6 DEF CacheNext

\* No replica serves a store from memory for longer than the cache keeps it
\* after its row changed, for any number of replicas and requests.
THEOREM StaleForTTLAtMostHolds == CacheSpec => []StaleForTTLAtMost
<1>1. CacheInv => StaleForTTLAtMost
  <2> SUFFICES ASSUME CacheInv, NEW i \in Replicas, NEW k \in Keys,
                      Valid(cache[i][k]) /\ cache[i][k].value # truth
               PROVE  since <= TTL
    BY DEF StaleForTTLAtMost
  <2>1. cache[i][k].age \in 0..TTL - 1 /\ since \in 0..TTL + 1
    BY DEF CacheInv, CacheTypeOK
  <2>2. since <= cache[i][k].age + 1
    BY DEF CacheInv, EntryFresh
  <2> QED
    BY <2>1, <2>2
<1>2. CacheSpec => []CacheInv
  BY CacheInitially, CacheStep, PTL DEF CacheSpec
<1> QED
  BY <1>1, <1>2, PTL

=============================================================================
