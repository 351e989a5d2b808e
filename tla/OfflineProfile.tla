--------------------------- MODULE OfflineProfile ---------------------------
(***************************************************************************)
(* The profile of a customer, edited without a connection.  The device     *)
(* keeps a copy of what the server said last and at most one change that   *)
(* the server has not confirmed.  Its tabs send that change, again and     *)
(* again, while the customer goes on editing and while other devices write *)
(* the same profile.  The server keeps a receipt of each change it applied *)
(* and writes only over values that the change expects to find.            *)
(*                                                                         *)
(* The browser may lack navigator.locks, so two tabs may send at once.     *)
(***************************************************************************)
EXTENDS Naturals

CONSTANTS
  Fields, Values,  \* of the profile
  Tabs,            \* tabs of the device
  MaxIds,          \* bound on the changeIds that the device makes up
  NoChange, NoForm, NoValues

Profiles == [Fields -> Values]
ChangeIds == 1..MaxIds

Partials(S) == UNION {[X -> S] : X \in SUBSET Fields}
PendRec  == [id : ChangeIds, changes : Partials(Values), expected : Partials(SUBSET Values), sent : BOOLEAN,
             status : {"pending", "error", "conflict", "needs-login"}, conflict : Profiles \cup {NoValues}]
FormRec  == [values : Profiles, touched : SUBSET Fields]

ASSUME ProfileAssumption ==
  /\ MaxIds \in Nat \ {0} /\ NoChange \notin PendRec
  /\ NoValues \notin Profiles /\ NoForm \notin FormRec

VARIABLES
  server,    \* the row of the customer
  receipts,  \* profile_sync_receipts
  snap,      \* profile_snapshots: what the server said last
  fetched,   \* an answer of getProfile on its way
  pend,      \* profile_changes: the change that is not confirmed
  form,      \* what the customer is typing
  tab,       \* what each tab sends and was answered
  late,      \* requests whose tab has given up, still under way
  lastId,
  owed,      \* history: saved fields that the server has not held since
  known       \* history: values that the device was told or has sent

profileVars == <<server, receipts, snap, fetched, pend, form, tab, late, lastId, owed, known>>

Change(i, changes, expected) ==
  [id |-> i, changes |-> changes, expected |-> expected, sent |-> FALSE, status |-> "pending", conflict |-> NoValues]

Idle        == [phase |-> "idle"]
Sent(m)     == [phase |-> "sent", request |-> m]
Answered(m, kind, values) == [phase |-> "answered", request |-> m, kind |-> kind, values |-> values]
Request(p)  == [id |-> p.id, changes |-> p.changes, expected |-> p.expected]

Changed(p)  == IF p = NoChange THEN {} ELSE DOMAIN p.changes
Over(changes, base) == [f \in Fields |-> IF f \in DOMAIN changes THEN changes[f] ELSE base[f]]
Pairs(values) == {<<f, values[f]>> : f \in DOMAIN values}

ProfileInit ==
  /\ \E v \in Values : server = [f \in Fields |-> v]
  /\ snap = server /\ known = Pairs(server)
  /\ receipts = {} /\ late = {} /\ owed = {} /\ lastId = 0
  /\ fetched = NoValues /\ pend = NoChange /\ form = NoForm
  /\ tab = [t \in Tabs |-> Idle]

-----------------------------------------------------------------------------
(* The customer *)

\* The form follows the copy and the change until something is typed in it;
\* then it stays as it is until it is saved.
Type(f, v) ==
  /\ LET shown == IF form # NoForm THEN form.values
                  ELSE IF pend = NoChange THEN snap ELSE Over(pend.changes, snap)
         touched == IF form = NoForm THEN {} ELSE form.touched IN
     /\ v # shown[f]
     /\ form' = [values |-> [shown EXCEPT ![f] = v], touched |-> touched \cup {f}]
  /\ UNCHANGED <<server, receipts, snap, fetched, pend, tab, late, lastId, owed, known>>

\* recordProfileEdit.  A field that the change has already keeps what it expects
\* and, once sent, what it sent; another one expects the value of the copy.
Accepted(f) ==
  IF f \in Changed(pend)
  THEN pend.expected[f] \cup (IF pend.sent THEN {pend.changes[f]} ELSE {})
  ELSE {snap[f]}
Edited == {f \in Fields : Accepted(f) # {form.values[f]}}

EditChanges  == [f \in Edited |-> form.values[f]]
EditExpected == [f \in Edited |-> Accepted(f)]

IdFor(i) == IF pend = NoChange \/ pend.sent THEN lastId + 1 ELSE i

Save ==
  /\ form # NoForm /\ (pend # NoChange => pend.status # "conflict")
  /\ form' = NoForm
  /\ IF Edited = {}
     THEN pend' = NoChange /\ owed' = {} /\ UNCHANGED lastId
     ELSE IF pend # NoChange /\ pend.changes = EditChanges /\ pend.expected = EditExpected /\ pend.status # "error"
     THEN UNCHANGED <<pend, owed, lastId>>
     ELSE LET i == IdFor(IF pend = NoChange THEN 1 ELSE pend.id) IN
          /\ i <= MaxIds /\ lastId' = IF i > lastId THEN i ELSE lastId
          /\ pend' = Change(i, EditChanges, EditExpected)
          /\ owed' = {f \in Edited : form.values[f] # server[f]}
  /\ UNCHANGED <<server, receipts, snap, fetched, tab, late, known>>

Discard ==
  /\ pend # NoChange /\ pend.status \in {"conflict", "error"}
  /\ pend' = NoChange /\ form' = NoForm /\ owed' = {}
  /\ UNCHANGED <<server, receipts, snap, fetched, tab, late, lastId, known>>

\* resolveProfileConflict: mine again, over what the server has; or the server's
\* where both differ, and the rest of mine.
Conflicting == {f \in Changed(pend) : pend.conflict[f] \notin pend.expected[f] \cup {pend.changes[f]}}

Resolve(choice) ==
  LET kept == {f \in Changed(pend) : /\ pend.changes[f] # pend.conflict[f]
                                     /\ choice = "server" => f \notin Conflicting} IN
  /\ pend # NoChange /\ pend.status = "conflict"
  /\ IF kept = {}
     THEN pend' = NoChange /\ UNCHANGED lastId
     ELSE /\ lastId < MaxIds /\ lastId' = lastId + 1
          /\ pend' = Change(lastId + 1, [f \in kept |-> pend.changes[f]],
               [f \in kept |-> IF f \in Conflicting THEN {pend.conflict[f]}
                               ELSE pend.expected[f] \cup {pend.conflict[f]}])
  /\ owed' = IF choice = "server" THEN owed \ Conflicting ELSE owed
  /\ form' = NoForm
  /\ UNCHANGED <<server, receipts, snap, fetched, tab, late, known>>

\* The customer asks to try again; or a new session begins.
Requeue ==
  /\ pend # NoChange /\ pend.status \in {"error", "needs-login"}
  /\ pend' = [pend EXCEPT !.status = "pending"]
  /\ UNCHANGED <<server, receipts, snap, fetched, form, tab, late, lastId, owed, known>>

-----------------------------------------------------------------------------
(* Tabs *)

\* The account page asks for the profile; its answer may arrive late.
Fetch ==
  /\ fetched = NoValues /\ fetched' = server
  /\ UNCHANGED <<server, receipts, snap, pend, form, tab, late, lastId, owed, known>>

SaveFetched ==
  /\ fetched # NoValues
  /\ snap' = fetched /\ known' = known \cup Pairs(fetched) /\ fetched' = NoValues
  /\ UNCHANGED <<server, receipts, pend, form, tab, late, lastId, owed>>

\* syncOnce marks the change as sent, in the same transaction that reads it.
SendChange(t) ==
  /\ tab[t] = Idle /\ pend # NoChange /\ pend.status \in {"pending", "needs-login"}
  /\ tab' = [tab EXCEPT ![t] = Sent(Request(pend))]
  /\ pend' = [pend EXCEPT !.sent = TRUE, !.status = "pending"]
  /\ known' = known \cup Pairs(pend.changes)
  /\ UNCHANGED <<server, receipts, snap, fetched, form, late, lastId, owed>>

IsPending(i) == pend # NoChange /\ pend.id = i
Patched(i, status) == IF IsPending(i) THEN [pend EXCEPT !.status = status] ELSE pend

\* The server confirmed: the change goes, unless it was edited meanwhile.
ConfirmWhatever(t) ==
  /\ tab[t].phase = "answered" /\ tab[t].kind = "ok"
  /\ snap' = tab[t].values /\ known' = known \cup Pairs(snap')
  /\ pend' = NoChange
  /\ tab' = [tab EXCEPT ![t] = Idle]
  /\ UNCHANGED <<server, receipts, fetched, form, late, lastId, owed>>

Confirm(t) ==
  /\ tab[t].phase = "answered" /\ tab[t].kind = "ok"
  /\ snap' = tab[t].values /\ known' = known \cup Pairs(snap')
  /\ pend' = IF IsPending(tab[t].request.id) THEN NoChange ELSE pend
  /\ tab' = [tab EXCEPT ![t] = Idle]
  /\ UNCHANGED <<server, receipts, fetched, form, late, lastId, owed>>

Conflict(t) ==
  /\ tab[t].phase = "answered" /\ tab[t].kind = "conflict"
  /\ snap' = tab[t].values /\ known' = known \cup Pairs(snap')
  /\ pend' = IF IsPending(tab[t].request.id)
             THEN [pend EXCEPT !.status = "conflict", !.conflict = tab[t].values] ELSE pend
  /\ tab' = [tab EXCEPT ![t] = Idle]
  /\ UNCHANGED <<server, receipts, fetched, form, late, lastId, owed>>

Failed(t) ==
  /\ tab[t].phase = "answered" /\ tab[t].kind \in {"error", "needs-login"}
  /\ pend' = Patched(tab[t].request.id, tab[t].kind)
  /\ tab' = [tab EXCEPT ![t] = Idle]
  /\ UNCHANGED <<server, receipts, snap, fetched, form, late, lastId, owed, known>>

\* No answer, an answer of 500, 429 or 408, or the tab is closed: the request
\* may have arrived, may arrive later, or never.
GiveUp(t) ==
  /\ tab[t].phase # "idle"
  /\ \E patched \in {pend, Patched(tab[t].request.id, "pending")} : pend' = patched
  /\ late' \in IF tab[t].phase = "sent" THEN {late, late \cup {tab[t].request}} ELSE {late}
  /\ tab' = [tab EXCEPT ![t] = Idle]
  /\ UNCHANGED <<server, receipts, snap, fetched, form, lastId, owed, known>>

-----------------------------------------------------------------------------
(* The server *)

\* syncOfflineProfile compares and writes by one statement, and keeps the receipt
\* in the same transaction.
Fits(m) == \A f \in DOMAIN m.changes : server[f] \in m.expected[f] \cup {m.changes[f]}
StillOwed(values) == {f \in owed : f \in Changed(pend) => values[f] # pend.changes[f]}

ApplyBlindly(m) ==
  /\ IF m.id \in receipts
     THEN UNCHANGED <<server, receipts>>
     ELSE server' = Over(m.changes, server) /\ receipts' = receipts \cup {m.id}
  /\ owed' = StillOwed(server')

Apply(m) ==
  /\ IF m.id \notin receipts /\ Fits(m)
     THEN server' = Over(m.changes, server) /\ receipts' = receipts \cup {m.id}
     ELSE UNCHANGED <<server, receipts>>
  /\ owed' = StillOwed(server')

SyncOfflineProfile(t) ==
  LET m == tab[t].request IN
  /\ tab[t].phase = "sent"
  /\ Apply(m)
  /\ tab' = [tab EXCEPT ![t] = Answered(m, IF m.id \in receipts' THEN "ok" ELSE "conflict", server')]
  /\ UNCHANGED <<snap, fetched, pend, form, late, lastId, known>>

SyncLate(m) ==
  /\ m \in late /\ Apply(m)
  /\ late' = late \ {m}
  /\ UNCHANGED <<snap, fetched, pend, form, tab, lastId, known>>

\* The favourite branch has closed, or the session is over.
RefuseChange(t, kind) ==
  /\ tab[t].phase = "sent"
  /\ tab' = [tab EXCEPT ![t] = Answered(tab[t].request, kind, NoValues)]
  /\ UNCHANGED <<server, receipts, snap, fetched, pend, form, late, lastId, owed, known>>

\* Another device of the customer, by update() or by its own changes.
OtherDevice(f, v) ==
  /\ server[f] # v
  /\ server' = [server EXCEPT ![f] = v]
  /\ owed' = StillOwed(server')
  /\ UNCHANGED <<receipts, snap, fetched, pend, form, tab, late, lastId, known>>

-----------------------------------------------------------------------------

Step(t) == SyncOfflineProfile(t) \/ Confirm(t) \/ Conflict(t) \/ Failed(t)

ByDevice ==
  \/ \E t \in Tabs : SyncOfflineProfile(t)
  \/ \E m \in late : SyncLate(m)

ProfileNext ==
  \/ \E f \in Fields, v \in Values : Type(f, v) \/ OtherDevice(f, v)
  \/ Save \/ Discard \/ Requeue \/ Fetch \/ SaveFetched
  \/ \E choice \in {"mine", "server"} : Resolve(choice)
  \/ \E t \in Tabs : \/ SendChange(t) \/ Step(t) \/ GiveUp(t)
                     \/ \E kind \in {"error", "needs-login"} : RefuseChange(t, kind)
  \/ \E m \in late : SyncLate(m)

ProfileSpec == ProfileInit /\ [][ProfileNext]_profileVars

-----------------------------------------------------------------------------
(* Properties *)

MessageRec == [id : ChangeIds, changes : Partials(Values), expected : Partials(SUBSET Values)]
TabRec == {Idle} \cup [phase : {"sent"}, request : MessageRec]
          \cup [phase : {"answered"}, request : MessageRec, kind : {"ok", "conflict", "error", "needs-login"},
                values : Profiles \cup {NoValues}]

\* Every record has the values its type allows.
ProfileTypeOK ==
  /\ server \in Profiles /\ snap \in Profiles /\ fetched \in Profiles \cup {NoValues}
  /\ receipts \subseteq ChangeIds /\ lastId \in 0..MaxIds
  /\ pend = NoChange \/ (pend \in PendRec /\ DOMAIN pend.changes = DOMAIN pend.expected)
  /\ form \in FormRec \cup {NoForm} /\ tab \in [Tabs -> TabRec] /\ late \subseteq MessageRec
  /\ owed \subseteq Fields /\ known \subseteq Fields \X Values

\* What the customer saved is pending until the server has held it or the customer
\* gave it up, however often it was edited while a request was under way and
\* whichever answers were lost (comment of removePendingProfileChange).
NoEditLost == owed \subseteq Changed(pend)

\* A change of this device never writes over a value that the device was neither
\* told nor has sent itself (users.service.ts: it never overwrites blindly).
OverwritesOnlyWhatItSaw ==
  [][ByDevice => \A f \in Fields : server'[f] # server[f] => <<f, server[f]>> \in known]_profileVars

\* ProfileTab.tsx:43 says that the server applies a change only to what did not
\* change on another device, or else asks: a save changes no field that the
\* customer did not type.
SavesOnlyWhatWasTyped ==
  [][Save => Changed(pend') \subseteq Changed(pend) \cup form.touched]_profileVars
=============================================================================
