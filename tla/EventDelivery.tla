--------------------------- MODULE EventDelivery ---------------------------
(***************************************************************************)
(* The two durable queues around a payment: the inbox of provider events,  *)
(* and the outbox of mails and pushes that settling an order commits with  *)
(* its transaction.  Both are worked by consumers that claim a row with a  *)
(* lease, act, and mark the row: the webhook handler itself, and the ticks *)
(* of the cron of every replica, which may overlap.                        *)
(*                                                                         *)
(* A step is one statement or one effect; between two steps a consumer may *)
(* crash and a lease or a delay may run out.                               *)
(***************************************************************************)
EXTENDS Naturals

CONSTANTS
  Events,       \* provider events, each of which settles one order
  Consumers,    \* webhook handlers and ticks of the cron
  NoRow,        \* no row
  MaxAttempts   \* INBOX_MAX_ATTEMPTS and OUTBOX_MAX_ATTEMPTS

ASSUME DeliveryAssumption == MaxAttempts \in Nat \ {0} /\ NoRow \notin Events \X {"inbox", "outbox"}

VARIABLES
  queued,   \* provider_event_inbox and outbox_events
  applied,  \* rows whose effect happened at least once
  acked,    \* events for which the provider got a 2xx
  overrun,  \* rows on which a consumer outlived its lease
  job       \* what each consumer is doing

deliveryVars == <<queued, applied, acked, overrun, job>>

Rows    == Events \X {"inbox", "outbox"}
InRow(e)  == <<e, "inbox">>
OutRow(e) == <<e, "outbox">>
IsInbox(r) == r[2] = "inbox"

Status == {"absent", "PENDING", "UNRESOLVED", "DONE", "DEAD"}
RowRec == [status : Status, attempts : 0..MaxAttempts, leased : BOOLEAN, due : BOOLEAN]
JobRec == [step : {"idle", "claim", "act", "mark", "fail", "unresolved"},
           row : Rows \cup {NoRow}, attempts : 0..MaxAttempts, web : BOOLEAN]

Absent == [status |-> "absent", attempts |-> 0, leased |-> FALSE, due |-> FALSE]
Fresh  == [status |-> "PENDING", attempts |-> 0, leased |-> FALSE, due |-> TRUE]
Job(step, r, attempts, web) == [step |-> step, row |-> r, attempts |-> attempts, web |-> web]
NoJob  == Job("idle", NoRow, 0, FALSE)

DeliveryInit ==
  /\ queued = [r \in Rows |-> Absent]
  /\ applied = {} /\ acked = {} /\ overrun = {}
  /\ job = [c \in Consumers |-> NoJob]

Open(r)  == queued[r].status \in {"PENDING", "UNRESOLVED"}
Free(r)  == ~queued[r].leased
Holds(c, r) == job[c].row = r /\ job[c].step \notin {"idle", "claim"}
OneMore(n) == IF n < MaxAttempts THEN n + 1 ELSE n

\* A consumer is through with its row; the handler of a webhook answers 200.
Through(c) ==
  /\ job' = [job EXCEPT ![c] = NoJob]
  /\ acked' = IF job[c].web THEN acked \cup {job[c].row[1]} ELSE acked

-----------------------------------------------------------------------------
(* Consumers *)

\* handleWebhookEvent keeps the event before it acts; the provider may send it
\* again at any time.
WebhookAnswersFirst(c, e) ==
  /\ job[c].step = "idle"
  /\ acked' = acked \cup {e}
  /\ job' = [job EXCEPT ![c] = Job("claim", InRow(e), 0, e \notin acked)]
  /\ queued' \in {queued, [queued EXCEPT ![InRow(e)] = IF @.status = "absent" THEN Fresh ELSE @]}
  /\ UNCHANGED <<applied, overrun>>

Webhook(c, e) ==
  /\ job[c].step = "idle"
  /\ queued' = [queued EXCEPT ![InRow(e)] = IF @.status = "absent" THEN Fresh ELSE @]
  /\ job' = [job EXCEPT ![c] = Job("claim", InRow(e), 0, e \notin acked)]
  /\ UNCHANGED <<applied, acked, overrun>>

\* sweepInbox lists the rows that are due and takes them one by one.
SweepInbox(c, r) ==
  /\ job[c].step = "idle" /\ IsInbox(r)
  /\ Open(r) /\ queued[r].due
  /\ job' = [job EXCEPT ![c] = Job("claim", r, 0, FALSE)]
  /\ UNCHANGED <<queued, applied, acked, overrun>>

\* processInboxRow claims the row unless somebody holds its lease; whether it
\* is due was only asked by the sweep.
ClaimInboxAnyway(c) ==
  LET r == job[c].row IN
  /\ job[c].step = "claim"
  /\ queued' = [queued EXCEPT ![r].leased = TRUE, ![r].attempts = OneMore(@)]
  /\ job' = [job EXCEPT ![c].step = "act", ![c].attempts = OneMore(queued[r].attempts)]
  /\ UNCHANGED <<applied, acked, overrun>>

ClaimInbox(c) ==
  LET r == job[c].row IN
  /\ job[c].step = "claim"
  /\ IF Open(r) /\ Free(r)
     THEN /\ queued' = [queued EXCEPT ![r].leased = TRUE, ![r].attempts = OneMore(@)]
          /\ job' = [job EXCEPT ![c].step = "act", ![c].attempts = OneMore(queued[r].attempts)]
          /\ UNCHANGED acked
     ELSE Through(c) /\ UNCHANGED queued
  /\ UNCHANGED <<applied, overrun>>

\* deliverOutbox claims one row after another.  It counts the leases from the
\* time the pass started, so late in a long pass they have run out already.
ClaimNextEvent(c, r, latePass) ==
  /\ job[c].step = "idle" /\ ~IsInbox(r)
  /\ Open(r) /\ queued[r].due /\ Free(r)
  /\ queued' = [queued EXCEPT ![r].leased = ~latePass, ![r].attempts = OneMore(@)]
  /\ job' = [job EXCEPT ![c] = Job("act", r, OneMore(queued[r].attempts), FALSE)]
  /\ overrun' = IF latePass THEN overrun \cup {r} ELSE overrun
  /\ UNCHANGED <<applied, acked>>

\* dispatchEvent and deliver.  Settling an order commits its outbox row, which a
\* unique dedupeKey keeps single.
Act(c) ==
  LET r == job[c].row IN
  /\ job[c].step = "act"
  /\ applied' = applied \cup {r}
  /\ queued' = IF IsInbox(r) /\ queued[OutRow(r[1])].status = "absent"
            THEN [queued EXCEPT ![OutRow(r[1])] = Fresh] ELSE queued
  /\ job' = [job EXCEPT ![c].step = "mark"]
  /\ UNCHANGED <<acked, overrun>>

\* An effect fails, the store of an event cannot be told, or the effect was
\* applied and its answer is an error.
ActFails(c) ==
  /\ job[c].step \in {"act", "mark"}
  /\ job' = [job EXCEPT ![c].step = "fail"]
  /\ UNCHANGED <<queued, applied, acked, overrun>>

TenantUnresolved(c) ==
  /\ job[c].step = "act" /\ IsInbox(job[c].row)
  /\ job' = [job EXCEPT ![c].step = "unresolved"]
  /\ UNCHANGED <<queued, applied, acked, overrun>>

\* The row is marked after the effect, whoever holds its lease by now.
MarkWithoutEffect(c) ==
  /\ job[c].step \in {"act", "mark"}
  /\ queued' = [queued EXCEPT ![job[c].row].status = "DONE", ![job[c].row].leased = FALSE]
  /\ Through(c)
  /\ UNCHANGED <<applied, overrun>>

Mark(c) ==
  /\ job[c].step = "mark"
  /\ queued' = [queued EXCEPT ![job[c].row].status = "DONE", ![job[c].row].leased = FALSE]
  /\ Through(c)
  /\ UNCHANGED <<applied, overrun>>

NoteFailure(c) ==
  LET r == job[c].row IN
  /\ job[c].step \in {"fail", "unresolved"}
  /\ queued' = [queued EXCEPT ![r].status = IF job[c].attempts >= MaxAttempts THEN "DEAD"
                                      ELSE IF job[c].step = "unresolved" THEN "UNRESOLVED" ELSE "PENDING",
                        ![r].leased = FALSE, ![r].due = FALSE]
  /\ Through(c)
  /\ UNCHANGED <<applied, overrun>>

-----------------------------------------------------------------------------
(* Time and faults *)

CrashConsumer(c) ==
  /\ job[c].step # "idle"
  /\ job' = [job EXCEPT ![c] = NoJob]
  /\ UNCHANGED <<queued, applied, acked, overrun>>

\* Two minutes pass, and a consumer that is still at the row outlives its lease.
LeaseRunsOut(r) ==
  /\ queued[r].leased
  /\ queued' = [queued EXCEPT ![r].leased = FALSE]
  /\ overrun' = IF \E c \in Consumers : Holds(c, r) THEN overrun \cup {r} ELSE overrun
  /\ UNCHANGED <<applied, acked, job>>

Due(r) ==
  /\ Open(r) /\ ~queued[r].due
  /\ queued' = [queued EXCEPT ![r].due = TRUE]
  /\ UNCHANGED <<applied, acked, overrun, job>>

-----------------------------------------------------------------------------

Work(c) == ClaimInbox(c) \/ Act(c) \/ Mark(c) \/ NoteFailure(c)

DeliveryNext ==
  \/ \E c \in Consumers :
       \/ \E e \in Events : Webhook(c, e)
       \/ \E r \in Rows : SweepInbox(c, r) \/ (\E latePass \in BOOLEAN : ClaimNextEvent(c, r, latePass))
       \/ Work(c) \/ ActFails(c) \/ TenantUnresolved(c) \/ CrashConsumer(c)
  \/ \E r \in Rows : LeaseRunsOut(r) \/ Due(r)

DeliverySpec == DeliveryInit /\ [][DeliveryNext]_deliveryVars

\* A consumer gets hold of r.
ClaimOf(r) == \E c \in Consumers :
  \/ ClaimInbox(c) /\ job'[c].step = "act" /\ job[c].row = r
  \/ \E latePass \in BOOLEAN : ClaimNextEvent(c, r, latePass)

\* The cron ticks every minute; delays and leases run out; processes that crash
\* are started again and in the end stay up.
DeliveryFairness ==
  /\ \A c \in Consumers : WF_deliveryVars(Work(c))
  /\ \A r \in Rows :
       /\ WF_deliveryVars(LeaseRunsOut(r)) /\ WF_deliveryVars(Due(r))
       /\ SF_deliveryVars(\E c \in Consumers : SweepInbox(c, r))
       /\ SF_deliveryVars(ClaimOf(r))
  /\ <>[][~\E c \in Consumers : CrashConsumer(c)]_deliveryVars

DeliveryFairSpec == DeliverySpec /\ DeliveryFairness

-----------------------------------------------------------------------------
(* Properties *)

\* Once the provider got its 200 it does not send the event again, so it must be
\* in the inbox, whatever crashed (webhook.afterInbox is a failpoint of the tests).
AckedIsStored == \A e \in acked : queued[InRow(e)].status # "absent"

\* As long as nobody outlives its two minutes on a row, two consumers are never at
\* it at once, a webhook that comes again while the sweep has the event and a
\* restart after a crash included (comments of processInboxRow and claimNextEvent).
OneConsumerPerLease ==
  \A c, d \in Consumers : \A r \in Rows \ overrun : Holds(c, r) /\ Holds(d, r) => c = d

\* Where a row of either queue is for the promise of both.
Whereabouts == [r \in Rows |-> CASE queued[r].status = "absent" -> "out"
                               [] queued[r].status \in {"PENDING", "UNRESOLVED"} -> "kept"
                               [] queued[r].status = "DONE" -> "closed"
                               [] queued[r].status = "DEAD" -> "review"]

Durable == INSTANCE AtLeastOnce WITH Items <- Rows, done <- applied, where <- Whereabouts

\* Both queues deliver at least once: a row is only DONE after its effect, and a
\* crash between any two steps only delays it (comments of the outbox and the inbox).
DeliversAtLeastOnce == Durable!AtLeastOnceSpec
=============================================================================
