------------------------ MODULE EventDeliveryProofs ------------------------
(***************************************************************************)
(* Theorems about the inbox and the outbox, for any number of events and   *)
(* consumers: an event that was answered is stored, a lease keeps one      *)
(* consumer at a row, and no row is closed before its effect happened.     *)
(***************************************************************************)
EXTENDS EventDelivery, TLAPS

USE DeliveryAssumption

-----------------------------------------------------------------------------
(* The invariant *)

QueueTypes ==
  /\ queued \in [Rows -> RowRec]
  /\ applied \subseteq Rows /\ acked \subseteq Events /\ overrun \subseteq Rows

JobTypes ==
  /\ job \in [Consumers -> JobRec]
  /\ \A c \in Consumers : job[c].step # "idle" => job[c].row \in Rows

\* A consumer that is at a row has it stored, acts before it marks, and claims
\* by name only events of the inbox, which are all that a webhook waits for.
AtWork(c) ==
  job[c].step # "idle" =>
    /\ queued[job[c].row].status # "absent"
    /\ job[c].step = "mark" => job[c].row \in applied
    /\ job[c].web => IsInbox(job[c].row)

\* A row of which nobody outlived the lease is leased as long as a consumer is
\* at it: nobody else can claim it.
Leased == \A r \in Rows \ overrun : \A c \in Consumers : Holds(c, r) => queued[r].leased

DeliveryInv ==
  /\ QueueTypes /\ JobTypes
  /\ \A c \in Consumers : AtWork(c)
  /\ AckedIsStored
  /\ Leased /\ OneConsumerPerLease

-----------------------------------------------------------------------------
(* Types *)

\* The two rows of an event.
LEMMA RowsOf ==
  /\ \A e \in Events : /\ InRow(e) \in Rows /\ IsInbox(InRow(e))
                       /\ OutRow(e) \in Rows /\ ~IsInbox(OutRow(e))
  /\ \A r \in Rows : r[1] \in Events /\ r # NoRow /\ (IsInbox(r) => InRow(r[1]) = r)
  BY DEF Rows, InRow, OutRow, IsInbox

\* A counter of attempts stops at its limit.
LEMMA OneMoreType == \A n \in 0..MaxAttempts : OneMore(n) \in 0..MaxAttempts
  BY DEF OneMore

\* A new row and a new job are well formed.
LEMMA RecTypes == Absent \in RowRec /\ Fresh \in RowRec /\ NoJob \in JobRec
  BY DEF Absent, Fresh, NoJob, Job, RowRec, JobRec, Status

\* A job of any step, row, attempt and origin is well formed.
LEMMA NewJob ==
  ASSUME NEW step \in {"claim", "act"}, NEW r \in Rows, NEW n \in 0..MaxAttempts, NEW web \in BOOLEAN
  PROVE  Job(step, r, n, web) \in JobRec
  BY DEF Job, JobRec

\* A row that is claimed is a row, a job that is advanced a job.
LEMMA ClaimedRow ==
  ASSUME NEW row \in RowRec, NEW lease \in BOOLEAN, NEW n \in 0..MaxAttempts
  PROVE  LET new == [row EXCEPT !.leased = lease, !.attempts = n]
         IN  new \in RowRec /\ new.leased = lease /\ new.status = row.status
  BY DEF RowRec

LEMMA ActingJob ==
  ASSUME NEW j \in JobRec, NEW n \in 0..MaxAttempts
  PROVE  LET new == [j EXCEPT !.step = "act", !.attempts = n]
         IN  new \in JobRec /\ new.step = "act" /\ new.row = j.row
  BY DEF JobRec

\* One row, or one job, changes and the others stay.
LEMMA OneRowChanges ==
  ASSUME NEW f \in [Rows -> RowRec], NEW r \in Rows, NEW row \in RowRec
  PROVE  LET new == [f EXCEPT ![r] = row]
         IN  new \in [Rows -> RowRec] /\ new[r] = row /\ \A s \in Rows \ {r} : new[s] = f[s]
  OBVIOUS

LEMMA OneJobChanges ==
  ASSUME NEW f \in [Consumers -> JobRec], NEW c \in Consumers, NEW j \in JobRec
  PROVE  LET new == [f EXCEPT ![c] = j]
         IN  new \in [Consumers -> JobRec] /\ new[c] = j /\ \A d \in Consumers \ {c} : new[d] = f[d]
  OBVIOUS

\* A claim writes the lease and the attempts of one row.
LEMMA ClaimsRow ==
  ASSUME QueueTypes, NEW r \in Rows, NEW lease \in BOOLEAN,
         queued' = [queued EXCEPT ![r].leased = lease, ![r].attempts = OneMore(@)]
  PROVE  /\ queued' \in [Rows -> RowRec]
         /\ queued'[r].leased = lease /\ queued'[r].status = queued[r].status
         /\ \A s \in Rows \ {r} : queued'[s] = queued[s]
  <1>1. OneMore(queued[r].attempts) \in 0..MaxAttempts
    BY OneMoreType DEF QueueTypes, RowRec
  <1>2. queued \in [Rows -> RowRec] /\ queued[r] \in RowRec
    BY DEF QueueTypes
  <1>3. PICK row \in RowRec : /\ row.leased = lease /\ row.status = queued[r].status
                              /\ row.due = queued[r].due /\ row.attempts = OneMore(queued[r].attempts)
    <2> DEFINE new == [status |-> queued[r].status, attempts |-> OneMore(queued[r].attempts),
                       leased |-> lease, due |-> queued[r].due]
    <2>1. new \in RowRec
      BY <1>1, <1>2 DEF RowRec
    <2> QED
      BY <2>1
  <1>4. queued' = [queued EXCEPT ![r] = row]
    BY ZenonT(60), <1>2, <1>3 DEF RowRec
  <1>5. queued' \in [Rows -> RowRec]
    BY <1>2, <1>4, Zenon
  <1>6. queued'[r] = row
    BY <1>2, <1>4, Zenon
  <1>7. ASSUME NEW s \in Rows \ {r} PROVE queued'[s] = queued[s]
    BY <1>2, <1>4, Zenon
  <1> QED
    BY <1>3, <1>5, <1>6, <1>7, Zenon

\* Every action keeps the types of the queues and of the consumers.
LEMMA QueueStep ==
  ASSUME QueueTypes, JobTypes, DeliveryNext
  PROVE  QueueTypes'
  <1>1. ASSUME NEW c \in Consumers, NEW e \in Events, Webhook(c, e)
       PROVE  QueueTypes'
    BY RowsOf, RecTypes, <1>1 DEF Webhook, QueueTypes
  <1>2. ASSUME NEW c \in Consumers, NEW r \in Rows, SweepInbox(c, r)
       PROVE  QueueTypes'
    BY <1>2 DEF SweepInbox, QueueTypes, RowRec
  <1>3. ASSUME NEW c \in Consumers, NEW r \in Rows, NEW latePass \in BOOLEAN, ClaimNextEvent(c, r, latePass)
       PROVE  QueueTypes'
    <2>1. PICK lease \in BOOLEAN : lease = ~latePass
      OBVIOUS
    <2>2. queued' \in [Rows -> RowRec]
      BY <2>1, <1>3, ClaimsRow DEF ClaimNextEvent
    <2> QED
      BY <2>2, <1>3 DEF ClaimNextEvent, QueueTypes
  <1>4. ASSUME NEW c \in Consumers, ClaimInbox(c)
       PROVE  QueueTypes'
    <2>1. job[c].row \in Rows
      BY <1>4 DEF ClaimInbox, JobTypes
    <2>3. queued' \in [Rows -> RowRec]
      BY <2>1, ClaimsRow, <1>4 DEF ClaimInbox, QueueTypes
    <2>4. acked' \subseteq Events
      BY <2>1, RowsOf, <1>4 DEF ClaimInbox, Through, QueueTypes
    <2> QED
      BY <2>3, <2>4, <1>4 DEF ClaimInbox, QueueTypes
  <1>5. ASSUME NEW c \in Consumers, Act(c)
       PROVE  QueueTypes'
    <2>1. job[c].row \in Rows
      BY <1>5 DEF Act, JobTypes
    <2> QED
      BY <2>1, RowsOf, RecTypes, <1>5 DEF Act, QueueTypes
  <1>6. ASSUME NEW c \in Consumers, Mark(c)
       PROVE  QueueTypes'
    <2>1. job[c].row \in Rows
      BY <1>6 DEF Mark, JobTypes
    <2>2. queued' \in [Rows -> RowRec]
      BY <2>1, <1>6 DEF Mark, QueueTypes, RowRec, Status
    <2>3. acked' \subseteq Events
      BY <2>1, RowsOf, <1>6 DEF Mark, Through, QueueTypes
    <2> QED
      BY <2>2, <2>3, <1>6 DEF Mark, QueueTypes
  <1>7. ASSUME NEW c \in Consumers, NoteFailure(c)
       PROVE  QueueTypes'
    <2>1. job[c].row \in Rows
      BY SMTT(30), <1>7 DEF NoteFailure, JobTypes
    <2>2. queued' \in [Rows -> RowRec]
      BY SMTT(60), <2>1, <1>7 DEF NoteFailure, QueueTypes, RowRec, Status
    <2>3. acked' \subseteq Events
      BY <2>1, RowsOf, <1>7 DEF NoteFailure, Through, QueueTypes
    <2> QED
      BY <2>2, <2>3, <1>7 DEF NoteFailure, QueueTypes
  <1>8. ASSUME NEW c \in Consumers, ActFails(c)
       PROVE  QueueTypes'
    BY <1>8 DEF ActFails, QueueTypes, RowRec
  <1>9. ASSUME NEW c \in Consumers, TenantUnresolved(c)
       PROVE  QueueTypes'
    BY <1>9 DEF TenantUnresolved, QueueTypes, RowRec
  <1>10. ASSUME NEW c \in Consumers, CrashConsumer(c)
       PROVE  QueueTypes'
    BY <1>10 DEF CrashConsumer, QueueTypes, RowRec
  <1>11. ASSUME NEW r \in Rows, LeaseRunsOut(r)
       PROVE  QueueTypes'
    BY ZenonT(60), <1>11 DEF LeaseRunsOut, QueueTypes, RowRec
  <1>12. ASSUME NEW r \in Rows, Due(r)
       PROVE  QueueTypes'
    BY ZenonT(60), <1>12 DEF Due, QueueTypes, RowRec
  <1> QED
    BY <1>1, <1>2, <1>3, <1>4, <1>5, <1>6, <1>7, <1>8, <1>9, <1>10, <1>11, <1>12 DEF DeliveryNext, Work

\* Every step leaves the jobs of the consumers well formed.
LEMMA JobStep ==
  ASSUME QueueTypes, JobTypes, DeliveryNext
  PROVE  JobTypes'
  <1>1. ASSUME NEW c \in Consumers, NEW e \in Events, Webhook(c, e)
       PROVE  JobTypes'
    <2>1. InRow(e) \in Rows /\ 0 \in 0..MaxAttempts
      BY RowsOf
    <2>2. PICK web \in BOOLEAN : web = (e \notin acked)
      OBVIOUS
    <2>3. Job("claim", InRow(e), 0, web) \in JobRec
      BY <2>1, NewJob
    <2>4. job' = [job EXCEPT ![c] = Job("claim", InRow(e), 0, web)]
      BY <2>2, <1>1 DEF Webhook
    <2>5. job' \in [Consumers -> JobRec]
      BY <2>3, <2>4 DEF JobTypes
    <2> QED
      BY <2>1, <2>4, <2>5 DEF JobTypes, Job
  <1>2. ASSUME NEW c \in Consumers, NEW r \in Rows, SweepInbox(c, r)
       PROVE  JobTypes'
    <2>1. r \in Rows /\ 0 \in 0..MaxAttempts
      BY RowsOf
    <2>2. PICK web \in BOOLEAN : web = (FALSE)
      OBVIOUS
    <2>3. Job("claim", r, 0, web) \in JobRec
      BY <2>1, NewJob
    <2>4. job' = [job EXCEPT ![c] = Job("claim", r, 0, web)]
      BY <2>2, <1>2 DEF SweepInbox
    <2>5. job' \in [Consumers -> JobRec]
      BY <2>3, <2>4 DEF JobTypes
    <2> QED
      BY <2>1, <2>4, <2>5 DEF JobTypes, Job
  <1>3. ASSUME NEW c \in Consumers, NEW r \in Rows, NEW latePass \in BOOLEAN, ClaimNextEvent(c, r, latePass)
       PROVE  JobTypes'
    <2>1. OneMore(queued[r].attempts) \in 0..MaxAttempts
      BY OneMoreType DEF QueueTypes, RowRec
    <2> QED
      BY <2>1, <1>3 DEF ClaimNextEvent, JobTypes, JobRec, NoJob, Job
  <1>4. ASSUME NEW c \in Consumers, ClaimInbox(c)
       PROVE  JobTypes'
    <2>1. PICK r \in Rows : r = job[c].row
      BY <1>4 DEF ClaimInbox, JobTypes
    <2>2. PICK n \in 0..MaxAttempts : n = OneMore(queued[r].attempts)
      BY <2>1, OneMoreType DEF QueueTypes, RowRec
    <2>3. CASE Through(c)
      BY <2>3, RecTypes DEF Through, JobTypes, NoJob, Job
    <2>4. CASE job' = [job EXCEPT ![c].step = "act", ![c].attempts = n]
      <3>0. job \in [Consumers -> JobRec] /\ job[c] \in JobRec
        BY DEF JobTypes
      <3>1. PICK j \in JobRec : j = [job[c] EXCEPT !.step = "act", !.attempts = n] /\ j.row = r
        BY ZenonT(60), <2>1, <3>0, ActingJob
      <3>2. job' = [job EXCEPT ![c] = j]
        BY <2>4, <3>0, <3>1
      <3>3. job' \in [Consumers -> JobRec] /\ job'[c] = j /\ \A d \in Consumers \ {c} : job'[d] = job[d]
        BY <3>0, <3>2, OneJobChanges
      <3> QED
        BY <3>1, <3>3 DEF JobTypes
    <2> QED
      BY <2>1, <2>2, <2>3, <2>4, <1>4 DEF ClaimInbox
  <1>5. ASSUME NEW c \in Consumers, Act(c)
       PROVE  JobTypes'
    BY RowsOf, <1>5 DEF Act, JobTypes, JobRec, NoJob, Job, Through
  <1>6. ASSUME NEW c \in Consumers, Mark(c)
       PROVE  JobTypes'
    BY RowsOf, <1>6 DEF Mark, JobTypes, JobRec, NoJob, Job, Through
  <1>7. ASSUME NEW c \in Consumers, NoteFailure(c)
       PROVE  JobTypes'
    BY RowsOf, <1>7 DEF NoteFailure, JobTypes, JobRec, NoJob, Job, Through
  <1>8. ASSUME NEW c \in Consumers, ActFails(c)
       PROVE  JobTypes'
    BY RowsOf, <1>8 DEF ActFails, JobTypes, JobRec, NoJob, Job, Through
  <1>9. ASSUME NEW c \in Consumers, TenantUnresolved(c)
       PROVE  JobTypes'
    BY RowsOf, <1>9 DEF TenantUnresolved, JobTypes, JobRec, NoJob, Job, Through
  <1>10. ASSUME NEW c \in Consumers, CrashConsumer(c)
       PROVE  JobTypes'
    BY RowsOf, <1>10 DEF CrashConsumer, JobTypes, JobRec, NoJob, Job, Through
  <1>11. ASSUME NEW r \in Rows, LeaseRunsOut(r)
       PROVE  JobTypes'
    BY <1>11 DEF LeaseRunsOut, JobTypes
  <1>12. ASSUME NEW r \in Rows, Due(r)
       PROVE  JobTypes'
    BY <1>12 DEF Due, JobTypes
  <1> QED
    BY <1>1, <1>2, <1>3, <1>4, <1>5, <1>6, <1>7, <1>8, <1>9, <1>10, <1>11, <1>12 DEF DeliveryNext, Work

-----------------------------------------------------------------------------
(* What stays, and who moves *)

\* A row that is stored stays so, an effect has happened for good, and so has
\* an answer and a lease that was outlived.
LEMMA StoredStays ==
  ASSUME QueueTypes, JobTypes, DeliveryNext
  PROVE  /\ \A r \in Rows : queued[r].status # "absent" => queued'[r].status # "absent"
         /\ applied \subseteq applied' /\ acked \subseteq acked' /\ overrun \subseteq overrun'
  <1> DEFINE Stays == /\ \A r \in Rows : queued[r].status # "absent" => queued'[r].status # "absent"
                      /\ applied \subseteq applied' /\ acked \subseteq acked' /\ overrun \subseteq overrun'
  <1>1. ASSUME NEW c \in Consumers, NEW e \in Events, Webhook(c, e)
       PROVE  Stays
    BY <1>1 DEF Webhook, QueueTypes, RowRec, JobTypes, Through, Fresh
  <1>2. ASSUME NEW c \in Consumers, NEW r \in Rows, SweepInbox(c, r)
       PROVE  Stays
    BY <1>2 DEF SweepInbox, QueueTypes, RowRec, JobTypes, Through
  <1>3. ASSUME NEW c \in Consumers, NEW r \in Rows, NEW latePass \in BOOLEAN, ClaimNextEvent(c, r, latePass)
       PROVE  Stays
    BY <1>3 DEF ClaimNextEvent, QueueTypes, RowRec, JobTypes, Through
  <1>4. ASSUME NEW c \in Consumers, ClaimInbox(c)
       PROVE  Stays
    BY <1>4 DEF ClaimInbox, QueueTypes, RowRec, JobTypes, Through
  <1>5. ASSUME NEW c \in Consumers, Act(c)
       PROVE  Stays
    BY <1>5 DEF Act, QueueTypes, RowRec, JobTypes, Through, Fresh
  <1>6. ASSUME NEW c \in Consumers, Mark(c)
       PROVE  Stays
    BY <1>6 DEF Mark, QueueTypes, RowRec, JobTypes, Through
  <1>7. ASSUME NEW c \in Consumers, NoteFailure(c)
       PROVE  Stays
    BY <1>7 DEF NoteFailure, QueueTypes, RowRec, JobTypes, Through
  <1>8. ASSUME NEW c \in Consumers, ActFails(c)
       PROVE  Stays
    BY <1>8 DEF ActFails, QueueTypes, RowRec, JobTypes, Through
  <1>9. ASSUME NEW c \in Consumers, TenantUnresolved(c)
       PROVE  Stays
    BY <1>9 DEF TenantUnresolved, QueueTypes, RowRec, JobTypes, Through
  <1>10. ASSUME NEW c \in Consumers, CrashConsumer(c)
       PROVE  Stays
    BY <1>10 DEF CrashConsumer, QueueTypes, RowRec, JobTypes, Through
  <1>11. ASSUME NEW r \in Rows, LeaseRunsOut(r)
       PROVE  Stays
    BY <1>11 DEF LeaseRunsOut, QueueTypes, RowRec, JobTypes, Through
  <1>12. ASSUME NEW r \in Rows, Due(r)
       PROVE  Stays
    BY <1>12 DEF Due, QueueTypes, RowRec, JobTypes, Through
  <1> QED
    BY <1>1, <1>2, <1>3, <1>4, <1>5, <1>6, <1>7, <1>8, <1>9, <1>10, <1>11, <1>12 DEF DeliveryNext, Work

-----------------------------------------------------------------------------
(* Consumers *)

\* Every action keeps what a consumer at a row relies on.
LEMMA AtWorkStep ==
  ASSUME QueueTypes, JobTypes, \A c \in Consumers : AtWork(c), DeliveryNext, NEW d \in Consumers
  PROVE  AtWork(d)'
  <1>1. ASSUME job'[d] = job[d]
        PROVE  AtWork(d)'
    BY <1>1, StoredStays DEF AtWork, JobTypes
  <1>2. ASSUME NEW c \in Consumers, NEW e \in Events, Webhook(c, e)
       PROVE  AtWork(d)'
    <2>1. CASE d # c
      BY <1>1, <2>1, <1>2 DEF Webhook, JobTypes
    <2>2. CASE d = c
      BY <2>2, RowsOf, StoredStays, <1>2 DEF Webhook, AtWork, JobTypes, JobRec, Job, QueueTypes, RowRec, Open, Fresh
    <2> QED
      BY <2>1, <2>2
  <1>3. ASSUME NEW c \in Consumers, NEW r \in Rows, SweepInbox(c, r)
       PROVE  AtWork(d)'
    <2>1. CASE d # c
      BY <1>1, <2>1, <1>3 DEF SweepInbox, JobTypes
    <2>2. CASE d = c
      BY <2>2, RowsOf, StoredStays, <1>3 DEF SweepInbox, AtWork, JobTypes, JobRec, Job, QueueTypes, RowRec, Open
    <2> QED
      BY <2>1, <2>2
  <1>4. ASSUME NEW c \in Consumers, NEW r \in Rows, NEW latePass \in BOOLEAN, ClaimNextEvent(c, r, latePass)
       PROVE  AtWork(d)'
    <2>1. CASE d # c
      BY <1>1, <2>1, <1>4 DEF ClaimNextEvent, JobTypes
    <2>2. CASE d = c
      BY <2>2, RowsOf, StoredStays, <1>4 DEF ClaimNextEvent, AtWork, JobTypes, JobRec, Job, QueueTypes, RowRec, Open
    <2> QED
      BY <2>1, <2>2
  <1>5. ASSUME NEW c \in Consumers, ClaimInbox(c)
       PROVE  AtWork(d)'
    <2>1. CASE d # c
      BY <1>1, <2>1, <1>5 DEF ClaimInbox, JobTypes, Through
    <2>2. CASE d = c
      BY <2>2, RowsOf, StoredStays, <1>5 DEF ClaimInbox, AtWork, JobTypes, JobRec, Through, NoJob, Job
    <2> QED
      BY <2>1, <2>2
  <1>6. ASSUME NEW c \in Consumers, Act(c)
       PROVE  AtWork(d)'
    <2>1. CASE d # c
      BY <1>1, <2>1, <1>6 DEF Act, JobTypes
    <2>2. CASE d = c
      BY <2>2, RowsOf, StoredStays, <1>6 DEF Act, AtWork, JobTypes, JobRec
    <2> QED
      BY <2>1, <2>2
  <1>7. ASSUME NEW c \in Consumers, Mark(c)
       PROVE  AtWork(d)'
    <2>1. CASE d # c
      BY <1>1, <2>1, <1>7 DEF Mark, JobTypes, Through
    <2>2. CASE d = c
      BY <2>2, RowsOf, StoredStays, <1>7 DEF Mark, AtWork, JobTypes, JobRec, Through, NoJob, Job
    <2> QED
      BY <2>1, <2>2
  <1>8. ASSUME NEW c \in Consumers, NoteFailure(c)
       PROVE  AtWork(d)'
    <2>1. CASE d # c
      BY SMTT(30), <1>1, <2>1, <1>8 DEF NoteFailure, JobTypes, Through
    <2>2. CASE d = c
      BY <2>2, RowsOf, StoredStays, <1>8 DEF NoteFailure, AtWork, JobTypes, JobRec, Through, NoJob, Job
    <2> QED
      BY <2>1, <2>2
  <1>9. ASSUME NEW c \in Consumers, ActFails(c)
       PROVE  AtWork(d)'
    <2>1. CASE d # c
      BY <1>1, <2>1, <1>9 DEF ActFails, JobTypes
    <2>2. CASE d = c
      BY <2>2, RowsOf, StoredStays, <1>9 DEF ActFails, AtWork, JobTypes, JobRec
    <2> QED
      BY <2>1, <2>2
  <1>10. ASSUME NEW c \in Consumers, TenantUnresolved(c)
       PROVE  AtWork(d)'
    <2>1. CASE d # c
      BY <1>1, <2>1, <1>10 DEF TenantUnresolved, JobTypes
    <2>2. CASE d = c
      BY <2>2, RowsOf, StoredStays, <1>10 DEF TenantUnresolved, AtWork, JobTypes, JobRec
    <2> QED
      BY <2>1, <2>2
  <1>11. ASSUME NEW c \in Consumers, CrashConsumer(c)
       PROVE  AtWork(d)'
    <2>1. CASE d # c
      BY <1>1, <2>1, <1>11 DEF CrashConsumer, JobTypes, Through
    <2>2. CASE d = c
      BY <2>2, RowsOf, StoredStays, <1>11 DEF CrashConsumer, AtWork, JobTypes, JobRec, Through, NoJob, Job
    <2> QED
      BY <2>1, <2>2
  <1>12. ASSUME NEW r \in Rows, LeaseRunsOut(r)
       PROVE  AtWork(d)'
    BY <1>1, <1>12 DEF LeaseRunsOut
  <1>13. ASSUME NEW r \in Rows, Due(r)
       PROVE  AtWork(d)'
    BY <1>1, <1>13 DEF Due
  <1> QED
    BY <1>2, <1>3, <1>4, <1>5, <1>6, <1>7, <1>8, <1>9, <1>10, <1>11, <1>12, <1>13 DEF DeliveryNext, Work

\* Every answer is given for an event that is stored.
LEMMA AckedStep ==
  ASSUME QueueTypes, JobTypes, \A c \in Consumers : AtWork(c), AckedIsStored, DeliveryNext
  PROVE  AckedIsStored'
  <1>1. ASSUME UNCHANGED acked
        PROVE  AckedIsStored'
    BY <1>1, RowsOf, StoredStays DEF AckedIsStored, QueueTypes
  <1>2. ASSUME NEW c \in Consumers, Through(c), job[c].step # "idle"
        PROVE  AckedIsStored'
    <2>1. ASSUME job[c].web
          PROVE  queued[InRow(job[c].row[1])].status # "absent" /\ job[c].row[1] \in Events
      BY <1>2, <2>1, RowsOf DEF AtWork, JobTypes
    <2> QED
      BY <1>2, <2>1, RowsOf, StoredStays DEF AckedIsStored, QueueTypes, Through
  <1>3. ASSUME NEW c \in Consumers, NEW e \in Events, Webhook(c, e)
       PROVE  AckedIsStored'
    BY <1>1, <1>2, <1>3 DEF Webhook
  <1>4. ASSUME NEW c \in Consumers, NEW r \in Rows, SweepInbox(c, r)
       PROVE  AckedIsStored'
    BY <1>1, <1>2, <1>4 DEF SweepInbox
  <1>5. ASSUME NEW c \in Consumers, NEW r \in Rows, NEW latePass \in BOOLEAN, ClaimNextEvent(c, r, latePass)
       PROVE  AckedIsStored'
    BY <1>1, <1>2, <1>5 DEF ClaimNextEvent
  <1>6. ASSUME NEW c \in Consumers, ClaimInbox(c)
       PROVE  AckedIsStored'
    BY <1>1, <1>2, <1>6 DEF ClaimInbox
  <1>7. ASSUME NEW c \in Consumers, Act(c)
       PROVE  AckedIsStored'
    BY <1>1, <1>2, <1>7 DEF Act
  <1>8. ASSUME NEW c \in Consumers, Mark(c)
       PROVE  AckedIsStored'
    BY <1>1, <1>2, <1>8 DEF Mark
  <1>9. ASSUME NEW c \in Consumers, NoteFailure(c)
       PROVE  AckedIsStored'
    BY <1>1, <1>2, <1>9 DEF NoteFailure
  <1>10. ASSUME NEW c \in Consumers, ActFails(c)
       PROVE  AckedIsStored'
    BY <1>1, <1>2, <1>10 DEF ActFails
  <1>11. ASSUME NEW c \in Consumers, TenantUnresolved(c)
       PROVE  AckedIsStored'
    BY <1>1, <1>2, <1>11 DEF TenantUnresolved
  <1>12. ASSUME NEW c \in Consumers, CrashConsumer(c)
       PROVE  AckedIsStored'
    BY <1>1, <1>2, <1>12 DEF CrashConsumer
  <1>13. ASSUME NEW r \in Rows, LeaseRunsOut(r)
       PROVE  AckedIsStored'
    BY <1>1, <1>2, <1>13 DEF LeaseRunsOut
  <1>14. ASSUME NEW r \in Rows, Due(r)
       PROVE  AckedIsStored'
    BY <1>1, <1>2, <1>14 DEF Due
  <1> QED
    BY <1>3, <1>4, <1>5, <1>6, <1>7, <1>8, <1>9, <1>10, <1>11, <1>12, <1>13, <1>14 DEF DeliveryNext, Work

\* A consumer comes to a row by claiming it, and the lease of a row ends with its
\* consumer or is outlived.
LEMMA LeaseStep ==
  ASSUME QueueTypes, JobTypes, \A c \in Consumers : AtWork(c), Leased, OneConsumerPerLease, DeliveryNext
  PROVE  Leased' /\ OneConsumerPerLease'
  <1>1. ASSUME \A c \in Consumers, r \in Rows : Holds(c, r)' => Holds(c, r), overrun \subseteq overrun',
               \A r \in Rows \ overrun' : queued[r].leased /\ (\E c \in Consumers : Holds(c, r)') => queued'[r].leased
        PROVE  Leased' /\ OneConsumerPerLease'
    BY <1>1 DEF Leased, OneConsumerPerLease
  <1>2. ASSUME NEW c \in Consumers, NEW r \in Rows, ~queued[r].leased, overrun \subseteq overrun',
               r \notin overrun' => queued'[r].leased,
               \A d \in Consumers, s \in Rows : Holds(d, s)' => Holds(d, s) \/ (d = c /\ s = r),
               \A s \in Rows \ {r} : queued'[s] = queued[s]
        PROVE  Leased' /\ OneConsumerPerLease'
    BY <1>2 DEF Leased, OneConsumerPerLease
  <1>3. ASSUME NEW c \in Consumers, NEW e \in Events, Webhook(c, e)
       PROVE  Leased' /\ OneConsumerPerLease'
    <2>1. \A d \in Consumers, s \in Rows : Holds(d, s)' => Holds(d, s)
      BY <1>3 DEF Webhook, Holds, JobTypes, NoJob, Job
    <2>2. \A s \in Rows : queued'[s] = queued[s] \/ queued[s].status = "absent"
      BY RowsOf, <1>3 DEF Webhook, QueueTypes
    <2>3. \A d \in Consumers, s \in Rows : Holds(d, s) => queued[s].status # "absent"
      BY DEF Holds, AtWork
    <2> QED
      BY <1>1, <2>1, <2>2, <2>3, <1>3 DEF Webhook
  <1>4. ASSUME NEW c \in Consumers, NEW r \in Rows, SweepInbox(c, r)
       PROVE  Leased' /\ OneConsumerPerLease'
    BY <1>1, <1>4 DEF SweepInbox, Holds, JobTypes, NoJob, Job, QueueTypes, RowRec
  <1>5. ASSUME NEW c \in Consumers, NEW r \in Rows, NEW latePass \in BOOLEAN, ClaimNextEvent(c, r, latePass)
       PROVE  Leased' /\ OneConsumerPerLease'
    <2>1. \A d \in Consumers, s \in Rows : Holds(d, s)' => Holds(d, s) \/ (d = c /\ s = r)
      BY <1>5 DEF ClaimNextEvent, Holds, JobTypes, NoJob, Job
    <2> QED
      BY <1>2, <2>1, <1>5 DEF ClaimNextEvent, Free, QueueTypes, RowRec
  <1>6. ASSUME NEW c \in Consumers, ClaimInbox(c)
       PROVE  Leased' /\ OneConsumerPerLease'
    <2>1. CASE Through(c)
      BY <1>1, <2>1, <1>6 DEF ClaimInbox, Through, Holds, JobTypes, NoJob, Job
    <2>2. CASE Free(job[c].row) /\ job' = [job EXCEPT ![c].step = "act", ![c].attempts = OneMore(queued[job[c].row].attempts)]
      <3>1. job[c].row \in Rows
        BY <1>6 DEF ClaimInbox, JobTypes
      <3>2. \A d \in Consumers, s \in Rows : Holds(d, s)' => Holds(d, s) \/ (d = c /\ s = job[c].row)
        BY <2>2 DEF Holds, JobTypes
      <3>3. queued' = [queued EXCEPT ![job[c].row].leased = TRUE, ![job[c].row].attempts = OneMore(@)]
        BY <2>2, <1>6 DEF ClaimInbox, Through, JobTypes, NoJob, Job
      <3> QED
        BY <1>2, <3>1, <3>2, <3>3, <2>2, <1>6 DEF ClaimInbox, Free, QueueTypes, RowRec
    <2> QED
      BY <2>1, <2>2, <1>6 DEF ClaimInbox
  <1>7. ASSUME NEW c \in Consumers, Act(c)
       PROVE  Leased' /\ OneConsumerPerLease'
    <2>1. \A d \in Consumers, s \in Rows : Holds(d, s)' => Holds(d, s)
      BY <1>7 DEF Act, Holds, JobTypes, NoJob, Job
    <2>2. \A s \in Rows : queued'[s] = queued[s] \/ queued[s].status = "absent"
      BY RowsOf, <1>7 DEF Act, QueueTypes
    <2>3. \A d \in Consumers, s \in Rows : Holds(d, s) => queued[s].status # "absent"
      BY DEF Holds, AtWork
    <2> QED
      BY <1>1, <2>1, <2>2, <2>3, <1>7 DEF Act
  <1>8. ASSUME NEW c \in Consumers, Mark(c)
       PROVE  Leased' /\ OneConsumerPerLease'
    <2>1. job[c].row \in Rows /\ Holds(c, job[c].row)
      BY <1>8 DEF Mark, JobTypes, Holds
    <2>2. \A d \in Consumers, s \in Rows : Holds(d, s)' => Holds(d, s) /\ d # c
      BY <1>8 DEF Mark, Through, Holds, JobTypes, NoJob, Job
    <2>3. \A s \in Rows \ {job[c].row} : queued'[s] = queued[s]
      BY <2>1, <1>8 DEF Mark, QueueTypes
    <2>4. ASSUME NEW s \in Rows \ overrun, NEW d \in Consumers, Holds(d, s)'
          PROVE  queued'[s] = queued[s]
      BY <2>1, <2>2, <2>3, <2>4 DEF OneConsumerPerLease
    <2>5. overrun' = overrun
      BY <1>8 DEF Mark
    <2> QED
      BY <1>1, <2>2, <2>4, <2>5
  <1>9. ASSUME NEW c \in Consumers, NoteFailure(c)
       PROVE  Leased' /\ OneConsumerPerLease'
    <2>1. job[c].row \in Rows /\ Holds(c, job[c].row)
      BY <1>9 DEF NoteFailure, JobTypes, Holds
    <2>2. \A d \in Consumers, s \in Rows : Holds(d, s)' => Holds(d, s) /\ d # c
      BY SMTT(30), <1>9 DEF NoteFailure, Through, Holds, JobTypes, NoJob, Job
    <2>3. \A s \in Rows \ {job[c].row} : queued'[s] = queued[s]
      BY <2>1, <1>9 DEF NoteFailure, QueueTypes
    <2>4. ASSUME NEW s \in Rows \ overrun, NEW d \in Consumers, Holds(d, s)'
          PROVE  queued'[s] = queued[s]
      BY <2>1, <2>2, <2>3, <2>4 DEF OneConsumerPerLease
    <2>5. overrun' = overrun
      BY <1>9 DEF NoteFailure
    <2> QED
      BY <1>1, <2>2, <2>4, <2>5
  <1>10. ASSUME NEW c \in Consumers, ActFails(c)
       PROVE  Leased' /\ OneConsumerPerLease'
    BY <1>1, <1>10 DEF ActFails, Holds, JobTypes, NoJob, Job, QueueTypes, RowRec
  <1>11. ASSUME NEW c \in Consumers, TenantUnresolved(c)
       PROVE  Leased' /\ OneConsumerPerLease'
    BY <1>1, <1>11 DEF TenantUnresolved, Holds, JobTypes, NoJob, Job, QueueTypes, RowRec
  <1>12. ASSUME NEW c \in Consumers, CrashConsumer(c)
       PROVE  Leased' /\ OneConsumerPerLease'
    BY <1>1, <1>12 DEF CrashConsumer, Holds, JobTypes, NoJob, Job, QueueTypes, RowRec
  <1>13. ASSUME NEW r \in Rows, LeaseRunsOut(r)
       PROVE  Leased' /\ OneConsumerPerLease'
    <2>1. \A s \in Rows \ {r} : queued'[s] = queued[s]
      BY <1>13 DEF LeaseRunsOut, QueueTypes
    <2> QED
      BY <1>1, <2>1, <1>13 DEF LeaseRunsOut, Holds
  <1>14. ASSUME NEW r \in Rows, Due(r)
       PROVE  Leased' /\ OneConsumerPerLease'
    BY <1>1, <1>14 DEF Due, Holds, JobTypes, NoJob, Job, QueueTypes, RowRec
  <1> QED
    BY <1>3, <1>4, <1>5, <1>6, <1>7, <1>8, <1>9, <1>10, <1>11, <1>12, <1>13, <1>14 DEF DeliveryNext, Work

-----------------------------------------------------------------------------
(* The theorems *)

\* The invariant holds of every behaviour.
THEOREM DeliveryInvariance == DeliverySpec => []DeliveryInv
  <1>1. DeliveryInit => DeliveryInv
    <2> SUFFICES ASSUME DeliveryInit
                 PROVE  DeliveryInv
      OBVIOUS
    <2>1. QueueTypes /\ JobTypes
      BY RecTypes DEF DeliveryInit, QueueTypes, JobTypes, NoJob, Job
    <2>2. \A c \in Consumers : job[c].step = "idle"
      BY DEF DeliveryInit, NoJob, Job
    <2> QED
      BY <2>1, <2>2 DEF DeliveryInit, DeliveryInv, AtWork, AckedIsStored, Leased, OneConsumerPerLease, Holds
  <1>2. DeliveryInv /\ [DeliveryNext]_deliveryVars => DeliveryInv'
    <2> SUFFICES ASSUME DeliveryInv, [DeliveryNext]_deliveryVars
                 PROVE  DeliveryInv'
      OBVIOUS
    <2>1. CASE DeliveryNext
      <3>1. QueueTypes' /\ JobTypes' /\ Leased' /\ OneConsumerPerLease'
        BY <2>1, QueueStep, JobStep, LeaseStep DEF DeliveryInv
      <3>2. AckedIsStored'
        BY <2>1, AckedStep DEF DeliveryInv
      <3>3. \A c \in Consumers : AtWork(c)'
        BY <2>1, AtWorkStep DEF DeliveryInv
      <3> QED
        BY <3>1, <3>2, <3>3 DEF DeliveryInv
    <2>2. CASE UNCHANGED deliveryVars
      BY <2>2 DEF deliveryVars, DeliveryInv, QueueTypes, JobTypes, AtWork, AckedIsStored, Leased, OneConsumerPerLease, Holds
    <2> QED
      BY <2>1, <2>2
  <1> QED
    BY <1>1, <1>2, PTL DEF DeliverySpec

\* An event for which the provider got a 2xx is in the inbox, whatever crashed
\* (handleWebhookEvent).
THEOREM AckedIsStoredHolds == DeliverySpec => []AckedIsStored
  <1>1. DeliveryInv => AckedIsStored
    BY DEF DeliveryInv
  <1> QED
    BY <1>1, DeliveryInvariance, PTL

\* Two consumers are at a row at once only after one of them outlived its lease
\* (processInboxRow, claimNextEvent).
THEOREM OneConsumerPerLeaseHolds == DeliverySpec => []OneConsumerPerLease
  <1>1. DeliveryInv => OneConsumerPerLease
    BY DEF DeliveryInv
  <1> QED
    BY <1>1, DeliveryInvariance, PTL

-----------------------------------------------------------------------------
(* At least once *)

\* The whereabouts of one row, now and after the step.
LEMMA WhereIs ==
  ASSUME QueueTypes, QueueTypes', NEW r \in Rows
  PROVE  /\ queued[r].status \in Status /\ queued'[r].status \in Status
         /\ queued[r].status = "absent" <=> Whereabouts[r] = "out"
         /\ queued[r].status \in {"PENDING", "UNRESOLVED"} <=> Whereabouts[r] = "kept"
         /\ queued[r].status = "DONE" <=> Whereabouts[r] = "closed"
         /\ queued[r].status = "DEAD" <=> Whereabouts[r] = "review"
         /\ queued'[r].status = "absent" <=> Whereabouts'[r] = "out"
         /\ queued'[r].status \in {"PENDING", "UNRESOLVED"} <=> Whereabouts'[r] = "kept"
         /\ queued'[r].status = "DONE" <=> Whereabouts'[r] = "closed"
         /\ queued'[r].status = "DEAD" <=> Whereabouts'[r] = "review"
  <1>1. queued[r].status \in Status /\ queued'[r].status \in Status
    BY DEF QueueTypes, RowRec
  <1> QED
    BY <1>1 DEF Whereabouts, Status

\* Two states with the same whereabouts of every row, or of all but one.
LEMMA WhereType ==
  ASSUME QueueTypes, QueueTypes'
  PROVE  /\ Whereabouts \in [Rows -> {"out", "kept", "closed", "review"}]
         /\ Whereabouts' \in [Rows -> {"out", "kept", "closed", "review"}]
  BY DEF QueueTypes, RowRec, Status, Whereabouts

\* When the status of one row changes at most, only its whereabouts change.
LEMMA OneRowMoves ==
  ASSUME QueueTypes, QueueTypes', NEW r \in Rows, \A s \in Rows \ {r} : queued'[s].status = queued[s].status
  PROVE  Whereabouts' = [Whereabouts EXCEPT ![r] = Whereabouts'[r]]
  <1>1. \A s \in Rows \ {r} : Whereabouts'[s] = Whereabouts[s]
    BY WhereIs, WhereType DEF Status
  <1> QED
    BY <1>1, WhereType

\* When no status changes, no row moves.
LEMMA NoRowMoves ==
  ASSUME QueueTypes, QueueTypes', \A r \in Rows : queued'[r].status = queued[r].status
  PROVE  Whereabouts' = Whereabouts
  <1>1. \A s \in Rows : Whereabouts'[s] = Whereabouts[s]
    BY WhereIs, WhereType DEF Status
  <1> QED
    BY <1>1, WhereType

\* A row that was not there is accepted.
LEMMA RowAccepted ==
  ASSUME QueueTypes, QueueTypes', NEW r \in Rows, queued[r].status = "absent",
         queued' = [queued EXCEPT ![r] = Fresh]
  PROVE  Durable!Accepted({r})
  <1>1. \A s \in Rows \ {r} : queued'[s].status = queued[s].status
    BY DEF QueueTypes
  <1>2. Whereabouts[r] = "out" /\ Whereabouts'[r] = "kept"
    BY WhereIs DEF QueueTypes, Fresh
  <1>3. Whereabouts' = [s \in Rows |-> IF s = r THEN "kept" ELSE Whereabouts[s]]
    BY <1>1, <1>2, OneRowMoves, WhereType
  <1> QED
    BY <1>2, <1>3 DEF Durable!Accepted

\* Every action is a step of the promise or leaves it as it is.
LEMMA DurableStep ==
  ASSUME DeliveryInv, DeliveryNext
  PROVE  Durable!AtLeastOnceNext \/ UNCHANGED <<Whereabouts, applied>>
  <1>1. QueueTypes /\ QueueTypes' /\ JobTypes /\ \A c \in Consumers : AtWork(c)
    BY QueueStep DEF DeliveryInv
  <1>2. ASSUME UNCHANGED applied, \A r \in Rows : queued'[r].status = queued[r].status
        PROVE  UNCHANGED <<Whereabouts, applied>>
    BY <1>1, <1>2, NoRowMoves
  <1>3. ASSUME NEW c \in Consumers, NEW e \in Events, Webhook(c, e)
       PROVE  Durable!AtLeastOnceNext \/ UNCHANGED <<Whereabouts, applied>>
    <2>1. CASE queued[InRow(e)].status = "absent"
      <3>1. Durable!Accept(InRow(e))
        BY <1>1, <2>1, RowsOf, RowAccepted, <1>3 DEF Webhook, QueueTypes, Durable!Accept
      <3> QED
        BY <3>1, RowsOf DEF Durable!AtLeastOnceNext
    <2>2. CASE queued[InRow(e)].status # "absent"
      BY <1>1, <1>2, <2>2, RowsOf, <1>3 DEF Webhook, QueueTypes
    <2> QED
      BY <2>1, <2>2
  <1>4. ASSUME NEW c \in Consumers, NEW r \in Rows, SweepInbox(c, r)
       PROVE  Durable!AtLeastOnceNext \/ UNCHANGED <<Whereabouts, applied>>
    BY <1>1, <1>2, <1>4 DEF SweepInbox, QueueTypes, RowRec
  <1>5. ASSUME NEW c \in Consumers, NEW r \in Rows, NEW latePass \in BOOLEAN, ClaimNextEvent(c, r, latePass)
       PROVE  Durable!AtLeastOnceNext \/ UNCHANGED <<Whereabouts, applied>>
    <2>1. PICK lease \in BOOLEAN : lease = ~latePass
      OBVIOUS
    <2>2. \A s \in Rows : queued'[s].status = queued[s].status
      BY <1>1, <2>1, ClaimsRow, <1>5 DEF ClaimNextEvent
    <2> QED
      BY <1>2, <2>2, <1>5 DEF ClaimNextEvent
  <1>6. ASSUME NEW c \in Consumers, ClaimInbox(c)
       PROVE  Durable!AtLeastOnceNext \/ UNCHANGED <<Whereabouts, applied>>
    <2>1. job[c].row \in Rows
      BY <1>1, <1>6 DEF ClaimInbox, JobTypes
    <2>2. \A s \in Rows : queued'[s].status = queued[s].status
      BY <1>1, <2>1, ClaimsRow, <1>6 DEF ClaimInbox
    <2> QED
      BY <1>2, <2>2, <1>6 DEF ClaimInbox
  <1>7. ASSUME NEW c \in Consumers, Act(c)
       PROVE  Durable!AtLeastOnceNext \/ UNCHANGED <<Whereabouts, applied>>
    <2>1. PICK r \in Rows : r = job[c].row /\ queued[r].status # "absent"
      BY <1>1, <1>7 DEF Act, JobTypes, AtWork
    <2>2. Whereabouts[r] # "out" /\ applied' = applied \cup {r}
      BY <1>1, <2>1, WhereIs, <1>7 DEF Act
    <2>3. CASE IsInbox(r) /\ queued[OutRow(r[1])].status = "absent"
      <3>1. OutRow(r[1]) \in Rows
        BY <2>1, RowsOf
      <3>2. Durable!Accepted({OutRow(r[1])})
        BY <1>1, <2>1, <2>3, <3>1, RowAccepted, <1>7 DEF Act
      <3>3. Durable!Happen(r, {OutRow(r[1])})
        BY <2>2, <3>2 DEF Durable!Happen
      <3> QED
        BY <3>1, <3>3 DEF Durable!AtLeastOnceNext
    <2>4. CASE queued' = queued
      <3>1. Whereabouts' = [s \in Rows |-> Whereabouts[s]]
        BY <1>1, <2>4, NoRowMoves, WhereType
      <3>2. Durable!Happen(r, {})
        BY <2>2, <3>1 DEF Durable!Happen, Durable!Accepted
      <3> QED
        BY <3>2 DEF Durable!AtLeastOnceNext
    <2> QED
      BY <2>1, <2>3, <2>4, <1>7 DEF Act
  <1>8. ASSUME NEW c \in Consumers, Mark(c)
       PROVE  Durable!AtLeastOnceNext \/ UNCHANGED <<Whereabouts, applied>>
    <2>1. PICK r \in Rows : r = job[c].row /\ queued[r].status # "absent" /\ r \in applied
      BY <1>1, <1>8 DEF Mark, JobTypes, AtWork
    <2>2. applied' = applied /\ \A s \in Rows \ {r} : queued'[s].status = queued[s].status
      BY <1>1, <2>1, <1>8 DEF Mark, QueueTypes
    <2>3. queued'[r].status = "DONE"
      BY <1>1, <2>1, <1>8 DEF Mark, QueueTypes, RowRec
    <2>4. CASE Whereabouts[r] = "closed"
      BY <1>1, <1>2, <2>1, <2>2, <2>3, <2>4, WhereIs
    <2>5. CASE Whereabouts[r] \in {"kept", "review"}
      <3>1. Durable!Close(r)
        BY <1>1, <2>1, <2>2, <2>3, <2>5, OneRowMoves, WhereIs DEF Durable!Close, Durable!Move
      <3> QED
        BY <3>1 DEF Durable!AtLeastOnceNext
    <2>6. Whereabouts[r] \in {"kept", "closed", "review"}
      BY <1>1, <2>1, WhereIs, WhereType
    <2> QED
      BY <2>4, <2>5, <2>6
  <1>9. ASSUME NEW c \in Consumers, NoteFailure(c)
       PROVE  Durable!AtLeastOnceNext \/ UNCHANGED <<Whereabouts, applied>>
    <2>1. PICK r \in Rows : r = job[c].row /\ queued[r].status # "absent"
      BY SMTT(30), <1>1, <1>9 DEF NoteFailure, JobTypes, AtWork
    <2>2. applied' = applied /\ \A s \in Rows \ {r} : queued'[s].status = queued[s].status
      BY SMTT(30), <1>1, <2>1, <1>9 DEF NoteFailure, QueueTypes
    <2>3. queued'[r].status \in {"PENDING", "UNRESOLVED", "DEAD"}
      BY <1>1, <2>1, <1>9 DEF NoteFailure, QueueTypes, RowRec
    <2>4. CASE Whereabouts'[r] = Whereabouts[r]
      BY <1>1, <2>2, <2>4, OneRowMoves, WhereType
    <2>5. CASE Whereabouts'[r] = "review" /\ Whereabouts[r] \in {"kept", "closed"}
      <3>1. Durable!Surrender(r)
        BY <1>1, <2>2, <2>5, OneRowMoves DEF Durable!Surrender, Durable!Move
      <3> QED
        BY <3>1 DEF Durable!AtLeastOnceNext
    <2>6. CASE Whereabouts'[r] = "kept" /\ Whereabouts[r] \in {"closed", "review"}
      <3>1. Durable!Reopen(r)
        BY <1>1, <2>2, <2>6, OneRowMoves DEF Durable!Reopen, Durable!Move
      <3> QED
        BY <3>1 DEF Durable!AtLeastOnceNext
    <2>7. Whereabouts[r] \in {"kept", "closed", "review"} /\ Whereabouts'[r] \in {"kept", "review"}
      BY <1>1, <2>1, <2>3, WhereIs, WhereType
    <2> QED
      BY <2>4, <2>5, <2>6, <2>7
  <1>10. ASSUME NEW c \in Consumers, ActFails(c)
       PROVE  Durable!AtLeastOnceNext \/ UNCHANGED <<Whereabouts, applied>>
    BY <1>1, <1>2, <1>10 DEF ActFails, QueueTypes, RowRec
  <1>11. ASSUME NEW c \in Consumers, TenantUnresolved(c)
       PROVE  Durable!AtLeastOnceNext \/ UNCHANGED <<Whereabouts, applied>>
    BY <1>1, <1>2, <1>11 DEF TenantUnresolved, QueueTypes, RowRec
  <1>12. ASSUME NEW c \in Consumers, CrashConsumer(c)
       PROVE  Durable!AtLeastOnceNext \/ UNCHANGED <<Whereabouts, applied>>
    BY <1>1, <1>2, <1>12 DEF CrashConsumer, QueueTypes, RowRec
  <1>13. ASSUME NEW r \in Rows, LeaseRunsOut(r)
       PROVE  Durable!AtLeastOnceNext \/ UNCHANGED <<Whereabouts, applied>>
    BY <1>1, <1>2, <1>13 DEF LeaseRunsOut, QueueTypes, RowRec
  <1>14. ASSUME NEW r \in Rows, Due(r)
       PROVE  Durable!AtLeastOnceNext \/ UNCHANGED <<Whereabouts, applied>>
    BY <1>1, <1>2, <1>14 DEF Due, QueueTypes, RowRec
  <1> QED
    BY <1>3, <1>4, <1>5, <1>6, <1>7, <1>8, <1>9, <1>10, <1>11, <1>12, <1>13, <1>14 DEF DeliveryNext, Work

\* What DeliversAtLeastOnce says of safety.
DeliversOnlyAccepted == Durable!AtLeastOnceInit /\ [][Durable!AtLeastOnceNext]_<<Whereabouts, applied>>

\* Both queues keep a row until its effect happened, close it only afterwards and
\* lose none, for any number of events and consumers and whatever crashes
\* (processInboxRow, deliverOutbox); that no row waits for ever needs fairness and
\* is left to TLC.
THEOREM DurableImplemented == DeliverySpec => DeliversOnlyAccepted
  <1>1. DeliveryInit => Durable!AtLeastOnceInit
    BY DEF DeliveryInit, Durable!AtLeastOnceInit, Whereabouts, Absent
  <1>2. DeliveryInv /\ [DeliveryNext]_deliveryVars => [Durable!AtLeastOnceNext]_<<Whereabouts, applied>>
    <2> SUFFICES ASSUME DeliveryInv, [DeliveryNext]_deliveryVars
                 PROVE  Durable!AtLeastOnceNext \/ UNCHANGED <<Whereabouts, applied>>
      OBVIOUS
    <2>1. CASE DeliveryNext
      BY <2>1, DurableStep
    <2>2. CASE UNCHANGED deliveryVars
      BY <2>2 DEF deliveryVars, Whereabouts
    <2> QED
      BY <2>1, <2>2
  <1> QED
    BY <1>1, <1>2, DeliveryInvariance, PTL DEF DeliverySpec, DeliversOnlyAccepted
=============================================================================
