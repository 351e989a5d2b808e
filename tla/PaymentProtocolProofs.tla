----------------------- MODULE PaymentProtocolProofs -----------------------
(***************************************************************************)
(* Theorems about the payment of an order.                                 *)
(*                                                                         *)
(* Types, and that a paid order is not released, are proved whoever takes  *)
(* part.  The rest is about card payments, for any number of attempts,     *)
(* requests, webhook handlers and staff:                                   *)
(*  - without manual proofs, as one approved while a card is paid makes    *)
(*    the second charge look like a repeated notice (settleInTx);          *)
(*  - PaidConsistently and the ledger without returns, which refund the    *)
(*    order and leave its payment COMPLETADO;                              *)
(*  - OneOpenCharge and NoChargeForgotten with one pass of the cron at a   *)
(*    time: a second one that hears nothing from the provider extends an   *)
(*    order of which the first has abandoned the attempt in flight.        *)
(*                                                                         *)
(* The argument: at most one charge is unresolved, that is, may still take *)
(* money or waits to be accounted for (OneCharge).  It is kept as          *)
(* an order takes a new attempt only while it is open, and an attempt that *)
(* is given up while its charge may still happen has closed the order      *)
(* (LeavesLive, SweepShuts).                                               *)
(***************************************************************************)
EXTENDS PaymentProtocol, TLAPS

USE PaymentAssumption

-----------------------------------------------------------------------------
(* Types *)

\* What a step does to the worker that takes it.
Moved(w, op, step, c, saw) ==
  /\ work' \in [Workers -> Task]
  /\ work'[w].op = op /\ work'[w].step = step /\ work'[w].c = c /\ work'[w].saw = saw
  /\ \A v \in Workers \ {w} : work'[v] = work[v]

\* A worker that starts an operation takes its first step; no other moves.
LEMMA StartMoves ==
  ASSUME TypeOK, NEW w \in Workers, NEW op \in Ops, NEW step \in Steps, NEW c \in Charges \cup {None},
         NEW saw \in Sights, Start(w, op, step, c, saw)
  PROVE  Moved(w, op, step, c, saw)
  BY DEF TypeOK, TaskTypes, Start, Task, Moved

\* A worker goes on to another step of its operation.
LEMMA GoMoves ==
  ASSUME TypeOK, NEW w \in Workers, NEW step \in Steps, Go(w, step)
  PROVE  Moved(w, work[w].op, step, work[w].c, work[w].saw)
  BY DEF TypeOK, TaskTypes, Go, Task, Moved

\* A worker goes on with what it has just seen.
LEMMA LearnMoves ==
  ASSUME TypeOK, NEW w \in Workers, NEW step \in Steps, NEW saw \in Sights, Learn(w, step, saw)
  PROVE  Moved(w, work[w].op, step, work[w].c, saw)
  BY ZenonT(60) DEF TypeOK, TaskTypes, Learn, Task, Moved

\* A worker ends its operation.
LEMMA RestMoves ==
  ASSUME TypeOK, NEW w \in Workers, Rest(w)
  PROVE  Moved(w, "none", "idle", None, "NONE")
  <1>1. Resting \in Task
    BY DEF Resting, Task, Ops, Steps, Sights
  <1> QED
    BY <1>1 DEF TypeOK, TaskTypes, Rest, Moved, Resting

\* A worker keeps its type if it has a charge wherever a step needs one.
LEMMA MovedTypes ==
  ASSUME TypeOK, NEW w \in Workers, NEW op, NEW step, NEW c, NEW saw, Moved(w, op, step, c, saw),
         step \notin Unbound => c \in Charges
  PROVE  TaskTypes'
  BY DEF TypeOK, TaskTypes, Moved

\* Every action keeps the types of the workers.
LEMMA TaskStep ==
  ASSUME TypeOK, Next
  PROVE  TaskTypes'
  <1>0. TypeOK
    OBVIOUS
  <1>00. \A w \in Workers : work[w].step \notin Unbound => work[w].c \in Charges
    BY DEF TypeOK, TaskTypes
  <1>000. \A c \in Charges : pi[c] \in Sights
    BY SMTT(60) DEF TypeOK, RowTypes, Sights
  <1> USE <1>0, StartMoves, GoMoves, LearnMoves, RestMoves, MovedTypes DEF Steps, Unbound
  <1>1. ASSUME NEW w \in Workers, StartPay(w)
        PROVE  TaskTypes'
    BY <1>00, <1>1 DEF StartPay, Ops, Sights, ObtainStep, Live, At
  <1>2. ASSUME NEW w \in Workers, StartConfirm(w)
        PROVE  TaskTypes'
    <2>1. PICK c \in linked : Start(w, "confirm", "got", c, pi[c])
      BY <1>2 DEF StartConfirm
    <2>2. c \in Charges /\ pi[c] \in Sights
      BY <2>1, <1>000 DEF TypeOK, RowTypes
    <2> QED
      BY SMTT(60), <2>1, <2>2 DEF Ops
  <1>3. ASSUME NEW w \in Workers, StartCancel(w)
        PROVE  TaskTypes'
    BY <1>00, <1>3 DEF StartCancel, Ops, Sights, Live, At
  <1>4. ASSUME NEW w \in Workers, StartProof(w)
        PROVE  TaskTypes'
    BY <1>00, <1>4 DEF StartProof, Ops, Sights, At
  <1>5. ASSUME NEW w \in Workers, StartRecover(w)
        PROVE  TaskTypes'
    BY <1>00, <1>5 DEF StartRecover, Ops, Sights, ObtainStep, At
  <1>6. ASSUME NEW w \in Workers, StartSweep(w)
        PROVE  TaskTypes'
    BY <1>00, <1>6 DEF StartSweep, Ops, Sights, At
  <1>7. ASSUME NEW w \in Workers, StartRefund(w)
        PROVE  TaskTypes'
    BY <1>00, <1>7 DEF StartRefund, Ops, Sights, At
  <1>8. ASSUME NEW w \in Workers, Retrieve(w)
        PROVE  TaskTypes'
    BY <1>00, <1>8, <1>000 DEF Retrieve, Sights, IntentStatus, RefundStatus, At
  <1>9. ASSUME NEW w \in Workers, Search(w)
        PROVE  TaskTypes'
    <2>1. work[w].c \in Charges /\ pi[work[w].c] \in Sights
      BY <1>00, <1>000, <1>9 DEF Search, At
    <2> QED
      BY <1>9, <2>1 DEF Search
  <1>10. ASSUME NEW w \in Workers, Abandon(w)
        PROVE  TaskTypes'
    BY <1>00, <1>10 DEF Abandon, At
  <1>11. ASSUME NEW w \in Workers, Create(w)
        PROVE  TaskTypes'
    BY <1>00, <1>11 DEF Create, Sights, IntentStatus, RefundStatus, IntentStatus, At
  <1>12. ASSUME NEW w \in Workers, Link(w)
        PROVE  TaskTypes'
    BY <1>00, <1>12 DEF Link, At
  <1>13. ASSUME NEW w \in Workers, UseIntent(w)
        PROVE  TaskTypes'
    BY <1>00, <1>13 DEF UseIntent, At
  <1>14. ASSUME NEW w \in Workers, Settle(w)
        PROVE  TaskTypes'
    BY <1>00, <1>14 DEF Settle, AfterSettle, At
  <1>15. ASSUME NEW w \in Workers, CancelAtProvider(w)
        PROVE  TaskTypes'
    BY <1>00, <1>15 DEF CancelAtProvider, At
  <1>16. ASSUME NEW w \in Workers, CancelOrder(w)
        PROVE  TaskTypes'
    BY <1>00, <1>16 DEF CancelOrder, At
  <1>17. ASSUME NEW w \in Workers, MarkFailed(w)
        PROVE  TaskTypes'
    BY <1>00, <1>17 DEF MarkFailed, At
  <1>18. ASSUME NEW w \in Workers, MarkIntentCanceled(w)
        PROVE  TaskTypes'
    BY <1>00, <1>18 DEF MarkIntentCanceled, At
  <1>19. ASSUME NEW w \in Workers, MarkProcessed(w)
        PROVE  TaskTypes'
    BY <1>00, <1>19 DEF MarkProcessed, At
  <1>20. ASSUME NEW w \in Workers, Resolve(w)
        PROVE  TaskTypes'
    <2>1. work[w].op \in Ops
      BY DEF TypeOK, TaskTypes, Task
    <2> QED
      BY <2>1, <1>20 DEF Resolve, Live, Sights
  <1>21. ASSUME NEW w \in Workers, Find(w)
        PROVE  TaskTypes'
    BY <1>00, <1>21 DEF Find, At
  <1>22. ASSUME NEW w \in Workers, Ask(w)
        PROVE  TaskTypes'
    BY <1>00, <1>22 DEF Ask, At
  <1>23. ASSUME NEW w \in Workers, Withdraw(w)
        PROVE  TaskTypes'
    BY <1>00, <1>23 DEF Withdraw, At
  <1>24. ASSUME NEW w \in Workers, Release(w)
        PROVE  TaskTypes'
    BY <1>00, <1>24 DEF Release, At
  <1>25. ASSUME NEW w \in Workers, HoldForReconciliation(w)
        PROVE  TaskTypes'
    BY <1>00, <1>25 DEF HoldForReconciliation, At
  <1>26. ASSUME NEW w \in Workers, Submit(w)
        PROVE  TaskTypes'
    BY <1>00, <1>26 DEF Submit, At
  <1>27. ASSUME NEW w \in Workers, CallRefund(w)
        PROVE  TaskTypes'
    BY <1>00, <1>27 DEF CallRefund, Sights, IntentStatus, RefundStatus, At
  <1>28. ASSUME NEW w \in Workers, NoteRefund(w)
        PROVE  TaskTypes'
    BY <1>00, <1>28 DEF NoteRefund, At
  <1>29. ASSUME NEW w \in Workers, ReadCompensation(w)
        PROVE  TaskTypes'
    BY <1>00, <1>29 DEF ReadCompensation, At
  <1>30. ASSUME NEW w \in Workers, MarkRefunded(w)
        PROVE  TaskTypes'
    BY <1>00, <1>30 DEF MarkRefunded, At
  <1>31. ASSUME NEW w \in Workers, Unanswered(w)
        PROVE  TaskTypes'
    BY <1>00, <1>31 DEF Unanswered, At
  <1>32. ASSUME NEW w \in Workers, RefundRejected(w)
        PROVE  TaskTypes'
    BY <1>00, <1>32 DEF RefundRejected, At
  <1>33. ASSUME NEW w \in Workers, Crash(w)
        PROVE  TaskTypes'
    BY SMTT(30), <1>00, <1>33 DEF Crash, At
  <1>34. ASSUME NEW w \in Workers, NEW e \in inbox, StartEvent(w, e)
        PROVE  TaskTypes'
    BY SMTT(30), <1>00, <1>34 DEF StartEvent, Ops, Sights, TypeOK, RowTypes, Event, EventKind, At
  <1>35. ASSUME NEW c \in Charges, Pay(c)
        PROVE  TaskTypes'
    BY <1>35 DEF Pay, TypeOK, TaskTypes
  <1>36. ASSUME NEW c \in Charges, Taken(c)
        PROVE  TaskTypes'
    BY <1>36 DEF Taken, TypeOK, TaskTypes
  <1>37. ASSUME NEW c \in Charges, Declined(c)
        PROVE  TaskTypes'
    BY <1>37 DEF Declined, TypeOK, TaskTypes
  <1>38. ASSUME NEW c \in Charges, RefundClears(c)
        PROVE  TaskTypes'
    BY <1>38 DEF RefundClears, TypeOK, TaskTypes
  <1>39. ASSUME NEW c \in Charges, Age(c)
        PROVE  TaskTypes'
    BY <1>39 DEF Age, TypeOK, TaskTypes
  <1>40. ASSUME Approve
        PROVE  TaskTypes'
    BY <1>40 DEF Approve, TypeOK, TaskTypes
  <1>41. ASSUME Reject
        PROVE  TaskTypes'
    BY <1>41 DEF Reject, TypeOK, TaskTypes
  <1>42. ASSUME Return
        PROVE  TaskTypes'
    BY <1>42 DEF Return, TypeOK, TaskTypes
  <1>43. ASSUME StaffStatus
        PROVE  TaskTypes'
    BY <1>43 DEF StaffStatus, TypeOK, TaskTypes
  <1>44. ASSUME TimePasses
        PROVE  TaskTypes'
    BY <1>44 DEF TimePasses, TypeOK, TaskTypes
  <1> QED
    BY <1>1, <1>2, <1>3, <1>4, <1>5, <1>6, <1>7, <1>8, <1>9, <1>10, <1>11, <1>12, <1>13, <1>14, <1>15, <1>16, <1>17, <1>18, <1>19, <1>20, <1>21, <1>22, <1>23, <1>24, <1>25, <1>26, <1>27, <1>28, <1>29, <1>30, <1>31, <1>32, <1>33, <1>34, <1>35, <1>36, <1>37, <1>38, <1>39, <1>40, <1>41, <1>42, <1>43, <1>44 DEF Next, Request, Pass, Advance, Fault, Outside, Workers

\* A released or paid order, a settled payment, an event and a compensation
\* are rows again.
LEMMA ReleasedType ==
  ASSUME NEW o \in OrderRow
  PROVE  Released(o) \in OrderRow
  BY DEF Released, OrderRow, OrderStatus

\* Closing the live attempts keeps their types.
LEMMA LiveClosedType ==
  ASSUME att \in [Charges -> AttStatus]
  PROVE  LiveClosed \in [Charges -> AttStatus]
  BY DEF LiveClosed, AttStatus

\* Settling keeps the types of the order and its payment.
LEMMA SettledTypes ==
  ASSUME RowTypes, NEW tx \in Charges \cup {Manual}, Settled(tx)
  PROVE  payment' \in PaymentRow /\ ord' \in OrderRow
  BY DEF RowTypes, Settled, PaymentRow, PayStatus, OrderRow, OrderStatus

\* A compensation with another status is well formed.
LEMMA CompensationTypes ==
  ASSUME RowTypes, NEW c \in Charges, NEW s \in CompStatus, comp' = [comp EXCEPT ![c].status = s]
  PROVE  comp' \in [Charges -> CompRow]
  <1>1. comp[c] \in CompRow
    BY DEF RowTypes
  <1>2. [comp[c] EXCEPT !.status = s] \in CompRow
    BY <1>1 DEF CompRow
  <1> QED
    BY <1>2 DEF RowTypes

\* An order with another state of its payment is well formed.
LEMMA OrderPayType ==
  ASSUME NEW o \in OrderRow, NEW pay \in PayStatus
  PROVE  [o EXCEPT !.pay = pay] \in OrderRow
  BY DEF OrderRow

\* An event of the provider is well formed.
LEMMA EmitTypes ==
  ASSUME RowTypes, NEW kind \in EventKind, NEW c \in Charges, Emit(kind, c)
  PROVE  inbox' \subseteq Event
  BY DEF RowTypes, Emit, Event

\* A compensation that is requested is well formed.
LEMMA RequestRefundTypes ==
  ASSUME RowTypes, NEW c \in Charges, NEW reason \in Reasons, RequestRefund(c, reason)
  PROVE  comp' \in [Charges -> CompRow]
  BY DEF RowTypes, RequestRefund, CompRow, CompStatus

\* A step on a charge has one.
LEMMA OnCharge ==
  ASSUME TypeOK, NEW w \in Workers,
         \/ Retrieve(w) \/ Search(w) \/ Abandon(w) \/ Create(w) \/ Link(w) \/ UseIntent(w) \/ Settle(w)
         \/ CancelAtProvider(w) \/ MarkFailed(w) \/ MarkIntentCanceled(w) \/ MarkProcessed(w) \/ Find(w) \/ Ask(w)
         \/ Withdraw(w) \/ CallRefund(w) \/ NoteRefund(w) \/ RefundRejected(w) \/ ReadCompensation(w) \/ MarkRefunded(w)
  PROVE  work[w].c \in Charges
  <1>1. work[w].step \notin Unbound
    BY DEF Retrieve, Search, Abandon, Create, Link, UseIntent, Settle, CancelAtProvider, MarkFailed,
           MarkIntentCanceled, MarkProcessed, Find, Ask, Withdraw, CallRefund, NoteRefund, RefundRejected,
           ReadCompensation, MarkRefunded, At, Unbound
  <1> QED
    BY SMTT(30), <1>1 DEF TypeOK, TaskTypes

\* Every action keeps the types of the rows, of the inbox and of the provider.
LEMMA RowStep ==
  ASSUME TypeOK, Next
  PROVE  RowTypes'
  <1>1. \A w \in Workers : work[w].step \notin Unbound => work[w].c \in Charges
    BY DEF TypeOK, TaskTypes
  <1>2. /\ ord.status \in OrderStatus /\ ord.pay \in PayStatus /\ ord.intent \in Charges \cup {None}
        /\ ord.overdue \in BOOLEAN /\ ord.cancelRequested \in BOOLEAN
        /\ ord = [status |-> ord.status, pay |-> ord.pay, intent |-> ord.intent,
                  overdue |-> ord.overdue, cancelRequested |-> ord.cancelRequested]
    BY DEF TypeOK, RowTypes, OrderRow
  <1>3. TypeOK
    OBVIOUS
  <1> USE <1>3 DEF TypeOK, RowTypes
  <1>4. ASSUME NEW w \in Workers, StartPay(w)
        PROVE  RowTypes'
    BY <1>4 DEF StartPay, local, provider, PaymentRow, PayStatus, AttStatus, Live
  <1>5. ASSUME NEW w \in Workers, StartConfirm(w)
        PROVE  RowTypes'
    BY <1>5 DEF StartConfirm, local, provider
  <1>6. ASSUME NEW w \in Workers, StartCancel(w)
        PROVE  RowTypes'
    BY <1>2, <1>6 DEF StartCancel, local, provider, OrderRow
  <1>7. ASSUME NEW w \in Workers, StartProof(w)
        PROVE  RowTypes'
    BY <1>7 DEF StartProof, local, provider
  <1>8. ASSUME NEW w \in Workers, StartRecover(w)
        PROVE  RowTypes'
    BY <1>8 DEF StartRecover, local, provider
  <1>9. ASSUME NEW w \in Workers, StartSweep(w)
        PROVE  RowTypes'
    BY <1>9 DEF StartSweep, local, provider
  <1>10. ASSUME NEW w \in Workers, StartRefund(w)
        PROVE  RowTypes'
    BY <1>10 DEF StartRefund, local, provider
  <1>11. ASSUME NEW w \in Workers, Retrieve(w)
        PROVE  RowTypes'
    BY <1>11 DEF Retrieve, local, provider, AttStatus
  <1>12. ASSUME NEW w \in Workers, Search(w)
        PROVE  RowTypes'
    BY <1>12 DEF Search, local, provider
  <1>13. ASSUME NEW w \in Workers, Abandon(w)
        PROVE  RowTypes'
    BY <1>13 DEF Abandon, local, provider, AttStatus
  <1>14. ASSUME NEW w \in Workers, Create(w)
        PROVE  RowTypes'
    BY <1>14 DEF Create, local, provider, IntentStatus
  <1>15. ASSUME NEW w \in Workers, Link(w)
        PROVE  RowTypes'
    <2>1. work[w].c \in Charges
      BY OnCharge, <1>15
    <2>2. att' \in [Charges -> AttStatus]
      BY <1>15 DEF Link, AttStatus
    <2>3. payment' \in PaymentRow
      BY <2>1, <1>15 DEF Link, PaymentRow
    <2>4. ord' \in OrderRow
      BY <2>1, <1>15 DEF Link, OrderRow
    <2> QED
      BY <2>1, <2>2, <2>3, <2>4, <1>15 DEF Link, provider
  <1>16. ASSUME NEW w \in Workers, UseIntent(w)
        PROVE  RowTypes'
    <2>1. work[w].c \in Charges
      BY OnCharge, <1>16
    <2> QED
      BY <2>1, <1>16 DEF UseIntent, local, provider
  <1>17. ASSUME NEW w \in Workers, Settle(w)
        PROVE  RowTypes'
    <2>1. work[w].c \in Charges
      BY OnCharge, <1>17
    <2>2. att' \in [Charges -> AttStatus]
      BY <1>17 DEF Settle, AttStatus
    <2>3. comp' \in [Charges -> CompRow]
      BY <2>1, RequestRefundTypes, <1>17 DEF Settle, Reasons
    <2>4. payment' \in PaymentRow /\ ord' \in OrderRow
      BY <2>1, SettledTypes, <1>17 DEF Settle
    <2> QED
      BY <2>1, <2>2, <2>3, <2>4, <1>17 DEF Settle, provider
  <1>18. ASSUME NEW w \in Workers, CancelAtProvider(w)
        PROVE  RowTypes'
    <2>1. work[w].c \in Charges
      BY OnCharge, <1>18
    <2>2. inbox' \subseteq Event
      BY <2>1, EmitTypes, <1>18 DEF CancelAtProvider, CancelPayment, EventKind
    <2> QED
      BY <2>2, <1>18 DEF CancelAtProvider, CancelPayment, IntentStatus, local
  <1>19. ASSUME NEW w \in Workers, CancelOrder(w)
        PROVE  RowTypes'
    BY ReleasedType, LiveClosedType, <1>19 DEF CancelOrder, provider
  <1>20. ASSUME NEW w \in Workers, MarkFailed(w)
        PROVE  RowTypes'
    BY <1>2, <1>20 DEF MarkFailed, local, provider, OrderRow, PaymentRow, PayStatus
  <1>21. ASSUME NEW w \in Workers, MarkIntentCanceled(w)
        PROVE  RowTypes'
    BY <1>21 DEF MarkIntentCanceled, local, provider, AttStatus
  <1>22. ASSUME NEW w \in Workers, MarkProcessed(w)
        PROVE  RowTypes'
    BY <1>22 DEF MarkProcessed, local, provider
  <1>23. ASSUME NEW w \in Workers, Resolve(w)
        PROVE  RowTypes'
    BY <1>23 DEF Resolve, local, provider
  <1>24. ASSUME NEW w \in Workers, Find(w)
        PROVE  RowTypes'
    BY <1>24 DEF Find, local, provider
  <1>25. ASSUME NEW w \in Workers, Ask(w)
        PROVE  RowTypes'
    BY <1>25 DEF Ask, local, provider
  <1>26. ASSUME NEW w \in Workers, Withdraw(w)
        PROVE  RowTypes'
    <2>1. work[w].c \in Charges
      BY OnCharge, <1>26
    <2>2. inbox' \subseteq Event
      BY <2>1, EmitTypes, <1>26 DEF Withdraw, CancelPayment, EventKind
    <2> QED
      BY <2>2, <1>26 DEF Withdraw, CancelPayment, IntentStatus, local
  <1>27. ASSUME NEW w \in Workers, Release(w)
        PROVE  RowTypes'
    BY ReleasedType, LiveClosedType, <1>27 DEF Release, provider
  <1>28. ASSUME NEW w \in Workers, HoldForReconciliation(w)
        PROVE  RowTypes'
    BY <1>2, <1>28 DEF HoldForReconciliation, local, provider, OrderRow
  <1>29. ASSUME NEW w \in Workers, Submit(w)
        PROVE  RowTypes'
    BY <1>29 DEF Submit, local, provider, LiveClosed, AttStatus, ProofStatus
  <1>30. ASSUME NEW w \in Workers, CallRefund(w)
        PROVE  RowTypes'
    <2>1. work[w].c \in Charges
      BY OnCharge, <1>30
    <2>2. inbox' \subseteq Event
      BY <2>1, EmitTypes, <1>30 DEF CallRefund, EventKind
    <2> QED
      BY <2>2, <1>30 DEF CallRefund, RefundStatus, local
  <1>31. ASSUME NEW w \in Workers, NoteRefund(w)
        PROVE  RowTypes'
    <2>1. work[w].c \in Charges
      BY OnCharge, <1>31
    <2>2. comp' \in [Charges -> CompRow]
      BY <2>1, CompensationTypes, <1>31 DEF NoteRefund, CompStatus
    <2> QED
      BY <2>2, <1>31 DEF NoteRefund, provider
  <1>32. ASSUME NEW w \in Workers, ReadCompensation(w)
        PROVE  RowTypes'
    BY <1>32 DEF ReadCompensation, local, provider
  <1>33. ASSUME NEW w \in Workers, MarkRefunded(w)
        PROVE  RowTypes'
    <2>1. work[w].c \in Charges
      BY OnCharge, <1>33
    <2>2. comp' \in [Charges -> CompRow]
      BY <2>1, CompensationTypes, <1>33 DEF MarkRefunded, CompStatus
    <2>3. payment' \in PaymentRow
      BY <2>1, <1>33 DEF MarkRefunded, PaymentRow, PayStatus
    <2>4. ord' \in OrderRow
      BY <1>33 DEF MarkRefunded, OrderRow, PayStatus
    <2> QED
      BY <2>2, <2>3, <2>4, <1>33 DEF MarkRefunded, provider
  <1>34. ASSUME NEW w \in Workers, Unanswered(w)
        PROVE  RowTypes'
    BY <1>34 DEF Unanswered, local, provider
  <1>35. ASSUME NEW w \in Workers, RefundRejected(w)
        PROVE  RowTypes'
    <2>1. work[w].c \in Charges
      BY OnCharge, <1>35
    <2>2. comp' \in [Charges -> CompRow]
      BY <2>1, CompensationTypes, <1>35 DEF RefundRejected, CompStatus
    <2> QED
      BY <2>2, <1>35 DEF RefundRejected, provider
  <1>36. ASSUME NEW w \in Workers, Crash(w)
        PROVE  RowTypes'
    BY <1>36 DEF Crash, local, provider
  <1>37. ASSUME NEW w \in Workers, NEW e \in inbox, StartEvent(w, e)
        PROVE  RowTypes'
    BY <1>37 DEF StartEvent, local, provider
  <1>38. ASSUME NEW c \in Charges, Pay(c)
        PROVE  RowTypes'
    BY <1>38 DEF Pay, local, provider, Emit, Event, EventKind, IntentStatus
  <1>39. ASSUME NEW c \in Charges, Taken(c)
        PROVE  RowTypes'
    BY <1>39 DEF Taken, local, provider, Emit, Event, EventKind, IntentStatus
  <1>40. ASSUME NEW c \in Charges, Declined(c)
        PROVE  RowTypes'
    BY <1>40 DEF Declined, local, provider, Emit, Event, EventKind, IntentStatus
  <1>41. ASSUME NEW c \in Charges, RefundClears(c)
        PROVE  RowTypes'
    BY <1>41 DEF RefundClears, local, provider, Emit, Event, EventKind, RefundStatus
  <1>42. ASSUME NEW c \in Charges, Age(c)
        PROVE  RowTypes'
    BY <1>42 DEF Age, local, provider
  <1>43. ASSUME Approve
        PROVE  RowTypes'
    BY SettledTypes, <1>43 DEF Approve, ProofStatus, provider
  <1>44. ASSUME Reject
        PROVE  RowTypes'
    <2>1. ord \in OrderRow /\ [ord EXCEPT !.pay = "FALLIDO"] \in OrderRow
      BY OrderPayType DEF PayStatus
    <2>2. ord' \in OrderRow
      BY <2>1, ReleasedType, <1>44 DEF Reject
    <2>3. att' \in [Charges -> AttStatus]
      BY LiveClosedType, <1>44 DEF Reject
    <2> QED
      BY <2>2, <2>3, <1>44 DEF Reject, provider, ProofStatus
  <1>45. ASSUME Return
        PROVE  RowTypes'
    BY <1>2, <1>45 DEF Return, local, provider, OrderRow, PayStatus
  <1>46. ASSUME StaffStatus
        PROVE  RowTypes'
    BY <1>2, <1>46 DEF StaffStatus, local, provider, OrderRow
  <1>47. ASSUME TimePasses
        PROVE  RowTypes'
    BY <1>2, <1>47 DEF TimePasses, local, provider, OrderRow
  <1> QED
    BY <1>4, <1>5, <1>6, <1>7, <1>8, <1>9, <1>10, <1>11, <1>12, <1>13, <1>14, <1>15, <1>16, <1>17, <1>18, <1>19, <1>20, <1>21, <1>22, <1>23, <1>24, <1>25, <1>26, <1>27, <1>28, <1>29, <1>30, <1>31, <1>32, <1>33, <1>34, <1>35, <1>36, <1>37, <1>38, <1>39, <1>40, <1>41, <1>42, <1>43, <1>44, <1>45, <1>46, <1>47 DEF Next, Request, Pass, Advance, Fault, Outside, Workers

-----------------------------------------------------------------------------
(* The invariant *)

\* When an order is paid, when a charge came too late for it, and when it takes
\* no new attempt for good or as long as its deadline stays passed.
Paid   == ord.pay \in {"COMPLETADO", "REEMBOLSADO"}
Late   == \E c \in Charges : comp[c].reason = "LATE_PAYMENT"
Sealed == Paid \/ ord.status = "CANCELADO" \/ ord.cancelRequested
Shut   == Sealed \/ ord.overdue

\* A request or a pass is about to create the PaymentIntent.
Creating(c) == \E w \in Workers : At(w, "create") /\ work[w].c = c

\* A charge that may still take the customer's money, or that took it and
\* waits to be kept or compensated.
Unresolved(c) ==
  \/ pi[c] \in {"OPEN", "PROCESSING"}
  \/ pi[c] = "NONE" /\ (att[c] = "CREATED" \/ Creating(c))
  \/ pi[c] = "SUCCEEDED" /\ ~Accounted(c)

\* Nobody uploads a proof of payment.
ProofsAside == proof = "NONE"

\* What a worker learned before is still so when it acts on it.
Knows(w) ==
  LET c == work[w].c IN
  /\ ~Does(w, "proof")
  /\ work[w].step \in {"retrieve", "got", "atProvider"} => c \in linked
  /\ At(w, "link") => pi[c] # "NONE"
  /\ work[w].step \in {"link", "got"} /\ work[w].saw = "SUCCEEDED" => pi[c] = "SUCCEEDED"
  /\ At(w, "settle") => pi[c] = "SUCCEEDED"
  /\ At(w, "close") => pi[c] = "CANCELED"
  /\ At(w, "create") => c \notin old
  /\ work[w].step \in {"search", "abandon"} => c \in old
  /\ At(w, "abandon") => pi[c] = "NONE"
  /\ work[w].step \in {"resolve", "find", "giveUp"} => Does(w, "sweep")
  /\ At(w, "find") => work[w].saw = "NONE"
  /\ work[w].step \in {"search", "create"} => ~Does(w, "sweep")
  /\ work[w].step \in {"fail", "close", "read", "refunded"} => work[w].saw # "succeeded"
  /\ work[w].step \in {"call", "note", "refunded"} => comp[c].status # "NONE"

TasksKnow == \A w \in Workers : Knows(w)

\* The database and the provider tell one story of each charge.
ChargeAgrees(c) ==
  /\ c \in linked => pi[c] # "NONE"
  /\ att[c] = "OPEN" => c \in linked
  /\ comp[c].status = "NONE" <=> comp[c].reason = "NONE"
  /\ comp[c].status # "NONE" => pi[c] = "SUCCEEDED" /\ (Paid \/ ord.status = "CANCELADO")
  /\ refund[c] # "NONE" => comp[c].status # "NONE"

\* An event tells what the provider did.
EventAgrees(e) ==
  /\ e.kind = "succeeded" => pi[e.c] = "SUCCEEDED"
  /\ e.kind = "canceled"  => pi[e.c] = "CANCELED"

ChargesAgree == (\A c \in Charges : ChargeAgrees(c)) /\ (\A e \in inbox : EventAgrees(e))

\* The order, its payment and its compensations tell one story.
OrderAgrees ==
  /\ payment.status = "COMPLETADO" => Paid /\ payment.tx \in Charges /\ pi[payment.tx] = "SUCCEEDED"
  /\ ord.pay = "COMPLETADO" => payment.status = "COMPLETADO" /\ ord.status # "CANCELADO"
  /\ Late => ord.status = "CANCELADO" /\ payment.status # "COMPLETADO"

\* No worker is done with the event of a charge that is not accounted for.
Remembered ==
  /\ \A c \in Charges : pi[c] = "SUCCEEDED" => [kind |-> "succeeded", c |-> c] \in inbox \/ Accounted(c)
  /\ \A w \in Workers : At(w, "done") /\ work[w].saw = "succeeded" => Accounted(work[w].c)

\* One charge at a time: an attempt that is given up while its charge may still
\* happen closes the order to new ones.
OneCharge ==
  /\ \A c, d \in Live : c = d
  /\ \A c, d \in Charges : Unresolved(c) /\ Unresolved(d) => c = d
  /\ \A c \in Charges \ Live : Unresolved(c) => Shut /\ Live = {}
  /\ Paid \/ Late => \A c \in Charges : ~Unresolved(c)

\* The order that a pass of the cron is working on takes no new attempt.
SweepShuts ==
  \A w \in Workers : Does(w, "sweep") =>
    /\ w \in Passes /\ Shut
    /\ work[w].step \in {"find", "link", "ask", "withdraw", "hold"} =>
         \A c \in Charges \ Live : Unresolved(c) => Sealed

\* What holds however many passes of the cron run.
BaseInv == TypeOK /\ ProofsAside /\ TasksKnow /\ ChargesAgree /\ OrderAgrees

\* What holds when they run one at a time.
IInv == BaseInv /\ Remembered /\ OneCharge /\ SweepShuts

\* Without returns, the charge that pays the order is never touched again.
KeptStands ==
  /\ payment.status = "COMPLETADO" => ord.pay = "COMPLETADO" /\ ord.intent = payment.tx
  /\ ord.pay = "REEMBOLSADO" => ord.status = "CANCELADO"
  /\ \A c \in Charges : Kept(c) => comp[c].status = "NONE"

-----------------------------------------------------------------------------
(* What settling, refunding and releasing leave *)

\* A compensation is requested once, and nothing else happens.
Compensates(c) ==
  /\ comp[c].status = "NONE"
  /\ comp'[c].status = "REQUESTED" /\ comp'[c].reason \in {"LATE_PAYMENT", "DUPLICATE_CHARGE"}
  /\ comp'[c].reason = "LATE_PAYMENT" => ~Paid /\ ord.status = "CANCELADO"
  /\ comp'[c].reason = "DUPLICATE_CHARGE" => Paid /\ ord.intent # c
  /\ \A d \in Charges \ {c} : comp'[d] = comp[d]
  /\ ord' = ord /\ payment' = payment /\ att' = att

\* The order is paid by this charge.
Keeps(c) ==
  /\ ~Paid /\ ord.status # "CANCELADO"
  /\ payment' = [status |-> "COMPLETADO", tx |-> c]
  /\ ord'.pay = "COMPLETADO" /\ ord'.status = "PROCESANDO" /\ ord'.intent = c
  /\ att'[c] = IF c \in linked THEN "SUCCEEDED" ELSE att[c]
  /\ \A d \in Charges \ {c} : att'[d] = att[d]
  /\ comp' = comp

\* settleInTx compensates the charge, keeps it, or finds that it has nothing to do.
LEMMA SettleOutcomes ==
  ASSUME TypeOK, NEW w \in Workers, Settle(w)
  PROVE  /\ \/ Compensates(work[w].c)
            \/ Keeps(work[w].c)
            \/ (Paid \/ comp[work[w].c].status # "NONE") /\ UNCHANGED <<ord, payment, att, comp>>
         /\ UNCHANGED <<linked, proof, pi, refund, inbox, old, known>>
  <1> DEFINE c == work[w].c
  <1>1. c \in Charges
    BY OnCharge
  <1>2. ASSUME NEW reason \in {"LATE_PAYMENT", "DUPLICATE_CHARGE"}, RequestRefund(c, reason)
        PROVE  \/ comp[c].status # "NONE" /\ comp' = comp
               \/ /\ comp[c].status = "NONE" /\ comp'[c].status = "REQUESTED" /\ comp'[c].reason = reason
                  /\ \A d \in Charges \ {c} : comp'[d] = comp[d]
    BY <1>1, <1>2 DEF RequestRefund, TypeOK, RowTypes
  <1>3. ASSUME Settled(c)
        PROVE  /\ payment' = [status |-> "COMPLETADO", tx |-> c]
               /\ ord'.pay = "COMPLETADO" /\ ord'.status = "PROCESANDO" /\ ord'.intent = c
    BY <1>1, <1>3 DEF Settled, TypeOK, RowTypes, OrderRow
  <1>4. UNCHANGED <<linked, proof, pi, refund, inbox, old, known>>
    BY DEF Settle, provider
  <1>5. CASE Paid /\ ord.intent = c /\ UNCHANGED <<ord, payment, att, comp>>
    BY <1>4, <1>5
  <1>6. CASE Paid /\ ord.intent # c /\ RequestRefund(c, "DUPLICATE_CHARGE") /\ UNCHANGED <<ord, payment, att>>
    BY <1>2, <1>4, <1>6 DEF Compensates
  <1>7. CASE ~Paid /\ ord.status = "CANCELADO" /\ RequestRefund(c, "LATE_PAYMENT") /\ UNCHANGED <<ord, payment, att>>
    BY <1>2, <1>4, <1>7 DEF Compensates
  <1>8. CASE /\ ~Paid /\ ord.status # "CANCELADO" /\ Settled(c)
             /\ att' = [att EXCEPT ![c] = IF c \in linked THEN "SUCCEEDED" ELSE @]
             /\ UNCHANGED comp
    <2>1. att'[c] = (IF c \in linked THEN "SUCCEEDED" ELSE att[c]) /\ \A d \in Charges \ {c} : att'[d] = att[d]
      BY <1>1, <1>8 DEF TypeOK, RowTypes
    <2> QED
      BY <1>3, <1>4, <1>8, <2>1 DEF Keeps
  <1> QED
    BY <1>5, <1>6, <1>7, <1>8 DEF Settle, Paid

\* A compensation that exists moves on; a late payment refunds the order.
CompensationMoves(c) ==
  /\ comp[c].status # "NONE" => comp'[c].status # "NONE" 
  /\ comp'[c].reason = comp[c].reason
  /\ \A d \in Charges \ {c} : comp'[d] = comp[d]

\* Whatever becomes of a refund, its compensation stays.
LEMMA CompensationOutcomes ==
  ASSUME TypeOK, NEW w \in Workers, NoteRefund(w) \/ RefundRejected(w) \/ MarkRefunded(w)
  PROVE  CompensationMoves(work[w].c) /\ comp'[work[w].c].status # "NONE"
  <1>1. work[w].c \in Charges
    BY OnCharge
  <1> QED
    BY <1>1 DEF NoteRefund, RefundRejected, MarkRefunded, CompensationMoves, TypeOK, RowTypes, CompRow

\* Marking the refund of a late payment refunds the order too.
LEMMA RefundedOutcomes ==
  ASSUME TypeOK, NEW w \in Workers, MarkRefunded(w)
  PROVE  /\ comp[work[w].c].reason # "LATE_PAYMENT" => UNCHANGED <<ord, payment>>
         /\ comp[work[w].c].reason = "LATE_PAYMENT" =>
              /\ ord'.pay = "REEMBOLSADO" /\ ord'.status = ord.status /\ ord'.cancelRequested = ord.cancelRequested
              /\ ord'.overdue = ord.overdue /\ ord'.intent = ord.intent
              /\ payment'.status # "COMPLETADO"
         /\ UNCHANGED <<att, linked, proof, pi, refund, inbox, old, known>>
  BY DEF MarkRefunded, provider, TypeOK, RowTypes, OrderRow, PaymentRow

\* Releasing an order closes its live attempts.
LEMMA ReleaseOutcomes ==
  ASSUME TypeOK, NEW w \in Workers, CancelOrder(w) \/ Release(w)
  PROVE  /\ UNCHANGED <<payment, linked, comp, proof, pi, refund, inbox, old, known>>
         /\ \/ UNCHANGED <<ord, att>>
            \/ /\ ord.pay # "COMPLETADO" /\ ord'.status = "CANCELADO" /\ ord'.pay = ord.pay /\ ord'.intent = ord.intent
               /\ \A c \in Charges : att'[c] = IF c \in Live THEN "CANCELED" ELSE att[c]
  BY ZenonT(60) DEF CancelOrder, Release, Cancellable, Released, LiveClosed, provider, TypeOK, RowTypes, OrderRow

-----------------------------------------------------------------------------
(* What is never undone *)

\* What is true of a charge or of the order for good.
NothingUndone ==
  /\ linked \subseteq linked' /\ old \subseteq old' /\ proof' = proof
  /\ \A w \in Workers : work[w].c \notin old => work[w].c \notin old'
  /\ ord.status = "CANCELADO" => ord'.status = "CANCELADO"
  /\ Paid => Paid'
  /\ \A c \in Charges :
       /\ pi[c] \in {"SUCCEEDED", "CANCELED"} => pi'[c] = pi[c]
       /\ pi[c] # "NONE" => pi'[c] # "NONE"
       /\ c \in old /\ pi[c] = "NONE" => pi'[c] = "NONE"
       /\ comp[c].status # "NONE" => comp'[c].status # "NONE"
       /\ Accounted(c) => Accounted(c)'

\* No action undoes what is done: a released order, a charge that was taken,
\* withdrawn or accounted for.
LEMMA UndoesNothing ==
  ASSUME TypeOK, ProofsAside, OrderAgrees, TasksKnow, Next
  PROVE  NothingUndone
  <1>0. TypeOK
    OBVIOUS
  <1> USE <1>0, OnCharge DEF NothingUndone, Paid, Accounted, Kept, local, provider
  <1>1. ASSUME NEW w \in Workers, StartPay(w)
        PROVE  NothingUndone
    BY <1>1 DEF StartPay, TypeOK, RowTypes, PaymentRow
  <1>2. ASSUME NEW w \in Workers, StartConfirm(w)
        PROVE  NothingUndone
    BY <1>2 DEF StartConfirm
  <1>3. ASSUME NEW w \in Workers, StartCancel(w)
        PROVE  NothingUndone
    BY <1>3 DEF StartCancel, TypeOK, RowTypes, OrderRow
  <1>4. ASSUME NEW w \in Workers, StartProof(w)
        PROVE  NothingUndone
    BY <1>4 DEF StartProof
  <1>5. ASSUME NEW w \in Workers, StartRecover(w)
        PROVE  NothingUndone
    BY <1>5 DEF StartRecover
  <1>6. ASSUME NEW w \in Workers, StartSweep(w)
        PROVE  NothingUndone
    BY <1>6 DEF StartSweep
  <1>7. ASSUME NEW w \in Workers, StartRefund(w)
        PROVE  NothingUndone
    BY <1>7 DEF StartRefund
  <1>8. ASSUME NEW w \in Workers, Retrieve(w)
        PROVE  NothingUndone
    BY <1>8 DEF Retrieve
  <1>9. ASSUME NEW w \in Workers, Search(w)
        PROVE  NothingUndone
    BY <1>9 DEF Search
  <1>10. ASSUME NEW w \in Workers, Abandon(w)
        PROVE  NothingUndone
    BY <1>10 DEF Abandon
  <1>11. ASSUME NEW w \in Workers, Create(w)
        PROVE  NothingUndone
    BY <1>11 DEF Create, TypeOK, RowTypes, TasksKnow, Knows, At
  <1>12. ASSUME NEW w \in Workers, Link(w)
        PROVE  NothingUndone
    BY <1>12 DEF Link, TypeOK, RowTypes, OrderRow, PaymentRow
  <1>13. ASSUME NEW w \in Workers, UseIntent(w)
        PROVE  NothingUndone
    BY <1>13 DEF UseIntent
  <1>14. ASSUME NEW w \in Workers, Settle(w)
        PROVE  NothingUndone
    <2>1. ASSUME NEW d \in Charges, Accounted(d)
          PROVE  Accounted(d)'
      BY <2>1, SettleOutcomes, <1>14 DEF Compensates, Keeps, OrderAgrees
    <2> QED
      BY <2>1, SettleOutcomes, <1>14 DEF Compensates, Keeps
  <1>15. ASSUME NEW w \in Workers, CancelAtProvider(w)
        PROVE  NothingUndone
    BY <1>15 DEF CancelAtProvider, CancelPayment, TypeOK, RowTypes
  <1>16. ASSUME NEW w \in Workers, CancelOrder(w)
        PROVE  NothingUndone
    BY ZenonT(60), <1>16 DEF CancelOrder, Released, TypeOK, RowTypes, OrderRow
  <1>17. ASSUME NEW w \in Workers, MarkFailed(w)
        PROVE  NothingUndone
    BY <1>17 DEF MarkFailed, TypeOK, RowTypes, OrderRow, PaymentRow
  <1>18. ASSUME NEW w \in Workers, MarkIntentCanceled(w)
        PROVE  NothingUndone
    BY <1>18 DEF MarkIntentCanceled
  <1>19. ASSUME NEW w \in Workers, MarkProcessed(w)
        PROVE  NothingUndone
    BY <1>19 DEF MarkProcessed
  <1>20. ASSUME NEW w \in Workers, Resolve(w)
        PROVE  NothingUndone
    BY <1>20 DEF Resolve
  <1>21. ASSUME NEW w \in Workers, Find(w)
        PROVE  NothingUndone
    BY <1>21 DEF Find
  <1>22. ASSUME NEW w \in Workers, Ask(w)
        PROVE  NothingUndone
    BY <1>22 DEF Ask
  <1>23. ASSUME NEW w \in Workers, Withdraw(w)
        PROVE  NothingUndone
    BY <1>23 DEF Withdraw, CancelPayment, TypeOK, RowTypes
  <1>24. ASSUME NEW w \in Workers, Release(w)
        PROVE  NothingUndone
    BY ZenonT(60), <1>24 DEF Release, Released, TypeOK, RowTypes, OrderRow
  <1>25. ASSUME NEW w \in Workers, HoldForReconciliation(w)
        PROVE  NothingUndone
    BY <1>25 DEF HoldForReconciliation, TypeOK, RowTypes, OrderRow
  <1>26. ASSUME NEW w \in Workers, Submit(w)
        PROVE  NothingUndone
    BY <1>26 DEF Submit, TasksKnow, Knows
  <1>27. ASSUME NEW w \in Workers, CallRefund(w)
        PROVE  NothingUndone
    BY <1>27 DEF CallRefund
  <1>28. ASSUME NEW w \in Workers, NoteRefund(w)
        PROVE  NothingUndone
    BY <1>28 DEF NoteRefund, TypeOK, RowTypes, CompRow
  <1>29. ASSUME NEW w \in Workers, ReadCompensation(w)
        PROVE  NothingUndone
    BY <1>29 DEF ReadCompensation
  <1>30. ASSUME NEW w \in Workers, MarkRefunded(w)
        PROVE  NothingUndone
    <2>1. work[w].c \in Charges
      BY <1>30
    <2>2. comp[work[w].c].reason = "LATE_PAYMENT" => Late
      BY <2>1 DEF Late
    <2> QED
      BY <2>1, <2>2, CompensationOutcomes, RefundedOutcomes, <1>30 DEF CompensationMoves, OrderAgrees
  <1>31. ASSUME NEW w \in Workers, Unanswered(w)
        PROVE  NothingUndone
    BY <1>31 DEF Unanswered
  <1>32. ASSUME NEW w \in Workers, RefundRejected(w)
        PROVE  NothingUndone
    BY <1>32 DEF RefundRejected, TypeOK, RowTypes, CompRow
  <1>33. ASSUME NEW w \in Workers, Crash(w)
        PROVE  NothingUndone
    BY <1>33 DEF Crash
  <1>34. ASSUME NEW w \in Workers, NEW e \in inbox, StartEvent(w, e)
        PROVE  NothingUndone
    BY <1>34 DEF StartEvent
  <1>35. ASSUME NEW c \in Charges, Pay(c)
        PROVE  NothingUndone
    BY <1>35 DEF Pay, TypeOK, RowTypes
  <1>36. ASSUME NEW c \in Charges, Taken(c)
        PROVE  NothingUndone
    BY <1>36 DEF Taken, TypeOK, RowTypes
  <1>37. ASSUME NEW c \in Charges, Declined(c)
        PROVE  NothingUndone
    BY <1>37 DEF Declined, TypeOK, RowTypes
  <1>38. ASSUME NEW c \in Charges, RefundClears(c)
        PROVE  NothingUndone
    BY <1>38 DEF RefundClears
  <1>39. ASSUME NEW c \in Charges, Age(c)
        PROVE  NothingUndone
    BY <1>39 DEF Age, Workers
  <1>40. ASSUME Approve
        PROVE  NothingUndone
    BY <1>40 DEF Approve, ProofsAside
  <1>41. ASSUME Reject
        PROVE  NothingUndone
    BY <1>41 DEF Reject, ProofsAside
  <1>42. ASSUME Return
        PROVE  NothingUndone
    BY <1>42 DEF Return, TypeOK, RowTypes, OrderRow
  <1>43. ASSUME StaffStatus
        PROVE  NothingUndone
    BY <1>43 DEF StaffStatus, TypeOK, RowTypes, OrderRow
  <1>44. ASSUME TimePasses
        PROVE  NothingUndone
    BY <1>44 DEF TimePasses, TypeOK, RowTypes, OrderRow
  <1> QED
    BY <1>1, <1>2, <1>3, <1>4, <1>5, <1>6, <1>7, <1>8, <1>9, <1>10, <1>11, <1>12, <1>13, <1>14, <1>15, <1>16, <1>17, <1>18, <1>19, <1>20, <1>21, <1>22, <1>23, <1>24, <1>25, <1>26, <1>27, <1>28, <1>29, <1>30, <1>31, <1>32, <1>33, <1>34, <1>35, <1>36, <1>37, <1>38, <1>39, <1>40, <1>41, <1>42, <1>43, <1>44 DEF Next, Request, Pass, Advance, Fault, Outside, Workers

-----------------------------------------------------------------------------
(* What workers know, and what the database and the provider agree on *)

\* Nobody else's knowledge is spoilt by a step.
LEMMA OthersKnow ==
  ASSUME TypeOK, TasksKnow, NothingUndone, NEW v \in Workers, work'[v] = work[v]
  PROVE  Knows(v)'
  <1>1. Knows(v) /\ (work[v].step \notin Unbound => work[v].c \in Charges)
    BY DEF TasksKnow, TypeOK, TaskTypes
  <1>2. /\ work[v].c \notin old => work[v].c \notin old'
        /\ work[v].c \in linked => work[v].c \in linked'
        /\ work[v].c \in old => work[v].c \in old'
    BY DEF NothingUndone
  <1>3. CASE work[v].step \in Unbound
    BY <1>1, <1>3 DEF Knows, Unbound, At, Does
  <1>4. CASE work[v].c \in Charges
    BY <1>1, <1>2, <1>4 DEF NothingUndone, Knows, At, Does
  <1> QED
    BY <1>1, <1>3, <1>4

\* A worker that arrives at a step knows what the step needs.
LEMMA ArrivesKnowing ==
  ASSUME TypeOK, TasksKnow, NothingUndone,
         NEW w \in Workers, NEW op, NEW step, NEW c, NEW saw, Moved(w, op, step, c, saw), op # "proof",
         step \in {"retrieve", "got", "atProvider"} => c \in linked',
         step = "link" => pi'[c] # "NONE",
         step \in {"link", "got"} /\ saw = "SUCCEEDED" => pi'[c] = "SUCCEEDED",
         step = "settle" => pi'[c] = "SUCCEEDED",
         step = "close" => pi'[c] = "CANCELED",
         step = "create" => c \notin old',
         step \in {"search", "abandon"} => c \in old',
         step = "abandon" => pi'[c] = "NONE",
         step \in {"resolve", "find", "giveUp"} => op = "sweep",
         step = "find" => saw = "NONE",
         step \in {"search", "create"} => op # "sweep",
         step \in {"fail", "close", "read", "refunded"} => saw # "succeeded",
         step \in {"call", "note", "refunded"} => comp'[c].status # "NONE"
  PROVE  TasksKnow'
  <1>1. /\ work'[w].op = op /\ work'[w].step = step /\ work'[w].c = c /\ work'[w].saw = saw
        /\ \A v \in Workers \ {w} : work'[v] = work[v]
    BY DEF Moved
  <1>2. Knows(w)'
    BY <1>1 DEF Knows, At, Does
  <1> QED
    BY <1>1, <1>2, OthersKnow DEF TasksKnow

\* What workers know stays so, whoever takes the step.
LEMMA KnowsStep ==
  ASSUME "proof" \notin Actors, TypeOK, ProofsAside, TasksKnow, ChargesAgree, OrderAgrees, Next
  PROVE  TasksKnow'
  <1>1. NothingUndone
    BY UndoesNothing
  <1>2. \A v \in Workers : work'[v] = work[v] => Knows(v)'
    BY <1>1, OthersKnow
  <1>3. TypeOK /\ TasksKnow /\ NothingUndone
    BY <1>1
  <1>4. \A w \in Workers : work[w].op \in Ops \ {"proof"} /\ work[w].saw \in Sights
    BY DEF TypeOK, TaskTypes, Task, TasksKnow, Knows, Does
  <1> USE <1>3, OnCharge, ArrivesKnowing DEF At, Does, local, provider
  <1>5. ASSUME NEW w \in Workers, StartPay(w)
        PROVE  TasksKnow'
    <2>1. PICK c \in Charges : Start(w, "pay", ObtainStep(c), c, "NONE")
      BY <1>5 DEF StartPay, Live
    <2>2. ObtainStep(c) \in Steps /\ Moved(w, "pay", ObtainStep(c), c, "NONE")
      BY <2>1, StartMoves DEF ObtainStep, Steps, Ops, Sights
    <2> QED
      BY <2>2, <1>5 DEF ObtainStep, StartPay
  <1>6. ASSUME NEW w \in Workers, StartConfirm(w)
        PROVE  TasksKnow'
    <2>1. PICK c \in linked : Start(w, "confirm", "got", c, pi[c])
      BY <1>6 DEF StartConfirm
    <2>2. c \in Charges /\ pi[c] \in Sights
      BY <2>1 DEF TypeOK, RowTypes, Sights
    <2>3. Moved(w, "confirm", "got", c, pi[c])
      BY <2>1, <2>2, StartMoves DEF Steps, Ops
    <2> QED
      BY <2>1, <2>3, <1>6 DEF StartConfirm
  <1>7. ASSUME NEW w \in Workers, StartCancel(w)
        PROVE  TasksKnow'
    BY <1>4, RestMoves, StartMoves, <1>7 DEF StartCancel, Steps, Ops, Sights, Live
  <1>8. ASSUME NEW w \in Workers, StartProof(w)
        PROVE  TasksKnow'
    BY <1>4, RestMoves, StartMoves, <1>8 DEF StartProof, Steps, Ops, Sights
  <1>9. ASSUME NEW w \in Workers, StartRecover(w)
        PROVE  TasksKnow'
    BY SMTT(30), <1>4, RestMoves, StartMoves, <1>9 DEF StartRecover, Steps, Ops, Sights, ObtainStep
  <1>10. ASSUME NEW w \in Workers, StartSweep(w)
        PROVE  TasksKnow'
    BY <1>4, RestMoves, StartMoves, <1>10 DEF StartSweep, Steps, Ops, Sights
  <1>11. ASSUME NEW w \in Workers, StartRefund(w)
        PROVE  TasksKnow'
    BY <1>4, SMTT(60), RestMoves, StartMoves, <1>11 DEF StartRefund, Steps, Ops, Sights
  <1>12. ASSUME NEW w \in Workers, Retrieve(w)
        PROVE  TasksKnow'
    <2>1. work[w].c \in Charges /\ work[w].c \in linked /\ pi[work[w].c] \in Sights
      BY <1>12 DEF Retrieve, TasksKnow, Knows, TypeOK, RowTypes, Sights
    <2>2. CASE Rest(w)
      BY <2>2, RestMoves
    <2>3. CASE Learn(w, "got", pi[work[w].c]) /\ UNCHANGED <<pi, linked>>
      <3>1. Moved(w, work[w].op, "got", work[w].c, pi[work[w].c])
        BY <2>1, <2>3, LearnMoves, <1>4 DEF Steps
      <3> QED
        BY <1>4, <2>1, <2>3, <3>1
    <2> QED
      BY <2>2, <2>3, <1>12 DEF Retrieve
  <1>13. ASSUME NEW w \in Workers, Search(w)
        PROVE  TasksKnow'
    <2>1. work[w].c \in Charges /\ work[w].c \in old /\ pi[work[w].c] \in Sights
      BY <1>13 DEF Search, TasksKnow, Knows, TypeOK, RowTypes, Sights
    <2>2. CASE pi[work[w].c] = "NONE" /\ Go(w, "abandon")
      <3>1. Moved(w, work[w].op, "abandon", work[w].c, work[w].saw)
        BY <2>2, GoMoves, <1>4 DEF Steps
      <3> QED
        BY <1>4, <2>1, <2>2, <3>1, <1>13 DEF Search
    <2>3. CASE pi[work[w].c] # "NONE" /\ Learn(w, "link", pi[work[w].c])
      <3>1. Moved(w, work[w].op, "link", work[w].c, pi[work[w].c])
        BY <2>1, <2>3, LearnMoves, <1>4 DEF Steps
      <3> QED
        BY <1>4, <2>1, <2>3, <3>1, <1>13 DEF Search
    <2> QED
      BY SMTT(60), <2>2, <2>3, <1>13 DEF Search
  <1>14. ASSUME NEW w \in Workers, Abandon(w)
        PROVE  TasksKnow'
    BY SMTT(60), <1>4, RestMoves, GoMoves, <1>14 DEF Abandon, Steps
  <1>15. ASSUME NEW w \in Workers, Create(w)
        PROVE  TasksKnow'
    <2>1. work[w].c \in Charges
      BY <1>15 DEF Create, TasksKnow, Knows
    <2> QED
      BY SMTT(60), <1>4, <2>1, RestMoves, GoMoves, LearnMoves, <1>15 DEF Create, Steps, Sights, IntentStatus, RefundStatus, TypeOK, RowTypes
  <1>16. ASSUME NEW w \in Workers, Link(w)
        PROVE  TasksKnow'
    <2>1. /\ work[w].c \in Charges /\ pi[work[w].c] # "NONE"
          /\ work[w].saw = "SUCCEEDED" => pi[work[w].c] = "SUCCEEDED"
      BY <1>16 DEF Link, TasksKnow, Knows
    <2>2. PICK step \in {"got", "ask"} : Go(w, step)
      BY <1>16 DEF Link
    <2>3. Moved(w, work[w].op, step, work[w].c, work[w].saw)
      BY <2>2, GoMoves, <1>4 DEF Steps
    <2> QED
      BY <1>4, <2>1, <2>3, <1>16 DEF Link
  <1>17. ASSUME NEW w \in Workers, UseIntent(w)
        PROVE  TasksKnow'
    <2>1. work[w].c \in Charges /\ work[w].c \in linked /\ (work[w].saw = "SUCCEEDED" => pi[work[w].c] = "SUCCEEDED")
      BY <1>17 DEF UseIntent, TasksKnow, Knows
    <2> QED
      BY SMTT(60), <1>4, <2>1, RestMoves, GoMoves, <1>17 DEF UseIntent, Steps
  <1>18. ASSUME NEW w \in Workers, Settle(w)
        PROVE  TasksKnow'
    BY <1>4, RestMoves, GoMoves, <1>18 DEF Settle, Steps, AfterSettle
  <1>19. ASSUME NEW w \in Workers, CancelAtProvider(w)
        PROVE  TasksKnow'
    <2>1. work[w].c \in Charges
      BY <1>19 DEF CancelAtProvider, TasksKnow, Knows
    <2> QED
      BY <1>4, <2>1, RestMoves, GoMoves, <1>19 DEF CancelAtProvider, Steps, CancelPayment, TypeOK, RowTypes
  <1>20. ASSUME NEW w \in Workers, CancelOrder(w)
        PROVE  TasksKnow'
    BY <1>4, RestMoves, <1>20 DEF CancelOrder, Steps
  <1>21. ASSUME NEW w \in Workers, MarkFailed(w)
        PROVE  TasksKnow'
    <2>1. work[w].c \in Charges /\ work[w].saw # "succeeded"
      BY <1>21 DEF MarkFailed, TasksKnow, Knows
    <2> QED
      BY <1>4, <2>1, RestMoves, GoMoves, <1>21 DEF MarkFailed, Steps
  <1>22. ASSUME NEW w \in Workers, MarkIntentCanceled(w)
        PROVE  TasksKnow'
    <2>1. work[w].c \in Charges /\ work[w].saw # "succeeded"
      BY <1>22 DEF MarkIntentCanceled, TasksKnow, Knows
    <2> QED
      BY <1>4, <2>1, RestMoves, GoMoves, <1>22 DEF MarkIntentCanceled, Steps
  <1>23. ASSUME NEW w \in Workers, MarkProcessed(w)
        PROVE  TasksKnow'
    BY <1>4, RestMoves, <1>23 DEF MarkProcessed, Steps
  <1>24. ASSUME NEW w \in Workers, Resolve(w)
        PROVE  TasksKnow'
    <2>1. Does(w, "sweep")
      BY <1>24 DEF Resolve, TasksKnow, Knows
    <2>2. CASE Go(w, "free")
      BY <2>2, GoMoves, <1>4 DEF Steps
    <2>3. ASSUME NEW c \in Live, Start(w, work[w].op, IF c \in linked THEN "ask" ELSE "find", c, "NONE")
          PROVE  TasksKnow'
      <3>1. PICK step \in {"ask", "find"} : Start(w, "sweep", step, c, "NONE")
        BY <2>1, <2>3
      <3>2. Moved(w, "sweep", step, c, "NONE")
        BY <3>1, StartMoves DEF Steps, Ops, Sights, Live
      <3> QED
        BY <3>1, <3>2
    <2> QED
      BY <2>2, <2>3, <1>24 DEF Resolve
  <1>25. ASSUME NEW w \in Workers, Find(w)
        PROVE  TasksKnow'
    <2>1. work[w].c \in Charges /\ Does(w, "sweep") /\ work[w].saw = "NONE"
      BY <1>25 DEF Find, TasksKnow, Knows
    <2> QED
      BY <1>4, <2>1, RestMoves, GoMoves, <1>25 DEF Find, Steps
  <1>26. ASSUME NEW w \in Workers, Ask(w)
        PROVE  TasksKnow'
    <2>1. work[w].c \in Charges
      BY <1>26 DEF Ask, TasksKnow, Knows
    <2> QED
      BY <1>4, <2>1, RestMoves, GoMoves, <1>26 DEF Ask, Steps
  <1>27. ASSUME NEW w \in Workers, Withdraw(w)
        PROVE  TasksKnow'
    <2>1. work[w].c \in Charges
      BY <1>27 DEF Withdraw, TasksKnow, Knows
    <2> QED
      BY <1>4, <2>1, RestMoves, GoMoves, <1>27 DEF Withdraw, Steps, CancelPayment, TypeOK, RowTypes
  <1>28. ASSUME NEW w \in Workers, Release(w)
        PROVE  TasksKnow'
    BY <1>4, RestMoves, <1>28 DEF Release, Steps
  <1>29. ASSUME NEW w \in Workers, HoldForReconciliation(w)
        PROVE  TasksKnow'
    BY <1>4, RestMoves, <1>29 DEF HoldForReconciliation, Steps
  <1>30. ASSUME NEW w \in Workers, Submit(w)
        PROVE  TasksKnow'
    BY <1>4, RestMoves, <1>30 DEF Submit, Steps
  <1>31. ASSUME NEW w \in Workers, CallRefund(w)
        PROVE  TasksKnow'
    <2>1. work[w].c \in Charges /\ comp[work[w].c].status # "NONE"
      BY <1>31 DEF CallRefund, TasksKnow, Knows
    <2> QED
      BY <1>4, <2>1, RestMoves, LearnMoves, <1>31 DEF CallRefund, Steps, Sights, IntentStatus, RefundStatus
  <1>32. ASSUME NEW w \in Workers, NoteRefund(w)
        PROVE  TasksKnow'
    BY <1>4, RestMoves, <1>32 DEF NoteRefund, Steps
  <1>33. ASSUME NEW w \in Workers, ReadCompensation(w)
        PROVE  TasksKnow'
    <2>1. work[w].c \in Charges /\ work[w].saw # "succeeded"
      BY <1>33 DEF ReadCompensation, TasksKnow, Knows
    <2> QED
      BY <1>4, <2>1, RestMoves, GoMoves, <1>33 DEF ReadCompensation, Steps
  <1>34. ASSUME NEW w \in Workers, MarkRefunded(w)
        PROVE  TasksKnow'
    <2>1. work[w].c \in Charges /\ work[w].saw # "succeeded"
      BY <1>34 DEF MarkRefunded, TasksKnow, Knows
    <2> QED
      BY SMTT(60), <1>4, <2>1, RestMoves, GoMoves, <1>34 DEF MarkRefunded, Steps
  <1>35. ASSUME NEW w \in Workers, Unanswered(w)
        PROVE  TasksKnow'
    BY <1>4, RestMoves, GoMoves, <1>35 DEF Unanswered, Steps
  <1>36. ASSUME NEW w \in Workers, RefundRejected(w)
        PROVE  TasksKnow'
    BY <1>4, RestMoves, <1>36 DEF RefundRejected, Steps
  <1>37. ASSUME NEW w \in Workers, Crash(w)
        PROVE  TasksKnow'
    BY <1>4, RestMoves, <1>37 DEF Crash, Steps
  <1>38. ASSUME NEW w \in Workers, NEW e \in inbox, StartEvent(w, e)
        PROVE  TasksKnow'
    <2>1. e.kind \in EventKind /\ e.c \in Charges /\ EventAgrees(e)
      BY DEF ChargesAgree, TypeOK, RowTypes, Event
    <2>2. PICK step \in {"settle", "fail", "close", "read"} :
            /\ Start(w, "event", step, e.c, e.kind)
            /\ step = "settle" <=> e.kind = "succeeded"
            /\ step = "close" <=> e.kind = "canceled"
      BY <2>1, <1>38 DEF StartEvent, EventKind
    <2>3. Moved(w, "event", step, e.c, e.kind)
      <3>1. step \in Steps /\ "event" \in Ops /\ e.kind \in Sights
        BY <2>1 DEF Steps, Ops, Sights
      <3> QED
        BY <2>1, <2>2, <3>1, StartMoves
    <2> QED
      BY <2>1, <2>2, <2>3, <1>38 DEF StartEvent, EventAgrees
  <1>39. ASSUME NEW c \in Charges, Pay(c)
        PROVE  TasksKnow'
    BY <1>2, <1>39 DEF Pay, TasksKnow
  <1>40. ASSUME NEW c \in Charges, Taken(c)
        PROVE  TasksKnow'
    BY <1>2, <1>40 DEF Taken, TasksKnow
  <1>41. ASSUME NEW c \in Charges, Declined(c)
        PROVE  TasksKnow'
    BY <1>2, <1>41 DEF Declined, TasksKnow
  <1>42. ASSUME NEW c \in Charges, RefundClears(c)
        PROVE  TasksKnow'
    BY <1>2, <1>42 DEF RefundClears, TasksKnow
  <1>43. ASSUME NEW c \in Charges, Age(c)
        PROVE  TasksKnow'
    BY <1>2, <1>43 DEF Age, TasksKnow
  <1>44. ASSUME Approve
        PROVE  TasksKnow'
    BY <1>2, <1>44 DEF Approve, TasksKnow
  <1>45. ASSUME Reject
        PROVE  TasksKnow'
    BY <1>2, <1>45 DEF Reject, TasksKnow
  <1>46. ASSUME Return
        PROVE  TasksKnow'
    BY <1>2, <1>46 DEF Return, TasksKnow
  <1>47. ASSUME StaffStatus
        PROVE  TasksKnow'
    BY <1>2, <1>47 DEF StaffStatus, TasksKnow
  <1>48. ASSUME TimePasses
        PROVE  TasksKnow'
    BY <1>2, <1>48 DEF TimePasses, TasksKnow
  <1> QED
    BY <1>5, <1>6, <1>7, <1>8, <1>9, <1>10, <1>11, <1>12, <1>13, <1>14, <1>15, <1>16, <1>17, <1>18, <1>19, <1>20, <1>21, <1>22, <1>23, <1>24, <1>25, <1>26, <1>27, <1>28, <1>29, <1>30, <1>31, <1>32, <1>33, <1>34, <1>35, <1>36, <1>37, <1>38, <1>39, <1>40, <1>41, <1>42, <1>43, <1>44, <1>45, <1>46, <1>47, <1>48 DEF Next, Request, Pass, Advance, Fault, Outside, Workers

\* A charge whose rows a step leaves alone agrees as before.
LEMMA ChargeStays ==
  ASSUME NothingUndone, NEW c \in Charges, ChargeAgrees(c),
         c \in linked' => c \in linked, att'[c] = "OPEN" => att[c] = "OPEN",
         comp'[c] = comp[c], refund'[c] # "NONE" => refund[c] # "NONE",
         pi'[c] = "SUCCEEDED" => pi[c] = "SUCCEEDED"
  PROVE  ChargeAgrees(c)'
  BY DEF ChargeAgrees, NothingUndone

\* Every action keeps the database and the provider in agreement.
LEMMA ChargesStep ==
  ASSUME "proof" \notin Actors, TypeOK, ProofsAside, TasksKnow, ChargesAgree, OrderAgrees, Next
  PROVE  ChargesAgree'
  <1>1. NothingUndone
    BY UndoesNothing
  <1>2. TypeOK /\ ChargesAgree
    OBVIOUS
  <1>3. ASSUME NEW kind \in EventKind, NEW c \in Charges, \A d \in Charges : ChargeAgrees(d)',
               inbox' \subseteq inbox \/ Emit(kind, c),
               kind = "succeeded" => pi'[c] = "SUCCEEDED", kind = "canceled" => pi'[c] = "CANCELED"
        PROVE  ChargesAgree'
    <2>1. ASSUME NEW e \in inbox
          PROVE  EventAgrees(e)'
      <3>1. e.c \in Charges /\ EventAgrees(e)
        BY DEF TypeOK, RowTypes, Event, ChargesAgree
      <3> QED
        BY <1>1, <3>1 DEF NothingUndone, EventAgrees
    <2>2. EventAgrees([kind |-> kind, c |-> c])'
      BY <1>3 DEF EventAgrees
    <2> QED
      BY <1>3, <2>1, <2>2 DEF Emit, ChargesAgree
  <1>4. ASSUME NEW c \in Charges
        PROVE  ChargeAgrees(c)
    BY DEF ChargesAgree
  <1>5. ASSUME \A d \in Charges : ChargeAgrees(d)', inbox' \subseteq inbox
        PROVE  ChargesAgree'
    BY <1>5, <1>3 DEF EventKind, ChargesAgree, TypeOK, RowTypes, Event, EventAgrees
  <1> USE <1>1, <1>2, <1>4, ChargeStays, OnCharge DEF local, provider
  <1>6. ASSUME NEW w \in Workers, StartPay(w)
        PROVE  ChargesAgree'
    BY <1>5, <1>6 DEF StartPay, TypeOK, RowTypes, Live
  <1>7. ASSUME NEW w \in Workers, StartConfirm(w)
        PROVE  ChargesAgree'
    BY <1>5, <1>7 DEF StartConfirm
  <1>8. ASSUME NEW w \in Workers, StartCancel(w)
        PROVE  ChargesAgree'
    BY <1>5, <1>8 DEF StartCancel, TypeOK, RowTypes
  <1>9. ASSUME NEW w \in Workers, StartProof(w)
        PROVE  ChargesAgree'
    BY <1>5, <1>9 DEF StartProof
  <1>10. ASSUME NEW w \in Workers, StartRecover(w)
        PROVE  ChargesAgree'
    BY <1>5, <1>10 DEF StartRecover
  <1>11. ASSUME NEW w \in Workers, StartSweep(w)
        PROVE  ChargesAgree'
    BY <1>5, <1>11 DEF StartSweep
  <1>12. ASSUME NEW w \in Workers, StartRefund(w)
        PROVE  ChargesAgree'
    BY <1>5, <1>12 DEF StartRefund
  <1>13. ASSUME NEW w \in Workers, Retrieve(w)
        PROVE  ChargesAgree'
    BY <1>5, <1>13 DEF Retrieve, TypeOK, RowTypes
  <1>14. ASSUME NEW w \in Workers, Search(w)
        PROVE  ChargesAgree'
    BY <1>5, <1>14 DEF Search
  <1>15. ASSUME NEW w \in Workers, Abandon(w)
        PROVE  ChargesAgree'
    BY <1>5, <1>15 DEF Abandon, TypeOK, RowTypes
  <1>16. ASSUME NEW w \in Workers, Create(w)
        PROVE  ChargesAgree'
    BY <1>5, <1>16 DEF Create, TypeOK, RowTypes
  <1>17. ASSUME NEW w \in Workers, Link(w)
        PROVE  ChargesAgree'
    <2>1. work[w].c \in Charges /\ pi[work[w].c] # "NONE" /\ pi' = pi
      BY <1>17 DEF Link, TasksKnow, Knows, At
    <2>2. ASSUME NEW d \in Charges
          PROVE  ChargeAgrees(d)'
      <3>1. CASE d = work[w].c
        BY <2>1, <3>1, <1>17 DEF Link, ChargeAgrees, NothingUndone
      <3>2. CASE d # work[w].c
        BY <3>2, <1>17 DEF Link, TypeOK, RowTypes
      <3> QED
        BY <3>1, <3>2
    <2> QED
      BY <1>5, <2>2, <1>17 DEF Link
  <1>18. ASSUME NEW w \in Workers, UseIntent(w)
        PROVE  ChargesAgree'
    BY <1>5, <1>18 DEF UseIntent
  <1>19. ASSUME NEW w \in Workers, Settle(w)
        PROVE  ChargesAgree'
    <2>1. work[w].c \in Charges /\ pi[work[w].c] = "SUCCEEDED"
      BY <1>19 DEF Settle, TasksKnow, Knows, At
    <2>2. ASSUME NEW d \in Charges
          PROVE  ChargeAgrees(d)'
      <3>1. CASE Compensates(work[w].c) /\ d = work[w].c
        BY SMTT(60), <2>1, <3>1, SettleOutcomes, <1>19 DEF Compensates, ChargeAgrees, NothingUndone
      <3>2. CASE ~(Compensates(work[w].c) /\ d = work[w].c)
        BY <2>1, <3>2, SettleOutcomes, <1>19 DEF Compensates, Keeps
      <3> QED
        BY <3>1, <3>2
    <2> QED
      BY <1>5, <2>2, SettleOutcomes, <1>19
  <1>20. ASSUME NEW w \in Workers, CancelAtProvider(w)
        PROVE  ChargesAgree'
    <2>1. work[w].c \in Charges
      BY <1>20
    <2>2. CASE UNCHANGED <<pi, inbox>>
      BY <1>5, <2>2, <1>20 DEF CancelAtProvider
    <2>3. CASE CancelPayment(work[w].c)
      <3>1. ASSUME NEW d \in Charges
            PROVE  ChargeAgrees(d)'
        BY <2>3, <1>20 DEF CancelAtProvider, CancelPayment, Emit, TypeOK, RowTypes
      <3> QED
        BY <1>3, <2>1, <2>3, <3>1 DEF CancelPayment, EventKind, TypeOK, RowTypes
    <2> QED
      BY <2>2, <2>3, <1>20 DEF CancelAtProvider
  <1>21. ASSUME NEW w \in Workers, CancelOrder(w)
        PROVE  ChargesAgree'
    BY <1>5, ReleaseOutcomes, <1>21
  <1>22. ASSUME NEW w \in Workers, MarkFailed(w)
        PROVE  ChargesAgree'
    BY <1>5, <1>22 DEF MarkFailed
  <1>23. ASSUME NEW w \in Workers, MarkIntentCanceled(w)
        PROVE  ChargesAgree'
    BY <1>5, <1>23 DEF MarkIntentCanceled, TypeOK, RowTypes
  <1>24. ASSUME NEW w \in Workers, MarkProcessed(w)
        PROVE  ChargesAgree'
    BY <1>5, <1>24 DEF MarkProcessed
  <1>25. ASSUME NEW w \in Workers, Resolve(w)
        PROVE  ChargesAgree'
    BY <1>5, <1>25 DEF Resolve
  <1>26. ASSUME NEW w \in Workers, Find(w)
        PROVE  ChargesAgree'
    BY <1>5, <1>26 DEF Find
  <1>27. ASSUME NEW w \in Workers, Ask(w)
        PROVE  ChargesAgree'
    BY <1>5, <1>27 DEF Ask
  <1>28. ASSUME NEW w \in Workers, Withdraw(w)
        PROVE  ChargesAgree'
    <2>1. work[w].c \in Charges
      BY <1>28
    <2>2. CASE UNCHANGED <<pi, inbox>>
      BY <1>5, <2>2, <1>28 DEF Withdraw
    <2>3. CASE CancelPayment(work[w].c)
      <3>1. ASSUME NEW d \in Charges
            PROVE  ChargeAgrees(d)'
        BY <2>3, <1>28 DEF Withdraw, CancelPayment, Emit, TypeOK, RowTypes
      <3> QED
        BY <1>3, <2>1, <2>3, <3>1 DEF CancelPayment, EventKind, TypeOK, RowTypes
    <2> QED
      BY <2>2, <2>3, <1>28 DEF Withdraw
  <1>29. ASSUME NEW w \in Workers, Release(w)
        PROVE  ChargesAgree'
    BY <1>5, ReleaseOutcomes, <1>29
  <1>30. ASSUME NEW w \in Workers, HoldForReconciliation(w)
        PROVE  ChargesAgree'
    BY <1>5, <1>30 DEF HoldForReconciliation
  <1>31. ASSUME NEW w \in Workers, Submit(w)
        PROVE  ChargesAgree'
    BY <1>31 DEF Submit, ProofsAside, TasksKnow, Knows
  <1>32. ASSUME NEW w \in Workers, CallRefund(w)
        PROVE  ChargesAgree'
    <2>1. work[w].c \in Charges /\ comp[work[w].c].status # "NONE"
      BY <1>32 DEF CallRefund, TasksKnow, Knows, At
    <2>2. inbox' = inbox \/ Emit("refunded", work[w].c)
      BY <1>32 DEF CallRefund
    <2>3. ASSUME NEW d \in Charges
          PROVE  ChargeAgrees(d)'
      <3>1. refund'[d] # "NONE" => comp[d].status # "NONE"
        <4>1. d # work[w].c => refund'[d] = refund[d]
          BY <2>1, <1>32 DEF CallRefund, TypeOK, RowTypes
        <4> QED
          BY <2>1, <4>1 DEF ChargeAgrees
      <3> QED
        BY <3>1, <1>32 DEF CallRefund, ChargeAgrees, NothingUndone
    <2> QED
      BY <1>3, <1>5, <2>1, <2>2, <2>3 DEF EventKind
  <1>33. ASSUME NEW w \in Workers, NoteRefund(w)
        PROVE  ChargesAgree'
    <2>1. work[w].c \in Charges /\ comp[work[w].c].status # "NONE"
      BY <1>33 DEF NoteRefund, TasksKnow, Knows, At
    <2>2. UNCHANGED <<att, linked, pi, refund, inbox>>
      BY <1>33 DEF NoteRefund
    <2>3. ASSUME NEW d \in Charges
          PROVE  ChargeAgrees(d)'
      <3>1. CASE d = work[w].c
        BY <2>1, <2>2, <3>1, CompensationOutcomes, <1>33 DEF CompensationMoves, ChargeAgrees, NothingUndone
      <3>2. CASE d # work[w].c
        BY <2>2, <3>2, CompensationOutcomes, <1>33 DEF CompensationMoves
      <3> QED
        BY <3>1, <3>2
    <2> QED
      BY <1>5, <2>2, <2>3
  <1>34. ASSUME NEW w \in Workers, ReadCompensation(w)
        PROVE  ChargesAgree'
    BY <1>5, <1>34 DEF ReadCompensation
  <1>35. ASSUME NEW w \in Workers, MarkRefunded(w)
        PROVE  ChargesAgree'
    <2>1. work[w].c \in Charges /\ comp[work[w].c].status # "NONE"
      BY <1>35 DEF MarkRefunded, TasksKnow, Knows, At
    <2>2. UNCHANGED <<att, linked, pi, refund, inbox>>
      BY <1>35 DEF MarkRefunded
    <2>3. ASSUME NEW d \in Charges
          PROVE  ChargeAgrees(d)'
      <3>1. CASE d = work[w].c
        BY <2>1, <2>2, <3>1, CompensationOutcomes, <1>35 DEF CompensationMoves, ChargeAgrees, NothingUndone
      <3>2. CASE d # work[w].c
        BY <2>2, <3>2, CompensationOutcomes, <1>35 DEF CompensationMoves
      <3> QED
        BY <3>1, <3>2
    <2> QED
      BY <1>5, <2>2, <2>3
  <1>36. ASSUME NEW w \in Workers, Unanswered(w)
        PROVE  ChargesAgree'
    BY <1>5, <1>36 DEF Unanswered
  <1>37. ASSUME NEW w \in Workers, RefundRejected(w)
        PROVE  ChargesAgree'
    <2>1. work[w].c \in Charges /\ comp[work[w].c].status # "NONE"
      BY <1>37 DEF RefundRejected, TasksKnow, Knows, At
    <2>2. UNCHANGED <<att, linked, pi, refund, inbox>>
      BY <1>37 DEF RefundRejected
    <2>3. ASSUME NEW d \in Charges
          PROVE  ChargeAgrees(d)'
      <3>1. CASE d = work[w].c
        BY <2>1, <2>2, <3>1, CompensationOutcomes, <1>37 DEF CompensationMoves, ChargeAgrees, NothingUndone
      <3>2. CASE d # work[w].c
        BY <2>2, <3>2, CompensationOutcomes, <1>37 DEF CompensationMoves
      <3> QED
        BY <3>1, <3>2
    <2> QED
      BY <1>5, <2>2, <2>3
  <1>38. ASSUME NEW w \in Workers, Crash(w)
        PROVE  ChargesAgree'
    BY <1>5, <1>38 DEF Crash
  <1>39. ASSUME NEW w \in Workers, NEW e \in inbox, StartEvent(w, e)
        PROVE  ChargesAgree'
    BY <1>5, <1>39 DEF StartEvent
  <1>40. ASSUME NEW c \in Charges, Pay(c)
        PROVE  ChargesAgree'
    <2>1. ASSUME NEW d \in Charges
          PROVE  ChargeAgrees(d)'
      <3>1. CASE pi'[d] = "SUCCEEDED" /\ d = c
        <4>1. ~(comp[c].status # "NONE") /\ pi[c] # "NONE"
          BY <1>40 DEF Pay, ChargeAgrees
        <4> QED
          BY <3>1, <4>1, <1>40 DEF Pay, ChargeAgrees, NothingUndone
      <3>2. CASE ~(pi'[d] = "SUCCEEDED" /\ d = c)
        BY <3>2, <1>40 DEF Pay, Emit, TypeOK, RowTypes
      <3> QED
        BY <3>1, <3>2
    <2> QED
      BY <1>3, <1>5, <2>1, <1>40 DEF Pay, EventKind, TypeOK, RowTypes
  <1>41. ASSUME NEW c \in Charges, Taken(c)
        PROVE  ChargesAgree'
    <2>1. ASSUME NEW d \in Charges
          PROVE  ChargeAgrees(d)'
      <3>1. CASE pi'[d] = "SUCCEEDED" /\ d = c
        <4>1. ~(comp[c].status # "NONE") /\ pi[c] # "NONE"
          BY <1>41 DEF Taken, ChargeAgrees
        <4> QED
          BY <3>1, <4>1, <1>41 DEF Taken, ChargeAgrees, NothingUndone
      <3>2. CASE ~(pi'[d] = "SUCCEEDED" /\ d = c)
        BY <3>2, <1>41 DEF Taken, Emit, TypeOK, RowTypes
      <3> QED
        BY <3>1, <3>2
    <2> QED
      BY <1>3, <1>5, <2>1, <1>41 DEF Taken, EventKind, TypeOK, RowTypes
  <1>42. ASSUME NEW c \in Charges, Declined(c)
        PROVE  ChargesAgree'
    <2>1. ASSUME NEW d \in Charges
          PROVE  ChargeAgrees(d)'
      <3>1. CASE pi'[d] = "SUCCEEDED" /\ d = c
        <4>1. ~(comp[c].status # "NONE") /\ pi[c] # "NONE"
          BY <1>42 DEF Declined, ChargeAgrees
        <4> QED
          BY <3>1, <4>1, <1>42 DEF Declined, ChargeAgrees, NothingUndone
      <3>2. CASE ~(pi'[d] = "SUCCEEDED" /\ d = c)
        BY <3>2, <1>42 DEF Declined, Emit, TypeOK, RowTypes
      <3> QED
        BY <3>1, <3>2
    <2> QED
      BY <1>3, <1>5, <2>1, <1>42 DEF Declined, EventKind, TypeOK, RowTypes
  <1>43. ASSUME NEW c \in Charges, RefundClears(c)
        PROVE  ChargesAgree'
    <2>1. ASSUME NEW d \in Charges
          PROVE  ChargeAgrees(d)'
      BY <1>43 DEF RefundClears, Emit, TypeOK, RowTypes
    <2> QED
      BY <1>3, <2>1, <1>43 DEF RefundClears, EventKind
  <1>44. ASSUME NEW c \in Charges, Age(c)
        PROVE  ChargesAgree'
    BY <1>5, <1>44 DEF Age
  <1>45. ASSUME Approve
        PROVE  ChargesAgree'
    BY <1>45 DEF Approve, ProofsAside, TasksKnow, Knows
  <1>46. ASSUME Reject
        PROVE  ChargesAgree'
    BY <1>46 DEF Reject, ProofsAside, TasksKnow, Knows
  <1>47. ASSUME Return
        PROVE  ChargesAgree'
    BY <1>5, <1>47 DEF Return
  <1>48. ASSUME StaffStatus
        PROVE  ChargesAgree'
    BY <1>5, <1>48 DEF StaffStatus
  <1>49. ASSUME TimePasses
        PROVE  ChargesAgree'
    BY <1>5, <1>49 DEF TimePasses
  <1> QED
    BY <1>6, <1>7, <1>8, <1>9, <1>10, <1>11, <1>12, <1>13, <1>14, <1>15, <1>16, <1>17, <1>18, <1>19, <1>20, <1>21, <1>22, <1>23, <1>24, <1>25, <1>26, <1>27, <1>28, <1>29, <1>30, <1>31, <1>32, <1>33, <1>34, <1>35, <1>36, <1>37, <1>38, <1>39, <1>40, <1>41, <1>42, <1>43, <1>44, <1>45, <1>46, <1>47, <1>48, <1>49 DEF Next, Request, Pass, Advance, Fault, Outside, Workers

-----------------------------------------------------------------------------
(* No charge is forgotten *)

\* The event of a taken charge is dropped by a worker that is done with it,
\* and a worker is done when the charge is accounted for.
LEMMA RememberStep ==
  ASSUME TypeOK, ProofsAside, TasksKnow, ChargesAgree, OrderAgrees, Remembered, OneCharge, Next
  PROVE  Remembered'
  <1>1. NothingUndone
    BY UndoesNothing
  <1>2. ASSUME \A c \in Charges : pi'[c] = "SUCCEEDED" => pi[c] = "SUCCEEDED" \/ [kind |-> "succeeded", c |-> c] \in inbox',
               \A e \in inbox : e \in inbox' \/ (e.kind = "succeeded" => Accounted(e.c)),
               \A v \in Workers : work'[v] = work[v] \/ work'[v].step # "done" \/ work'[v].saw # "succeeded"
        PROVE  Remembered'
    <2>1. ASSUME NEW c \in Charges, pi'[c] = "SUCCEEDED"
          PROVE  [kind |-> "succeeded", c |-> c] \in inbox' \/ Accounted(c)'
      BY <1>1, <1>2, <2>1 DEF Remembered, NothingUndone
    <2>2. ASSUME NEW v \in Workers, At(v, "done")', work'[v].saw = "succeeded"
          PROVE  Accounted(work[v].c)'
      <3>1. work'[v] = work[v]
        BY <1>2, <2>2 DEF At
      <3>2. PICK c \in Charges : c = work[v].c
        BY <2>2, <3>1 DEF At, TypeOK, TaskTypes, Unbound
      <3>3. Accounted(c)
        BY <2>2, <3>1, <3>2 DEF Remembered, At, Accounted, Kept
      <3> QED
        BY <1>1, <3>1, <3>2, <3>3 DEF NothingUndone, Accounted, Kept
    <2> QED
      BY <2>1, <2>2 DEF Remembered, At
  <1>3. ASSUME NEW w \in Workers, NEW op, NEW step, NEW c, NEW saw, Moved(w, op, step, c, saw),
               step # "done" \/ saw # "succeeded"
        PROVE  \A v \in Workers : work'[v] = work[v] \/ work'[v].step # "done" \/ work'[v].saw # "succeeded"
    BY <1>3 DEF Moved
  <1>4. TypeOK /\ \A w \in Workers : work[w].step \in Steps /\ work[w].op \in Ops /\ work[w].saw \in Sights
    BY DEF TypeOK, TaskTypes, Task
  <1>5. \A c \in Charges : pi[c] \in Sights
    BY DEF TypeOK, RowTypes, Sights
  <1>6. \A w \in Workers : work[w].step \in {"fail", "close", "read", "refunded"} => work[w].saw # "succeeded"
    BY DEF TasksKnow, Knows
  <1> USE <1>2, <1>3, <1>4, OnCharge, StartMoves, GoMoves, LearnMoves, RestMoves DEF Steps, local, provider
  <1>7. ASSUME NEW w \in Workers, StartPay(w)
        PROVE  Remembered'
    <2>1. PICK c \in Charges : Start(w, "pay", ObtainStep(c), c, "NONE")
      BY <1>7 DEF StartPay, Live
    <2>2. Moved(w, "pay", ObtainStep(c), c, "NONE")
      BY <2>1 DEF ObtainStep, Ops, Sights
    <2> QED
      BY <2>2, <1>7 DEF StartPay
  <1>8. ASSUME NEW w \in Workers, StartConfirm(w)
        PROVE  Remembered'
    <2>1. PICK c \in linked : Start(w, "confirm", "got", c, pi[c])
      BY <1>8 DEF StartConfirm
    <2>2. c \in Charges /\ pi[c] \in Sights
      BY <2>1, <1>5 DEF TypeOK, RowTypes
    <2>3. Moved(w, "confirm", "got", c, pi[c])
      BY <2>1, <2>2 DEF Ops
    <2> QED
      BY <2>3, <1>8 DEF StartConfirm
  <1>9. ASSUME NEW w \in Workers, StartCancel(w)
        PROVE  Remembered'
    BY <1>9 DEF StartCancel, Ops, Sights, Live
  <1>10. ASSUME NEW w \in Workers, StartProof(w)
        PROVE  Remembered'
    BY <1>10 DEF StartProof, Ops, Sights, Live
  <1>11. ASSUME NEW w \in Workers, StartRecover(w)
        PROVE  Remembered'
    <2>1. PICK c \in Charges : Start(w, "recover", ObtainStep(c), c, "NONE")
      BY <1>11 DEF StartRecover, Live
    <2>2. Moved(w, "recover", ObtainStep(c), c, "NONE")
      BY <2>1 DEF ObtainStep, Ops, Sights
    <2> QED
      BY <2>2, <1>11 DEF StartRecover
  <1>12. ASSUME NEW w \in Workers, StartSweep(w)
        PROVE  Remembered'
    BY <1>12 DEF StartSweep, Ops, Sights, Live
  <1>13. ASSUME NEW w \in Workers, StartRefund(w)
        PROVE  Remembered'
    BY <1>13 DEF StartRefund, Ops, Sights, Live
  <1>14. ASSUME NEW w \in Workers, Retrieve(w)
        PROVE  Remembered'
    <2>1. work[w].c \in Charges /\ pi[work[w].c] \in Sights
      BY <1>5, <1>14
    <2> QED
      BY <1>14, <2>1 DEF Retrieve
  <1>15. ASSUME NEW w \in Workers, Search(w)
        PROVE  Remembered'
    <2>1. work[w].c \in Charges /\ pi[work[w].c] \in Sights
      BY <1>5, <1>15
    <2> QED
      BY <1>15, <2>1 DEF Search
  <1>16. ASSUME NEW w \in Workers, Abandon(w)
        PROVE  Remembered'
    BY <1>16 DEF Abandon
  <1>17. ASSUME NEW w \in Workers, Create(w)
        PROVE  Remembered'
    BY <1>17 DEF Create, Sights, IntentStatus, RefundStatus, TypeOK, RowTypes
  <1>18. ASSUME NEW w \in Workers, Link(w)
        PROVE  Remembered'
    BY <1>18 DEF Link
  <1>19. ASSUME NEW w \in Workers, UseIntent(w)
        PROVE  Remembered'
    BY <1>19 DEF UseIntent
  <1>20. ASSUME NEW w \in Workers, Settle(w)
        PROVE  Remembered'
    <2>1. PICK c \in Charges : c = work[w].c
      BY SMTT(60), <1>20
    <2>2. /\ Moved(w, work[w].op, "done", c, work[w].saw) \/ Moved(w, "none", "idle", None, "NONE")
          /\ pi[c] = "SUCCEEDED" /\ UNCHANGED <<pi, inbox>>
      BY <2>1, <1>20 DEF Settle, AfterSettle, TasksKnow, Knows, At
    <2>3. Paid => Accounted(c)
      BY <2>2 DEF OneCharge, Unresolved
    <2>4. Accounted(c)'
      BY <2>1, <2>3, <1>20, SettleOutcomes DEF Compensates, Keeps, Accounted, Kept
    <2>5. ASSUME NEW v \in Workers, At(v, "done")', work'[v].saw = "succeeded"
          PROVE  Accounted(work[v].c)'
      <3>1. CASE v = w
        BY <2>2, <2>4, <2>5, <3>1 DEF Moved, Accounted, Kept, At
      <3>2. CASE v # w
        <4>1. work'[v] = work[v]
          BY <2>2, <3>2 DEF Moved
        <4>2. PICK d \in Charges : d = work[v].c
          BY <2>5, <4>1 DEF At, TypeOK, TaskTypes, Unbound
        <4>3. Accounted(d)
          BY SMTT(60), <2>5, <4>1, <4>2 DEF Remembered, At, Accounted, Kept
        <4> QED
          BY SMTT(60), <1>1, <4>1, <4>2, <4>3 DEF NothingUndone, Accounted, Kept
      <3> QED
        BY SMTT(60), <3>1, <3>2
    <2> QED
      BY <1>1, <2>2, <2>5 DEF Remembered, NothingUndone, At
  <1>21. ASSUME NEW w \in Workers, CancelAtProvider(w)
        PROVE  Remembered'
    BY <1>21 DEF CancelAtProvider, CancelPayment, Emit, TypeOK, RowTypes
  <1>22. ASSUME NEW w \in Workers, CancelOrder(w)
        PROVE  Remembered'
    BY <1>22 DEF CancelOrder
  <1>23. ASSUME NEW w \in Workers, MarkFailed(w)
        PROVE  Remembered'
    <2>1. work[w].saw # "succeeded" /\ UNCHANGED <<pi, inbox>>
      BY <1>6, <1>23 DEF MarkFailed, At
    <2> QED
      BY <2>1, <1>23 DEF MarkFailed
  <1>24. ASSUME NEW w \in Workers, MarkIntentCanceled(w)
        PROVE  Remembered'
    <2>1. work[w].saw # "succeeded" /\ UNCHANGED <<pi, inbox>>
      BY <1>6, <1>24 DEF MarkIntentCanceled, At
    <2> QED
      BY <2>1, <1>24 DEF MarkIntentCanceled
  <1>25. ASSUME NEW w \in Workers, MarkProcessed(w)
        PROVE  Remembered'
    <2>1. PICK c \in Charges : c = work[w].c
      BY <1>25
    <2>2. work[w].saw = "succeeded" => Accounted(c)
      BY <2>1, <1>25 DEF MarkProcessed, Remembered, At, Accounted, Kept
    <2>3. ASSUME NEW e \in inbox
          PROVE  e \in inbox' \/ (e.kind = "succeeded" => Accounted(e.c))
      BY <2>1, <2>2, <1>25 DEF MarkProcessed, Accounted, Kept
    <2> QED
      BY <2>3, <1>25 DEF MarkProcessed
  <1>26. ASSUME NEW w \in Workers, Resolve(w)
        PROVE  Remembered'
    BY <1>26 DEF Resolve, Live, Sights
  <1>27. ASSUME NEW w \in Workers, Find(w)
        PROVE  Remembered'
    BY <1>27 DEF Find
  <1>28. ASSUME NEW w \in Workers, Ask(w)
        PROVE  Remembered'
    BY <1>28 DEF Ask
  <1>29. ASSUME NEW w \in Workers, Withdraw(w)
        PROVE  Remembered'
    BY <1>29 DEF Withdraw, CancelPayment, Emit, TypeOK, RowTypes
  <1>30. ASSUME NEW w \in Workers, Release(w)
        PROVE  Remembered'
    BY <1>30 DEF Release
  <1>31. ASSUME NEW w \in Workers, HoldForReconciliation(w)
        PROVE  Remembered'
    BY <1>31 DEF HoldForReconciliation
  <1>32. ASSUME NEW w \in Workers, Submit(w)
        PROVE  Remembered'
    BY <1>32 DEF Submit
  <1>33. ASSUME NEW w \in Workers, CallRefund(w)
        PROVE  Remembered'
    BY <1>33 DEF CallRefund, Sights, IntentStatus, RefundStatus, Emit
  <1>34. ASSUME NEW w \in Workers, NoteRefund(w)
        PROVE  Remembered'
    BY <1>34 DEF NoteRefund
  <1>35. ASSUME NEW w \in Workers, ReadCompensation(w)
        PROVE  Remembered'
    <2>1. work[w].saw # "succeeded" /\ UNCHANGED <<pi, inbox>>
      BY <1>6, <1>35 DEF ReadCompensation, At
    <2> QED
      BY <2>1, <1>35 DEF ReadCompensation
  <1>36. ASSUME NEW w \in Workers, MarkRefunded(w)
        PROVE  Remembered'
    <2>1. work[w].saw # "succeeded" /\ UNCHANGED <<pi, inbox>>
      BY <1>6, <1>36 DEF MarkRefunded, At
    <2> QED
      BY <2>1, <1>36 DEF MarkRefunded
  <1>37. ASSUME NEW w \in Workers, Unanswered(w)
        PROVE  Remembered'
    BY <1>37 DEF Unanswered
  <1>38. ASSUME NEW w \in Workers, RefundRejected(w)
        PROVE  Remembered'
    BY <1>38 DEF RefundRejected
  <1>39. ASSUME NEW w \in Workers, Crash(w)
        PROVE  Remembered'
    BY <1>39 DEF Crash
  <1>40. ASSUME NEW w \in Workers, NEW e \in inbox, StartEvent(w, e)
        PROVE  Remembered'
    <2>1. e.kind \in EventKind /\ e.c \in Charges
      BY DEF TypeOK, RowTypes, Event
    <2>2. PICK step \in {"settle", "fail", "close", "read"} : Start(w, "event", step, e.c, e.kind)
      BY <2>1, <1>40 DEF StartEvent, EventKind
    <2>3. Moved(w, "event", step, e.c, e.kind)
      <3>1. e.kind \in Sights /\ e.c \in Charges \cup {None} /\ step \in Steps /\ "event" \in Ops
        BY <2>1 DEF Sights, Ops
      <3> QED
        BY <2>2, <3>1
    <2> QED
      BY <2>3, <1>40 DEF StartEvent
  <1>41. ASSUME NEW c \in Charges, Pay(c)
        PROVE  Remembered'
    BY <1>41 DEF Pay, Emit, TypeOK, RowTypes
  <1>42. ASSUME NEW c \in Charges, Taken(c)
        PROVE  Remembered'
    BY <1>42 DEF Taken, Emit, TypeOK, RowTypes
  <1>43. ASSUME NEW c \in Charges, Declined(c)
        PROVE  Remembered'
    BY <1>43 DEF Declined, Emit, TypeOK, RowTypes
  <1>44. ASSUME NEW c \in Charges, RefundClears(c)
        PROVE  Remembered'
    BY <1>44 DEF RefundClears, Emit
  <1>45. ASSUME NEW c \in Charges, Age(c)
        PROVE  Remembered'
    BY <1>45 DEF Age
  <1>46. ASSUME Approve
        PROVE  Remembered'
    BY <1>46 DEF Approve, ProofsAside
  <1>47. ASSUME Reject
        PROVE  Remembered'
    BY <1>47 DEF Reject, ProofsAside
  <1>48. ASSUME Return
        PROVE  Remembered'
    BY <1>48 DEF Return
  <1>49. ASSUME StaffStatus
        PROVE  Remembered'
    BY <1>49 DEF StaffStatus
  <1>50. ASSUME TimePasses
        PROVE  Remembered'
    BY <1>50 DEF TimePasses
  <1> QED
    BY <1>7, <1>8, <1>9, <1>10, <1>11, <1>12, <1>13, <1>14, <1>15, <1>16, <1>17, <1>18, <1>19, <1>20, <1>21, <1>22, <1>23, <1>24, <1>25, <1>26, <1>27, <1>28, <1>29, <1>30, <1>31, <1>32, <1>33, <1>34, <1>35, <1>36, <1>37, <1>38, <1>39, <1>40, <1>41, <1>42, <1>43, <1>44, <1>45, <1>46, <1>47, <1>48, <1>49, <1>50 DEF Next, Request, Pass, Advance, Fault, Outside, Workers

-----------------------------------------------------------------------------
(* Who makes a charge unresolved *)

\* Only a payment that starts makes a charge unresolved.
OpensNone ==
  /\ Live' \subseteq Live
  /\ \A c \in Charges : Unresolved(c)' => Unresolved(c)

\* Who creates a PaymentIntent does it for an attempt that has none yet.
NoNewCreator == \A c \in Charges : Creating(c)' => Creating(c) \/ att[c] = "CREATED"

\* A worker that moves to another step creates nothing.
LEMMA MovesElsewhere ==
  ASSUME NEW w \in Workers, NEW op, NEW step, NEW c, NEW saw, Moved(w, op, step, c, saw), step # "create"
  PROVE  NoNewCreator
  BY DEF Moved, NoNewCreator, Creating, At

\* Only a payment that starts, or a pass that recovers an attempt, goes to create.
LEMMA CreatorsStep ==
  ASSUME TypeOK, Next, ~ \E w \in Requests : StartPay(w)
  PROVE  NoNewCreator
  <1>1. UNCHANGED work => NoNewCreator
    BY DEF NoNewCreator, Creating, At
  <1>2. TypeOK /\ \A w \in Workers : work[w].step \in Steps /\ work[w].op \in Ops
    BY DEF TypeOK, TaskTypes, Task
  <1>3. \A c \in Charges : pi[c] \in Sights
    BY DEF TypeOK, RowTypes, Sights
  <1> USE <1>2, OnCharge, StartMoves, GoMoves, LearnMoves, RestMoves, MovesElsewhere DEF Steps
  <1>4. ASSUME NEW w \in Workers, StartConfirm(w)
        PROVE  NoNewCreator
    <2>1. PICK c \in linked : Start(w, "confirm", "got", c, pi[c])
      BY <1>4 DEF StartConfirm
    <2>2. c \in Charges /\ pi[c] \in Sights
      BY <2>1, <1>3 DEF TypeOK, RowTypes
    <2> QED
      BY <2>1, <2>2 DEF Ops
  <1>5. ASSUME NEW w \in Workers, StartCancel(w)
        PROVE  NoNewCreator
    BY <1>5 DEF StartCancel, Ops, Sights, Live
  <1>6. ASSUME NEW w \in Workers, StartProof(w)
        PROVE  NoNewCreator
    BY <1>6 DEF StartProof, Ops, Sights, Live
  <1>7. ASSUME NEW w \in Workers, StartRecover(w)
        PROVE  NoNewCreator
    <2>1. PICK c \in Charges : att[c] = "CREATED" /\ Start(w, "recover", ObtainStep(c), c, "NONE")
      BY <1>7 DEF StartRecover
    <2>2. Moved(w, "recover", ObtainStep(c), c, "NONE")
      BY <2>1 DEF ObtainStep, Ops, Sights
    <2> QED
      BY <2>1, <2>2 DEF Moved, NoNewCreator, Creating, At
  <1>8. ASSUME NEW w \in Workers, StartSweep(w)
        PROVE  NoNewCreator
    BY <1>8 DEF StartSweep, Ops, Sights, Live
  <1>9. ASSUME NEW w \in Workers, StartRefund(w)
        PROVE  NoNewCreator
    BY <1>9 DEF StartRefund, Ops, Sights, Live
  <1>10. ASSUME NEW w \in Workers, Retrieve(w)
        PROVE  NoNewCreator
    <2>1. work[w].c \in Charges /\ pi[work[w].c] \in Sights
      BY <1>3, <1>10
    <2> QED
      BY <1>10, <2>1 DEF Retrieve
  <1>11. ASSUME NEW w \in Workers, Search(w)
        PROVE  NoNewCreator
    <2>1. work[w].c \in Charges /\ pi[work[w].c] \in Sights
      BY <1>3, <1>11
    <2> QED
      BY <1>11, <2>1 DEF Search
  <1>12. ASSUME NEW w \in Workers, Abandon(w)
        PROVE  NoNewCreator
    BY <1>12 DEF Abandon
  <1>13. ASSUME NEW w \in Workers, Create(w)
        PROVE  NoNewCreator
    BY <1>13 DEF Create, Sights, IntentStatus, RefundStatus
  <1>14. ASSUME NEW w \in Workers, Link(w)
        PROVE  NoNewCreator
    BY <1>14 DEF Link
  <1>15. ASSUME NEW w \in Workers, UseIntent(w)
        PROVE  NoNewCreator
    BY <1>15 DEF UseIntent
  <1>16. ASSUME NEW w \in Workers, Settle(w)
        PROVE  NoNewCreator
    BY <1>16 DEF Settle, AfterSettle
  <1>17. ASSUME NEW w \in Workers, CancelAtProvider(w)
        PROVE  NoNewCreator
    BY <1>17 DEF CancelAtProvider
  <1>18. ASSUME NEW w \in Workers, CancelOrder(w)
        PROVE  NoNewCreator
    BY <1>18 DEF CancelOrder
  <1>19. ASSUME NEW w \in Workers, MarkFailed(w)
        PROVE  NoNewCreator
    BY <1>19 DEF MarkFailed
  <1>20. ASSUME NEW w \in Workers, MarkIntentCanceled(w)
        PROVE  NoNewCreator
    BY <1>20 DEF MarkIntentCanceled
  <1>21. ASSUME NEW w \in Workers, MarkProcessed(w)
        PROVE  NoNewCreator
    BY <1>21 DEF MarkProcessed
  <1>22. ASSUME NEW w \in Workers, Resolve(w)
        PROVE  NoNewCreator
    BY <1>22 DEF Resolve, Live, Sights
  <1>23. ASSUME NEW w \in Workers, Find(w)
        PROVE  NoNewCreator
    BY <1>23 DEF Find
  <1>24. ASSUME NEW w \in Workers, Ask(w)
        PROVE  NoNewCreator
    BY <1>24 DEF Ask
  <1>25. ASSUME NEW w \in Workers, Withdraw(w)
        PROVE  NoNewCreator
    BY <1>25 DEF Withdraw
  <1>26. ASSUME NEW w \in Workers, Release(w)
        PROVE  NoNewCreator
    BY <1>26 DEF Release
  <1>27. ASSUME NEW w \in Workers, HoldForReconciliation(w)
        PROVE  NoNewCreator
    BY <1>27 DEF HoldForReconciliation
  <1>28. ASSUME NEW w \in Workers, Submit(w)
        PROVE  NoNewCreator
    BY <1>28 DEF Submit
  <1>29. ASSUME NEW w \in Workers, CallRefund(w)
        PROVE  NoNewCreator
    BY <1>29 DEF CallRefund, Sights, IntentStatus, RefundStatus
  <1>30. ASSUME NEW w \in Workers, NoteRefund(w)
        PROVE  NoNewCreator
    BY <1>30 DEF NoteRefund
  <1>31. ASSUME NEW w \in Workers, ReadCompensation(w)
        PROVE  NoNewCreator
    BY <1>31 DEF ReadCompensation
  <1>32. ASSUME NEW w \in Workers, MarkRefunded(w)
        PROVE  NoNewCreator
    BY <1>32 DEF MarkRefunded
  <1>33. ASSUME NEW w \in Workers, Unanswered(w)
        PROVE  NoNewCreator
    BY <1>33 DEF Unanswered
  <1>34. ASSUME NEW w \in Workers, RefundRejected(w)
        PROVE  NoNewCreator
    BY <1>34 DEF RefundRejected
  <1>35. ASSUME NEW w \in Workers, Crash(w)
        PROVE  NoNewCreator
    BY <1>35 DEF Crash
  <1>36. ASSUME NEW w \in Workers, NEW e \in inbox, StartEvent(w, e)
        PROVE  NoNewCreator
    <2>1. e.kind \in EventKind /\ e.c \in Charges
      BY DEF TypeOK, RowTypes, Event
    <2> QED
      BY <2>1, <1>36 DEF StartEvent, EventKind, Ops, Sights
  <1>37. ASSUME NEW c \in Charges, Pay(c)
        PROVE  NoNewCreator
    BY <1>1, <1>37 DEF Pay
  <1>38. ASSUME NEW c \in Charges, Taken(c)
        PROVE  NoNewCreator
    BY <1>1, <1>38 DEF Taken
  <1>39. ASSUME NEW c \in Charges, Declined(c)
        PROVE  NoNewCreator
    BY <1>1, <1>39 DEF Declined
  <1>40. ASSUME NEW c \in Charges, RefundClears(c)
        PROVE  NoNewCreator
    BY <1>1, <1>40 DEF RefundClears
  <1>41. ASSUME NEW c \in Charges, Age(c)
        PROVE  NoNewCreator
    BY <1>1, <1>41 DEF Age
  <1>42. ASSUME Approve
        PROVE  NoNewCreator
    BY <1>1, <1>42 DEF Approve
  <1>43. ASSUME Reject
        PROVE  NoNewCreator
    BY <1>1, <1>43 DEF Reject
  <1>44. ASSUME Return
        PROVE  NoNewCreator
    BY <1>1, <1>44 DEF Return
  <1>45. ASSUME StaffStatus
        PROVE  NoNewCreator
    BY <1>1, <1>45 DEF StaffStatus
  <1>46. ASSUME TimePasses
        PROVE  NoNewCreator
    BY <1>1, <1>46 DEF TimePasses
  <1> QED
    BY <1>4, <1>5, <1>6, <1>7, <1>8, <1>9, <1>10, <1>11, <1>12, <1>13, <1>14, <1>15, <1>16, <1>17, <1>18, <1>19, <1>20, <1>21, <1>22, <1>23, <1>24, <1>25, <1>26, <1>27, <1>28, <1>29, <1>30, <1>31, <1>32, <1>33, <1>34, <1>35, <1>36, <1>37, <1>38, <1>39, <1>40, <1>41, <1>42, <1>43, <1>44, <1>45, <1>46 DEF Next, Request, Pass, Advance, Fault, Outside, Workers

\* A charge that a step leaves resolved.
LEMMA StaysResolved ==
  ASSUME NothingUndone, NoNewCreator, NEW c \in Charges,
         pi'[c] = pi[c] \/ pi[c] \in {"OPEN", "PROCESSING"},
         att'[c] = "CREATED" => att[c] = "CREATED",
         Unresolved(c)'
  PROVE  Unresolved(c)
  <1>1. Accounted(c) => Accounted(c)'
    BY DEF NothingUndone
  <1>2. Creating(c)' => Creating(c) \/ att[c] = "CREATED"
    BY DEF NoNewCreator
  <1> QED
    BY <1>1, <1>2 DEF Unresolved

\* Without a payment that starts, no charge becomes unresolved and no attempt live.
LEMMA OpensNothing ==
  ASSUME TypeOK, ProofsAside, TasksKnow, OrderAgrees, Next, ~ \E w \in Requests : StartPay(w)
  PROVE  OpensNone
  <1>1. NothingUndone /\ NoNewCreator
    BY UndoesNothing, CreatorsStep
  <1>2. ASSUME \A c \in Charges :
                 /\ pi'[c] = pi[c] \/ pi[c] \in {"OPEN", "PROCESSING"}
                 /\ att'[c] = "CREATED" => att[c] = "CREATED"
                 /\ att'[c] = "OPEN" => att[c] \in {"CREATED", "OPEN"}
        PROVE  OpensNone
    BY <1>1, <1>2, StaysResolved DEF OpensNone, Live
  <1> USE OnCharge DEF local, provider
  <1>3. ASSUME NEW w \in Workers, StartConfirm(w)
        PROVE  OpensNone
    BY <1>2, <1>3 DEF StartConfirm
  <1>4. ASSUME NEW w \in Workers, StartCancel(w)
        PROVE  OpensNone
    BY <1>2, <1>4 DEF StartCancel
  <1>5. ASSUME NEW w \in Workers, StartProof(w)
        PROVE  OpensNone
    BY <1>2, <1>5 DEF StartProof
  <1>6. ASSUME NEW w \in Workers, StartRecover(w)
        PROVE  OpensNone
    BY <1>2, <1>6 DEF StartRecover
  <1>7. ASSUME NEW w \in Workers, StartSweep(w)
        PROVE  OpensNone
    BY <1>2, <1>7 DEF StartSweep
  <1>8. ASSUME NEW w \in Workers, StartRefund(w)
        PROVE  OpensNone
    BY <1>2, <1>8 DEF StartRefund
  <1>9. ASSUME NEW w \in Workers, Retrieve(w)
        PROVE  OpensNone
    BY <1>2, <1>9 DEF Retrieve, TypeOK, RowTypes
  <1>10. ASSUME NEW w \in Workers, Search(w)
        PROVE  OpensNone
    BY <1>2, <1>10 DEF Search
  <1>11. ASSUME NEW w \in Workers, Abandon(w)
        PROVE  OpensNone
    BY <1>2, <1>11 DEF Abandon, TypeOK, RowTypes
  <1>12. ASSUME NEW w \in Workers, Create(w)
        PROVE  OpensNone
    <2>1. work[w].c \in Charges /\ Creating(work[w].c)
      BY <1>12 DEF Create, Creating, At
    <2>2. ASSUME NEW c \in Charges, Unresolved(c)'
          PROVE  Unresolved(c)
      <3>1. CASE c = work[w].c /\ pi[c] = "NONE"
        BY <2>1, <3>1 DEF Unresolved
      <3>2. CASE ~(c = work[w].c /\ pi[c] = "NONE")
        BY <1>1, <2>1, <2>2, <3>2, StaysResolved, <1>12 DEF Create, TypeOK, RowTypes
      <3> QED
        BY <3>1, <3>2
    <2> QED
      BY <2>2, <1>12 DEF Create, OpensNone, Live
  <1>13. ASSUME NEW w \in Workers, Link(w)
        PROVE  OpensNone
    BY <1>2, <1>13 DEF Link, Live, TypeOK, RowTypes
  <1>14. ASSUME NEW w \in Workers, UseIntent(w)
        PROVE  OpensNone
    BY <1>2, <1>14 DEF UseIntent
  <1>15. ASSUME NEW w \in Workers, Settle(w)
        PROVE  OpensNone
    BY <1>2, SettleOutcomes, TypeOK, <1>15 DEF Compensates, Keeps
  <1>16. ASSUME NEW w \in Workers, CancelAtProvider(w)
        PROVE  OpensNone
    BY <1>2, <1>16 DEF CancelAtProvider, CancelPayment, TypeOK, RowTypes
  <1>17. ASSUME NEW w \in Workers, CancelOrder(w)
        PROVE  OpensNone
    BY <1>2, ReleaseOutcomes, TypeOK, <1>17
  <1>18. ASSUME NEW w \in Workers, MarkFailed(w)
        PROVE  OpensNone
    BY <1>2, <1>18 DEF MarkFailed
  <1>19. ASSUME NEW w \in Workers, MarkIntentCanceled(w)
        PROVE  OpensNone
    BY <1>2, <1>19 DEF MarkIntentCanceled, TypeOK, RowTypes
  <1>20. ASSUME NEW w \in Workers, MarkProcessed(w)
        PROVE  OpensNone
    BY <1>2, <1>20 DEF MarkProcessed
  <1>21. ASSUME NEW w \in Workers, Resolve(w)
        PROVE  OpensNone
    BY <1>2, <1>21 DEF Resolve
  <1>22. ASSUME NEW w \in Workers, Find(w)
        PROVE  OpensNone
    BY <1>2, <1>22 DEF Find
  <1>23. ASSUME NEW w \in Workers, Ask(w)
        PROVE  OpensNone
    BY <1>2, <1>23 DEF Ask
  <1>24. ASSUME NEW w \in Workers, Withdraw(w)
        PROVE  OpensNone
    BY <1>2, <1>24 DEF Withdraw, CancelPayment, TypeOK, RowTypes
  <1>25. ASSUME NEW w \in Workers, Release(w)
        PROVE  OpensNone
    BY <1>2, ReleaseOutcomes, TypeOK, <1>25
  <1>26. ASSUME NEW w \in Workers, HoldForReconciliation(w)
        PROVE  OpensNone
    BY <1>2, <1>26 DEF HoldForReconciliation
  <1>27. ASSUME NEW w \in Workers, Submit(w)
        PROVE  OpensNone
    BY <1>27 DEF Submit, ProofsAside, TasksKnow, Knows
  <1>28. ASSUME NEW w \in Workers, CallRefund(w)
        PROVE  OpensNone
    BY <1>2, <1>28 DEF CallRefund
  <1>29. ASSUME NEW w \in Workers, NoteRefund(w)
        PROVE  OpensNone
    BY <1>2, <1>29 DEF NoteRefund
  <1>30. ASSUME NEW w \in Workers, ReadCompensation(w)
        PROVE  OpensNone
    BY <1>2, <1>30 DEF ReadCompensation
  <1>31. ASSUME NEW w \in Workers, MarkRefunded(w)
        PROVE  OpensNone
    BY <1>2, <1>31 DEF MarkRefunded
  <1>32. ASSUME NEW w \in Workers, Unanswered(w)
        PROVE  OpensNone
    BY <1>2, <1>32 DEF Unanswered
  <1>33. ASSUME NEW w \in Workers, RefundRejected(w)
        PROVE  OpensNone
    BY <1>2, <1>33 DEF RefundRejected
  <1>34. ASSUME NEW w \in Workers, Crash(w)
        PROVE  OpensNone
    BY <1>2, <1>34 DEF Crash
  <1>35. ASSUME NEW w \in Workers, NEW e \in inbox, StartEvent(w, e)
        PROVE  OpensNone
    BY <1>2, <1>35 DEF StartEvent
  <1>36. ASSUME NEW c \in Charges, Pay(c)
        PROVE  OpensNone
    BY <1>2, <1>36 DEF Pay, TypeOK, RowTypes
  <1>37. ASSUME NEW c \in Charges, Taken(c)
        PROVE  OpensNone
    BY <1>2, <1>37 DEF Taken, TypeOK, RowTypes
  <1>38. ASSUME NEW c \in Charges, Declined(c)
        PROVE  OpensNone
    BY <1>2, <1>38 DEF Declined, TypeOK, RowTypes
  <1>39. ASSUME NEW c \in Charges, RefundClears(c)
        PROVE  OpensNone
    BY <1>2, <1>39 DEF RefundClears
  <1>40. ASSUME NEW c \in Charges, Age(c)
        PROVE  OpensNone
    BY <1>2, <1>40 DEF Age
  <1>41. ASSUME Approve
        PROVE  OpensNone
    BY <1>41 DEF Approve, ProofsAside, TasksKnow, Knows
  <1>42. ASSUME Reject
        PROVE  OpensNone
    BY <1>42 DEF Reject, ProofsAside, TasksKnow, Knows
  <1>43. ASSUME Return
        PROVE  OpensNone
    BY <1>2, <1>43 DEF Return
  <1>44. ASSUME StaffStatus
        PROVE  OpensNone
    BY <1>2, <1>44 DEF StaffStatus
  <1>45. ASSUME TimePasses
        PROVE  OpensNone
    BY <1>2, <1>45 DEF TimePasses
  <1> QED
    BY <1>3, <1>4, <1>5, <1>6, <1>7, <1>8, <1>9, <1>10, <1>11, <1>12, <1>13, <1>14, <1>15, <1>16, <1>17, <1>18, <1>19, <1>20, <1>21, <1>22, <1>23, <1>24, <1>25, <1>26, <1>27, <1>28, <1>29, <1>30, <1>31, <1>32, <1>33, <1>34, <1>35, <1>36, <1>37, <1>38, <1>39, <1>40, <1>41, <1>42, <1>43, <1>44, <1>45 DEF Next, Request, Pass, Advance, Fault, Outside, Workers

-----------------------------------------------------------------------------
(* The order and its payment *)

\* Every action keeps the order and its payment in agreement.
LEMMA OrderStep ==
  ASSUME TypeOK, ProofsAside, TasksKnow, ChargesAgree, OrderAgrees, Next
  PROVE  OrderAgrees'
  <1>1. NothingUndone /\ TypeOK
    BY UndoesNothing
  <1>2. ASSUME payment'.status = "COMPLETADO" => payment' = payment,
               ord'.pay = "COMPLETADO" => ord.pay = "COMPLETADO",
               payment'.status = payment.status \/ ord'.pay # "COMPLETADO",
               ord'.status = ord.status \/ ord'.pay # "COMPLETADO",
               Late' => Late
        PROVE  OrderAgrees'
    BY <1>1, <1>2 DEF OrderAgrees, NothingUndone
  <1>3. comp' = comp => (Late' => Late)
    BY DEF Late
  <1> USE <1>1, <1>2, <1>3, OnCharge DEF local, provider
  <1>4. ASSUME NEW w \in Workers, StartPay(w)
        PROVE  OrderAgrees'
    BY <1>4 DEF StartPay, TypeOK, RowTypes, OrderRow, PaymentRow, OrderAgrees
  <1>5. ASSUME NEW w \in Workers, StartConfirm(w)
        PROVE  OrderAgrees'
    BY <1>5 DEF StartConfirm
  <1>6. ASSUME NEW w \in Workers, StartCancel(w)
        PROVE  OrderAgrees'
    BY <1>6 DEF StartCancel, TypeOK, RowTypes, OrderRow, PaymentRow
  <1>7. ASSUME NEW w \in Workers, StartProof(w)
        PROVE  OrderAgrees'
    BY <1>7 DEF StartProof
  <1>8. ASSUME NEW w \in Workers, StartRecover(w)
        PROVE  OrderAgrees'
    BY <1>8 DEF StartRecover
  <1>9. ASSUME NEW w \in Workers, StartSweep(w)
        PROVE  OrderAgrees'
    BY <1>9 DEF StartSweep
  <1>10. ASSUME NEW w \in Workers, StartRefund(w)
        PROVE  OrderAgrees'
    BY <1>10 DEF StartRefund
  <1>11. ASSUME NEW w \in Workers, Retrieve(w)
        PROVE  OrderAgrees'
    BY <1>11 DEF Retrieve
  <1>12. ASSUME NEW w \in Workers, Search(w)
        PROVE  OrderAgrees'
    BY <1>12 DEF Search
  <1>13. ASSUME NEW w \in Workers, Abandon(w)
        PROVE  OrderAgrees'
    BY <1>13 DEF Abandon
  <1>14. ASSUME NEW w \in Workers, Create(w)
        PROVE  OrderAgrees'
    BY <1>14 DEF Create
  <1>15. ASSUME NEW w \in Workers, Link(w)
        PROVE  OrderAgrees'
    BY <1>15 DEF Link, TypeOK, RowTypes, OrderRow, PaymentRow
  <1>16. ASSUME NEW w \in Workers, UseIntent(w)
        PROVE  OrderAgrees'
    BY <1>16 DEF UseIntent
  <1>17. ASSUME NEW w \in Workers, Settle(w)
        PROVE  OrderAgrees'
    <2>1. work[w].c \in Charges /\ pi[work[w].c] = "SUCCEEDED"
      BY <1>17 DEF Settle, TasksKnow, Knows, At
    <2>2. CASE Compensates(work[w].c)
      <3>1. Late' => ord.status = "CANCELADO"
        BY <2>1, <2>2 DEF Compensates, Late, OrderAgrees
      <3>2. Late' => payment.status # "COMPLETADO"
        BY <2>1, <2>2 DEF Compensates, Late, OrderAgrees
      <3> QED
        BY <2>2, <3>1, <3>2 DEF Compensates, OrderAgrees, NothingUndone
    <2>3. CASE Keeps(work[w].c)
      BY <2>1, <2>3 DEF Keeps, OrderAgrees, NothingUndone, Paid
    <2>4. CASE UNCHANGED <<ord, payment, att, comp>>
      BY <2>4
    <2> QED
      BY <2>2, <2>3, <2>4, SettleOutcomes, <1>17
  <1>18. ASSUME NEW w \in Workers, CancelAtProvider(w)
        PROVE  OrderAgrees'
    BY <1>18 DEF CancelAtProvider
  <1>19. ASSUME NEW w \in Workers, CancelOrder(w)
        PROVE  OrderAgrees'
    BY ReleaseOutcomes, <1>19
  <1>20. ASSUME NEW w \in Workers, MarkFailed(w)
        PROVE  OrderAgrees'
    BY <1>20 DEF MarkFailed, TypeOK, RowTypes, OrderRow, PaymentRow, OrderAgrees
  <1>21. ASSUME NEW w \in Workers, MarkIntentCanceled(w)
        PROVE  OrderAgrees'
    BY <1>21 DEF MarkIntentCanceled
  <1>22. ASSUME NEW w \in Workers, MarkProcessed(w)
        PROVE  OrderAgrees'
    BY <1>22 DEF MarkProcessed
  <1>23. ASSUME NEW w \in Workers, Resolve(w)
        PROVE  OrderAgrees'
    BY <1>23 DEF Resolve
  <1>24. ASSUME NEW w \in Workers, Find(w)
        PROVE  OrderAgrees'
    BY <1>24 DEF Find
  <1>25. ASSUME NEW w \in Workers, Ask(w)
        PROVE  OrderAgrees'
    BY <1>25 DEF Ask
  <1>26. ASSUME NEW w \in Workers, Withdraw(w)
        PROVE  OrderAgrees'
    BY <1>26 DEF Withdraw
  <1>27. ASSUME NEW w \in Workers, Release(w)
        PROVE  OrderAgrees'
    BY ReleaseOutcomes, <1>27
  <1>28. ASSUME NEW w \in Workers, HoldForReconciliation(w)
        PROVE  OrderAgrees'
    BY <1>28 DEF HoldForReconciliation, TypeOK, RowTypes, OrderRow, PaymentRow
  <1>29. ASSUME NEW w \in Workers, Submit(w)
        PROVE  OrderAgrees'
    BY <1>29 DEF Submit, ProofsAside, TasksKnow, Knows
  <1>30. ASSUME NEW w \in Workers, CallRefund(w)
        PROVE  OrderAgrees'
    BY <1>30 DEF CallRefund
  <1>31. ASSUME NEW w \in Workers, NoteRefund(w)
        PROVE  OrderAgrees'
    <2>1. Late' => Late
      BY CompensationOutcomes, <1>31 DEF CompensationMoves, Late
    <2> QED
      BY <2>1, <1>31 DEF NoteRefund
  <1>32. ASSUME NEW w \in Workers, ReadCompensation(w)
        PROVE  OrderAgrees'
    BY <1>32 DEF ReadCompensation
  <1>33. ASSUME NEW w \in Workers, MarkRefunded(w)
        PROVE  OrderAgrees'
    <2>1. Late' => Late
      BY CompensationOutcomes, <1>33 DEF CompensationMoves, Late
    <2> QED
      BY <2>1, RefundedOutcomes, <1>33 DEF Late
  <1>34. ASSUME NEW w \in Workers, Unanswered(w)
        PROVE  OrderAgrees'
    BY <1>34 DEF Unanswered
  <1>35. ASSUME NEW w \in Workers, RefundRejected(w)
        PROVE  OrderAgrees'
    <2>1. Late' => Late
      BY CompensationOutcomes, <1>35 DEF CompensationMoves, Late
    <2> QED
      BY <2>1, <1>35 DEF RefundRejected
  <1>36. ASSUME NEW w \in Workers, Crash(w)
        PROVE  OrderAgrees'
    BY <1>36 DEF Crash
  <1>37. ASSUME NEW w \in Workers, NEW e \in inbox, StartEvent(w, e)
        PROVE  OrderAgrees'
    BY <1>37 DEF StartEvent
  <1>38. ASSUME NEW c \in Charges, Pay(c)
        PROVE  OrderAgrees'
    BY <1>38 DEF Pay
  <1>39. ASSUME NEW c \in Charges, Taken(c)
        PROVE  OrderAgrees'
    BY <1>39 DEF Taken
  <1>40. ASSUME NEW c \in Charges, Declined(c)
        PROVE  OrderAgrees'
    BY <1>40 DEF Declined
  <1>41. ASSUME NEW c \in Charges, RefundClears(c)
        PROVE  OrderAgrees'
    BY <1>41 DEF RefundClears
  <1>42. ASSUME NEW c \in Charges, Age(c)
        PROVE  OrderAgrees'
    BY <1>42 DEF Age
  <1>43. ASSUME Approve
        PROVE  OrderAgrees'
    BY <1>43 DEF Approve, ProofsAside, TasksKnow, Knows
  <1>44. ASSUME Reject
        PROVE  OrderAgrees'
    BY <1>44 DEF Reject, ProofsAside, TasksKnow, Knows
  <1>45. ASSUME Return
        PROVE  OrderAgrees'
    BY <1>45 DEF Return, TypeOK, RowTypes, OrderRow, PaymentRow
  <1>46. ASSUME StaffStatus
        PROVE  OrderAgrees'
    BY <1>46 DEF StaffStatus, TypeOK, RowTypes, OrderRow, PaymentRow, OrderAgrees, NothingUndone
  <1>47. ASSUME TimePasses
        PROVE  OrderAgrees'
    BY <1>47 DEF TimePasses, TypeOK, RowTypes, OrderRow, PaymentRow
  <1> QED
    BY <1>4, <1>5, <1>6, <1>7, <1>8, <1>9, <1>10, <1>11, <1>12, <1>13, <1>14, <1>15, <1>16, <1>17, <1>18, <1>19, <1>20, <1>21, <1>22, <1>23, <1>24, <1>25, <1>26, <1>27, <1>28, <1>29, <1>30, <1>31, <1>32, <1>33, <1>34, <1>35, <1>36, <1>37, <1>38, <1>39, <1>40, <1>41, <1>42, <1>43, <1>44, <1>45, <1>46, <1>47 DEF Next, Request, Pass, Advance, Fault, Outside, Workers

-----------------------------------------------------------------------------
(* One charge at a time *)

\* An order that is paid, released or being cancelled stays so.
LEMMA SealStays ==
  ASSUME TypeOK, ProofsAside, NothingUndone, Next, Sealed
  PROVE  Sealed'
  <1> SUFFICES ASSUME ord.cancelRequested, ~Paid, ord.status # "CANCELADO"
               PROVE  Sealed'
    BY DEF Sealed, NothingUndone
  <1>1. ord' = ord => Sealed'
    BY DEF Sealed, Paid
  <1>2. ASSUME ord'.cancelRequested
        PROVE  Sealed'
    BY <1>2 DEF Sealed
  <1>3. TypeOK
    OBVIOUS
  <1> USE <1>1, <1>2, <1>3 DEF local, provider
  <1>4. ASSUME NEW w \in Workers, StartPay(w)
        PROVE  Sealed'
    BY <1>4 DEF StartPay
  <1>5. ASSUME NEW w \in Workers, StartConfirm(w)
        PROVE  Sealed'
    BY <1>5 DEF StartConfirm
  <1>6. ASSUME NEW w \in Workers, StartCancel(w)
        PROVE  Sealed'
    BY <1>6 DEF StartCancel, TypeOK, RowTypes, OrderRow
  <1>7. ASSUME NEW w \in Workers, StartProof(w)
        PROVE  Sealed'
    BY <1>7 DEF StartProof
  <1>8. ASSUME NEW w \in Workers, StartRecover(w)
        PROVE  Sealed'
    BY <1>8 DEF StartRecover
  <1>9. ASSUME NEW w \in Workers, StartSweep(w)
        PROVE  Sealed'
    BY <1>9 DEF StartSweep
  <1>10. ASSUME NEW w \in Workers, StartRefund(w)
        PROVE  Sealed'
    BY <1>10 DEF StartRefund
  <1>11. ASSUME NEW w \in Workers, Retrieve(w)
        PROVE  Sealed'
    BY <1>11 DEF Retrieve
  <1>12. ASSUME NEW w \in Workers, Search(w)
        PROVE  Sealed'
    BY <1>12 DEF Search
  <1>13. ASSUME NEW w \in Workers, Abandon(w)
        PROVE  Sealed'
    BY <1>13 DEF Abandon
  <1>14. ASSUME NEW w \in Workers, Create(w)
        PROVE  Sealed'
    BY <1>14 DEF Create
  <1>15. ASSUME NEW w \in Workers, Link(w)
        PROVE  Sealed'
    BY <1>15 DEF Link, TypeOK, RowTypes, OrderRow
  <1>16. ASSUME NEW w \in Workers, UseIntent(w)
        PROVE  Sealed'
    BY <1>16 DEF UseIntent
  <1>17. ASSUME NEW w \in Workers, Settle(w)
        PROVE  Sealed'
    BY SettleOutcomes, <1>17 DEF Compensates, Keeps, Sealed, Paid
  <1>18. ASSUME NEW w \in Workers, CancelAtProvider(w)
        PROVE  Sealed'
    BY <1>18 DEF CancelAtProvider
  <1>19. ASSUME NEW w \in Workers, CancelOrder(w)
        PROVE  Sealed'
    BY ReleaseOutcomes, <1>19 DEF Sealed
  <1>20. ASSUME NEW w \in Workers, MarkFailed(w)
        PROVE  Sealed'
    BY <1>20 DEF MarkFailed, TypeOK, RowTypes, OrderRow
  <1>21. ASSUME NEW w \in Workers, MarkIntentCanceled(w)
        PROVE  Sealed'
    BY <1>21 DEF MarkIntentCanceled
  <1>22. ASSUME NEW w \in Workers, MarkProcessed(w)
        PROVE  Sealed'
    BY <1>22 DEF MarkProcessed
  <1>23. ASSUME NEW w \in Workers, Resolve(w)
        PROVE  Sealed'
    BY <1>23 DEF Resolve
  <1>24. ASSUME NEW w \in Workers, Find(w)
        PROVE  Sealed'
    BY <1>24 DEF Find
  <1>25. ASSUME NEW w \in Workers, Ask(w)
        PROVE  Sealed'
    BY <1>25 DEF Ask
  <1>26. ASSUME NEW w \in Workers, Withdraw(w)
        PROVE  Sealed'
    BY <1>26 DEF Withdraw
  <1>27. ASSUME NEW w \in Workers, Release(w)
        PROVE  Sealed'
    BY ReleaseOutcomes, <1>27 DEF Sealed
  <1>28. ASSUME NEW w \in Workers, HoldForReconciliation(w)
        PROVE  Sealed'
    BY <1>28 DEF HoldForReconciliation, TypeOK, RowTypes, OrderRow
  <1>29. ASSUME NEW w \in Workers, Submit(w)
        PROVE  Sealed'
    BY <1>29 DEF Submit
  <1>30. ASSUME NEW w \in Workers, CallRefund(w)
        PROVE  Sealed'
    BY <1>30 DEF CallRefund
  <1>31. ASSUME NEW w \in Workers, NoteRefund(w)
        PROVE  Sealed'
    BY <1>31 DEF NoteRefund
  <1>32. ASSUME NEW w \in Workers, ReadCompensation(w)
        PROVE  Sealed'
    BY <1>32 DEF ReadCompensation
  <1>33. ASSUME NEW w \in Workers, MarkRefunded(w)
        PROVE  Sealed'
    BY RefundedOutcomes, <1>33
  <1>34. ASSUME NEW w \in Workers, Unanswered(w)
        PROVE  Sealed'
    BY <1>34 DEF Unanswered
  <1>35. ASSUME NEW w \in Workers, RefundRejected(w)
        PROVE  Sealed'
    BY <1>35 DEF RefundRejected
  <1>36. ASSUME NEW w \in Workers, Crash(w)
        PROVE  Sealed'
    BY <1>36 DEF Crash
  <1>37. ASSUME NEW w \in Workers, NEW e \in inbox, StartEvent(w, e)
        PROVE  Sealed'
    BY <1>37 DEF StartEvent
  <1>38. ASSUME NEW c \in Charges, Pay(c)
        PROVE  Sealed'
    BY <1>38 DEF Pay
  <1>39. ASSUME NEW c \in Charges, Taken(c)
        PROVE  Sealed'
    BY <1>39 DEF Taken
  <1>40. ASSUME NEW c \in Charges, Declined(c)
        PROVE  Sealed'
    BY <1>40 DEF Declined
  <1>41. ASSUME NEW c \in Charges, RefundClears(c)
        PROVE  Sealed'
    BY <1>41 DEF RefundClears
  <1>42. ASSUME NEW c \in Charges, Age(c)
        PROVE  Sealed'
    BY <1>42 DEF Age
  <1>43. ASSUME Approve
        PROVE  Sealed'
    BY <1>43 DEF Approve, ProofsAside
  <1>44. ASSUME Reject
        PROVE  Sealed'
    BY <1>44 DEF Reject, ProofsAside
  <1>45. ASSUME Return
        PROVE  Sealed'
    BY <1>45 DEF Return, TypeOK, RowTypes, OrderRow
  <1>46. ASSUME StaffStatus
        PROVE  Sealed'
    BY <1>46 DEF StaffStatus, TypeOK, RowTypes, OrderRow
  <1>47. ASSUME TimePasses
        PROVE  Sealed'
    BY <1>47 DEF TimePasses, TypeOK, RowTypes, OrderRow
  <1> QED
    BY <1>4, <1>5, <1>6, <1>7, <1>8, <1>9, <1>10, <1>11, <1>12, <1>13, <1>14, <1>15, <1>16, <1>17, <1>18, <1>19, <1>20, <1>21, <1>22, <1>23, <1>24, <1>25, <1>26, <1>27, <1>28, <1>29, <1>30, <1>31, <1>32, <1>33, <1>34, <1>35, <1>36, <1>37, <1>38, <1>39, <1>40, <1>41, <1>42, <1>43, <1>44, <1>45, <1>46, <1>47 DEF Next, Request, Pass, Advance, Fault, Outside, Workers

\* An expired order stays expired, unless a pass of the cron holds it.
LEMMA ShutStays ==
  ASSUME TypeOK, ProofsAside, NothingUndone, Next, Shut, ~ \E w \in Workers : HoldForReconciliation(w)
  PROVE  Shut'
  <1> SUFFICES ASSUME ord.overdue
               PROVE  Shut'
    BY SealStays DEF Shut
  <1>1. ord' = ord => Shut'
    BY DEF Shut, Sealed, Paid
  <1>2. ASSUME ord'.overdue
        PROVE  Shut'
    BY <1>2 DEF Shut
  <1>3. TypeOK
    OBVIOUS
  <1> USE <1>1, <1>2, <1>3 DEF local, provider
  <1>4. ASSUME NEW w \in Workers, StartPay(w)
        PROVE  Shut'
    BY <1>4 DEF StartPay
  <1>5. ASSUME NEW w \in Workers, StartConfirm(w)
        PROVE  Shut'
    BY <1>5 DEF StartConfirm
  <1>6. ASSUME NEW w \in Workers, StartCancel(w)
        PROVE  Shut'
    BY <1>6 DEF StartCancel, TypeOK, RowTypes, OrderRow
  <1>7. ASSUME NEW w \in Workers, StartProof(w)
        PROVE  Shut'
    BY <1>7 DEF StartProof
  <1>8. ASSUME NEW w \in Workers, StartRecover(w)
        PROVE  Shut'
    BY <1>8 DEF StartRecover
  <1>9. ASSUME NEW w \in Workers, StartSweep(w)
        PROVE  Shut'
    BY <1>9 DEF StartSweep
  <1>10. ASSUME NEW w \in Workers, StartRefund(w)
        PROVE  Shut'
    BY <1>10 DEF StartRefund
  <1>11. ASSUME NEW w \in Workers, Retrieve(w)
        PROVE  Shut'
    BY <1>11 DEF Retrieve
  <1>12. ASSUME NEW w \in Workers, Search(w)
        PROVE  Shut'
    BY <1>12 DEF Search
  <1>13. ASSUME NEW w \in Workers, Abandon(w)
        PROVE  Shut'
    BY <1>13 DEF Abandon
  <1>14. ASSUME NEW w \in Workers, Create(w)
        PROVE  Shut'
    BY <1>14 DEF Create
  <1>15. ASSUME NEW w \in Workers, Link(w)
        PROVE  Shut'
    BY <1>15 DEF Link, TypeOK, RowTypes, OrderRow
  <1>16. ASSUME NEW w \in Workers, UseIntent(w)
        PROVE  Shut'
    BY <1>16 DEF UseIntent
  <1>17. ASSUME NEW w \in Workers, Settle(w)
        PROVE  Shut'
    BY SettleOutcomes, <1>17 DEF Compensates, Keeps, Shut, Sealed, Paid
  <1>18. ASSUME NEW w \in Workers, CancelAtProvider(w)
        PROVE  Shut'
    BY <1>18 DEF CancelAtProvider
  <1>19. ASSUME NEW w \in Workers, CancelOrder(w)
        PROVE  Shut'
    BY ReleaseOutcomes, <1>19 DEF Shut, Sealed
  <1>20. ASSUME NEW w \in Workers, MarkFailed(w)
        PROVE  Shut'
    BY <1>20 DEF MarkFailed, TypeOK, RowTypes, OrderRow
  <1>21. ASSUME NEW w \in Workers, MarkIntentCanceled(w)
        PROVE  Shut'
    BY <1>21 DEF MarkIntentCanceled
  <1>22. ASSUME NEW w \in Workers, MarkProcessed(w)
        PROVE  Shut'
    BY <1>22 DEF MarkProcessed
  <1>23. ASSUME NEW w \in Workers, Resolve(w)
        PROVE  Shut'
    BY <1>23 DEF Resolve
  <1>24. ASSUME NEW w \in Workers, Find(w)
        PROVE  Shut'
    BY <1>24 DEF Find
  <1>25. ASSUME NEW w \in Workers, Ask(w)
        PROVE  Shut'
    BY <1>25 DEF Ask
  <1>26. ASSUME NEW w \in Workers, Withdraw(w)
        PROVE  Shut'
    BY <1>26 DEF Withdraw
  <1>27. ASSUME NEW w \in Workers, Release(w)
        PROVE  Shut'
    BY ReleaseOutcomes, <1>27 DEF Shut, Sealed
  <1>28. ASSUME NEW w \in Workers, Submit(w)
        PROVE  Shut'
    BY <1>28 DEF Submit
  <1>29. ASSUME NEW w \in Workers, CallRefund(w)
        PROVE  Shut'
    BY <1>29 DEF CallRefund
  <1>30. ASSUME NEW w \in Workers, NoteRefund(w)
        PROVE  Shut'
    BY <1>30 DEF NoteRefund
  <1>31. ASSUME NEW w \in Workers, ReadCompensation(w)
        PROVE  Shut'
    BY <1>31 DEF ReadCompensation
  <1>32. ASSUME NEW w \in Workers, MarkRefunded(w)
        PROVE  Shut'
    BY RefundedOutcomes, <1>32
  <1>33. ASSUME NEW w \in Workers, Unanswered(w)
        PROVE  Shut'
    BY <1>33 DEF Unanswered
  <1>34. ASSUME NEW w \in Workers, RefundRejected(w)
        PROVE  Shut'
    BY <1>34 DEF RefundRejected
  <1>35. ASSUME NEW w \in Workers, Crash(w)
        PROVE  Shut'
    BY <1>35 DEF Crash
  <1>36. ASSUME NEW w \in Workers, NEW e \in inbox, StartEvent(w, e)
        PROVE  Shut'
    BY <1>36 DEF StartEvent
  <1>37. ASSUME NEW c \in Charges, Pay(c)
        PROVE  Shut'
    BY <1>37 DEF Pay
  <1>38. ASSUME NEW c \in Charges, Taken(c)
        PROVE  Shut'
    BY <1>38 DEF Taken
  <1>39. ASSUME NEW c \in Charges, Declined(c)
        PROVE  Shut'
    BY <1>39 DEF Declined
  <1>40. ASSUME NEW c \in Charges, RefundClears(c)
        PROVE  Shut'
    BY <1>40 DEF RefundClears
  <1>41. ASSUME NEW c \in Charges, Age(c)
        PROVE  Shut'
    BY <1>41 DEF Age
  <1>42. ASSUME Approve
        PROVE  Shut'
    BY <1>42 DEF Approve, ProofsAside
  <1>43. ASSUME Reject
        PROVE  Shut'
    BY <1>43 DEF Reject, ProofsAside
  <1>44. ASSUME Return
        PROVE  Shut'
    BY <1>44 DEF Return, TypeOK, RowTypes, OrderRow
  <1>45. ASSUME StaffStatus
        PROVE  Shut'
    BY <1>45 DEF StaffStatus, TypeOK, RowTypes, OrderRow
  <1>46. ASSUME TimePasses
        PROVE  Shut'
    BY <1>46 DEF TimePasses, TypeOK, RowTypes, OrderRow
  <1> QED
    BY <1>4, <1>5, <1>6, <1>7, <1>8, <1>9, <1>10, <1>11, <1>12, <1>13, <1>14, <1>15, <1>16, <1>17, <1>18, <1>19, <1>20, <1>21, <1>22, <1>23, <1>24, <1>25, <1>26, <1>27, <1>28, <1>29, <1>30, <1>31, <1>32, <1>33, <1>34, <1>35, <1>36, <1>37, <1>38, <1>39, <1>40, <1>41, <1>42, <1>43, <1>44, <1>45, <1>46 DEF Next, Request, Pass, Advance, Fault, Outside, Workers

\* An attempt that ends leaves its charge resolved, or the order sealed; only
\* the pass that gives an attempt up relies on the order being expired.
LEMMA LeavesLive ==
  ASSUME "proof" \notin Actors, TypeOK, ProofsAside, TasksKnow, ChargesAgree, OrderAgrees, OneCharge, SweepShuts, Next,
         ~ \E w \in Requests : StartPay(w), NEW c \in Live, c \notin Live', Unresolved(c)'
  PROVE  Sealed' \/ \E w \in Workers : Does(w, "sweep") /\ At(w, "giveUp") /\ Abandon(w)
  <1>1. NothingUndone /\ NoNewCreator /\ TypeOK
    BY UndoesNothing, CreatorsStep
  <1>2. c \in Charges
    BY DEF Live
  <1>3. att' = att => FALSE
    BY DEF Live
  <1> USE <1>1, <1>2, <1>3 DEF local, provider
  <1>4. ASSUME NEW w \in Workers, StartConfirm(w)
        PROVE  Sealed' \/ \E v \in Workers : Does(v, "sweep") /\ At(v, "giveUp") /\ Abandon(v)
    BY <1>4 DEF StartConfirm
  <1>5. ASSUME NEW w \in Workers, StartCancel(w)
        PROVE  Sealed' \/ \E v \in Workers : Does(v, "sweep") /\ At(v, "giveUp") /\ Abandon(v)
    BY <1>5 DEF StartCancel
  <1>6. ASSUME NEW w \in Workers, StartProof(w)
        PROVE  Sealed' \/ \E v \in Workers : Does(v, "sweep") /\ At(v, "giveUp") /\ Abandon(v)
    BY <1>6 DEF StartProof
  <1>7. ASSUME NEW w \in Workers, StartRecover(w)
        PROVE  Sealed' \/ \E v \in Workers : Does(v, "sweep") /\ At(v, "giveUp") /\ Abandon(v)
    BY <1>7 DEF StartRecover
  <1>8. ASSUME NEW w \in Workers, StartSweep(w)
        PROVE  Sealed' \/ \E v \in Workers : Does(v, "sweep") /\ At(v, "giveUp") /\ Abandon(v)
    BY <1>8 DEF StartSweep
  <1>9. ASSUME NEW w \in Workers, StartRefund(w)
        PROVE  Sealed' \/ \E v \in Workers : Does(v, "sweep") /\ At(v, "giveUp") /\ Abandon(v)
    BY <1>9 DEF StartRefund
  <1>10. ASSUME NEW w \in Workers, Retrieve(w)
        PROVE  Sealed' \/ \E v \in Workers : Does(v, "sweep") /\ At(v, "giveUp") /\ Abandon(v)
    <2>1. pi[c] = "CANCELED" /\ pi' = pi
      BY <1>10 DEF Retrieve, Live, TypeOK, RowTypes
    <2> QED
      BY <2>1 DEF Unresolved
  <1>11. ASSUME NEW w \in Workers, Search(w)
        PROVE  Sealed' \/ \E v \in Workers : Does(v, "sweep") /\ At(v, "giveUp") /\ Abandon(v)
    BY <1>11 DEF Search
  <1>12. ASSUME NEW w \in Workers, Abandon(w)
        PROVE  Sealed' \/ \E v \in Workers : Does(v, "sweep") /\ At(v, "giveUp") /\ Abandon(v)
    <2>1. CASE At(w, "giveUp")
      BY <2>1, <1>12 DEF TasksKnow, Knows, At
    <2>2. CASE At(w, "abandon")
      <3>1. c = work[w].c /\ att'[c] # "CREATED" /\ pi' = pi
        BY <1>12 DEF Abandon, Live, TypeOK, RowTypes
      <3>2. c \in old /\ pi[c] = "NONE"
        BY <2>2, <3>1 DEF TasksKnow, Knows, At
      <3>3. ~Creating(c)
        BY <3>2 DEF Creating, TasksKnow, Knows, At
      <3>4. ~Creating(c)'
        BY <3>3, <2>2, <1>12, RestMoves DEF Abandon, Moved, Creating, At
      <3> QED
        BY <3>1, <3>2, <3>4 DEF Unresolved
    <2> QED
      BY <2>1, <2>2, <1>12 DEF Abandon
  <1>13. ASSUME NEW w \in Workers, Create(w)
        PROVE  Sealed' \/ \E v \in Workers : Does(v, "sweep") /\ At(v, "giveUp") /\ Abandon(v)
    BY <1>13 DEF Create
  <1>14. ASSUME NEW w \in Workers, Link(w)
        PROVE  Sealed' \/ \E v \in Workers : Does(v, "sweep") /\ At(v, "giveUp") /\ Abandon(v)
    BY <1>14 DEF Link, Live, TypeOK, RowTypes
  <1>15. ASSUME NEW w \in Workers, UseIntent(w)
        PROVE  Sealed' \/ \E v \in Workers : Does(v, "sweep") /\ At(v, "giveUp") /\ Abandon(v)
    BY <1>15 DEF UseIntent
  <1>16. ASSUME NEW w \in Workers, Settle(w)
        PROVE  Sealed' \/ \E v \in Workers : Does(v, "sweep") /\ At(v, "giveUp") /\ Abandon(v)
    BY SettleOutcomes, <1>16 DEF Compensates, Keeps, Sealed, Paid
  <1>17. ASSUME NEW w \in Workers, CancelAtProvider(w)
        PROVE  Sealed' \/ \E v \in Workers : Does(v, "sweep") /\ At(v, "giveUp") /\ Abandon(v)
    BY <1>17 DEF CancelAtProvider
  <1>18. ASSUME NEW w \in Workers, CancelOrder(w)
        PROVE  Sealed' \/ \E v \in Workers : Does(v, "sweep") /\ At(v, "giveUp") /\ Abandon(v)
    BY ReleaseOutcomes, <1>18 DEF Sealed
  <1>19. ASSUME NEW w \in Workers, MarkFailed(w)
        PROVE  Sealed' \/ \E v \in Workers : Does(v, "sweep") /\ At(v, "giveUp") /\ Abandon(v)
    BY <1>19 DEF MarkFailed
  <1>20. ASSUME NEW w \in Workers, MarkIntentCanceled(w)
        PROVE  Sealed' \/ \E v \in Workers : Does(v, "sweep") /\ At(v, "giveUp") /\ Abandon(v)
    <2>1. pi[c] = "CANCELED" /\ pi' = pi
      BY <1>20 DEF MarkIntentCanceled, TasksKnow, Knows, At, Live, TypeOK, RowTypes
    <2> QED
      BY <2>1 DEF Unresolved
  <1>21. ASSUME NEW w \in Workers, MarkProcessed(w)
        PROVE  Sealed' \/ \E v \in Workers : Does(v, "sweep") /\ At(v, "giveUp") /\ Abandon(v)
    BY <1>21 DEF MarkProcessed
  <1>22. ASSUME NEW w \in Workers, Resolve(w)
        PROVE  Sealed' \/ \E v \in Workers : Does(v, "sweep") /\ At(v, "giveUp") /\ Abandon(v)
    BY <1>22 DEF Resolve
  <1>23. ASSUME NEW w \in Workers, Find(w)
        PROVE  Sealed' \/ \E v \in Workers : Does(v, "sweep") /\ At(v, "giveUp") /\ Abandon(v)
    BY <1>23 DEF Find
  <1>24. ASSUME NEW w \in Workers, Ask(w)
        PROVE  Sealed' \/ \E v \in Workers : Does(v, "sweep") /\ At(v, "giveUp") /\ Abandon(v)
    BY <1>24 DEF Ask
  <1>25. ASSUME NEW w \in Workers, Withdraw(w)
        PROVE  Sealed' \/ \E v \in Workers : Does(v, "sweep") /\ At(v, "giveUp") /\ Abandon(v)
    BY <1>25 DEF Withdraw
  <1>26. ASSUME NEW w \in Workers, Release(w)
        PROVE  Sealed' \/ \E v \in Workers : Does(v, "sweep") /\ At(v, "giveUp") /\ Abandon(v)
    BY ReleaseOutcomes, <1>26 DEF Sealed
  <1>27. ASSUME NEW w \in Workers, HoldForReconciliation(w)
        PROVE  Sealed' \/ \E v \in Workers : Does(v, "sweep") /\ At(v, "giveUp") /\ Abandon(v)
    BY <1>27 DEF HoldForReconciliation
  <1>28. ASSUME NEW w \in Workers, Submit(w)
        PROVE  Sealed' \/ \E v \in Workers : Does(v, "sweep") /\ At(v, "giveUp") /\ Abandon(v)
    BY <1>28 DEF Submit, ProofsAside, TasksKnow, Knows
  <1>29. ASSUME NEW w \in Workers, CallRefund(w)
        PROVE  Sealed' \/ \E v \in Workers : Does(v, "sweep") /\ At(v, "giveUp") /\ Abandon(v)
    BY <1>29 DEF CallRefund
  <1>30. ASSUME NEW w \in Workers, NoteRefund(w)
        PROVE  Sealed' \/ \E v \in Workers : Does(v, "sweep") /\ At(v, "giveUp") /\ Abandon(v)
    BY <1>30 DEF NoteRefund
  <1>31. ASSUME NEW w \in Workers, ReadCompensation(w)
        PROVE  Sealed' \/ \E v \in Workers : Does(v, "sweep") /\ At(v, "giveUp") /\ Abandon(v)
    BY <1>31 DEF ReadCompensation
  <1>32. ASSUME NEW w \in Workers, MarkRefunded(w)
        PROVE  Sealed' \/ \E v \in Workers : Does(v, "sweep") /\ At(v, "giveUp") /\ Abandon(v)
    BY <1>32 DEF MarkRefunded
  <1>33. ASSUME NEW w \in Workers, Unanswered(w)
        PROVE  Sealed' \/ \E v \in Workers : Does(v, "sweep") /\ At(v, "giveUp") /\ Abandon(v)
    BY <1>33 DEF Unanswered
  <1>34. ASSUME NEW w \in Workers, RefundRejected(w)
        PROVE  Sealed' \/ \E v \in Workers : Does(v, "sweep") /\ At(v, "giveUp") /\ Abandon(v)
    BY <1>34 DEF RefundRejected
  <1>35. ASSUME NEW w \in Workers, Crash(w)
        PROVE  Sealed' \/ \E v \in Workers : Does(v, "sweep") /\ At(v, "giveUp") /\ Abandon(v)
    BY <1>35 DEF Crash
  <1>36. ASSUME NEW w \in Workers, NEW e \in inbox, StartEvent(w, e)
        PROVE  Sealed' \/ \E v \in Workers : Does(v, "sweep") /\ At(v, "giveUp") /\ Abandon(v)
    BY <1>36 DEF StartEvent
  <1>37. ASSUME NEW d \in Charges, Pay(d)
        PROVE  Sealed' \/ \E v \in Workers : Does(v, "sweep") /\ At(v, "giveUp") /\ Abandon(v)
    BY <1>37 DEF Pay
  <1>38. ASSUME NEW d \in Charges, Taken(d)
        PROVE  Sealed' \/ \E v \in Workers : Does(v, "sweep") /\ At(v, "giveUp") /\ Abandon(v)
    BY <1>38 DEF Taken
  <1>39. ASSUME NEW d \in Charges, Declined(d)
        PROVE  Sealed' \/ \E v \in Workers : Does(v, "sweep") /\ At(v, "giveUp") /\ Abandon(v)
    BY <1>39 DEF Declined
  <1>40. ASSUME NEW d \in Charges, RefundClears(d)
        PROVE  Sealed' \/ \E v \in Workers : Does(v, "sweep") /\ At(v, "giveUp") /\ Abandon(v)
    BY <1>40 DEF RefundClears
  <1>41. ASSUME NEW d \in Charges, Age(d)
        PROVE  Sealed' \/ \E v \in Workers : Does(v, "sweep") /\ At(v, "giveUp") /\ Abandon(v)
    BY <1>41 DEF Age
  <1>42. ASSUME Approve
        PROVE  Sealed' \/ \E v \in Workers : Does(v, "sweep") /\ At(v, "giveUp") /\ Abandon(v)
    BY <1>42 DEF Approve, ProofsAside, TasksKnow, Knows
  <1>43. ASSUME Reject
        PROVE  Sealed' \/ \E v \in Workers : Does(v, "sweep") /\ At(v, "giveUp") /\ Abandon(v)
    BY <1>43 DEF Reject, ProofsAside, TasksKnow, Knows
  <1>44. ASSUME Return
        PROVE  Sealed' \/ \E v \in Workers : Does(v, "sweep") /\ At(v, "giveUp") /\ Abandon(v)
    BY <1>44 DEF Return
  <1>45. ASSUME StaffStatus
        PROVE  Sealed' \/ \E v \in Workers : Does(v, "sweep") /\ At(v, "giveUp") /\ Abandon(v)
    BY <1>45 DEF StaffStatus
  <1>46. ASSUME TimePasses
        PROVE  Sealed' \/ \E v \in Workers : Does(v, "sweep") /\ At(v, "giveUp") /\ Abandon(v)
    BY <1>46 DEF TimePasses
  <1> QED
    BY <1>4, <1>5, <1>6, <1>7, <1>8, <1>9, <1>10, <1>11, <1>12, <1>13, <1>14, <1>15, <1>16, <1>17, <1>18, <1>19, <1>20, <1>21, <1>22, <1>23, <1>24, <1>25, <1>26, <1>27, <1>28, <1>29, <1>30, <1>31, <1>32, <1>33, <1>34, <1>35, <1>36, <1>37, <1>38, <1>39, <1>40, <1>41, <1>42, <1>43, <1>44, <1>45, <1>46 DEF Next, Request, Pass, Advance, Fault, Outside, Workers

\* Once the order is paid, or a charge came too late, nothing is unresolved.
LEMMA PaidResolves ==
  ASSUME TypeOK, ProofsAside, TasksKnow, ChargesAgree, OrderAgrees, OneCharge, OpensNone, Next, Paid' \/ Late',
         NEW c \in Charges
  PROVE  ~Unresolved(c)'
  <1>1. CASE Paid \/ Late
    BY <1>1 DEF OneCharge, OpensNone
  <1> SUFFICES ASSUME ~Paid, ~Late
               PROVE  ~Unresolved(c)'
    BY <1>1
  <1>2. ASSUME NEW w \in Workers, Settle(w)
        PROVE  ~Unresolved(c)'
    <2>1. PICK d \in Charges : d = work[w].c
      BY OnCharge, <1>2
    <2>2. pi[d] = "SUCCEEDED" /\ pi' = pi
      BY <1>2, <2>1, SettleOutcomes DEF Settle, TasksKnow, Knows, At
    <2>3. comp[d].status = "NONE" /\ Accounted(d)'
      <3>1. CASE Compensates(d)
        BY <3>1 DEF Compensates, Accounted
      <3>2. CASE Keeps(d)
        BY <3>2 DEF Keeps, Accounted, Kept, ChargesAgree, ChargeAgrees
      <3>3. CASE UNCHANGED <<ord, payment, att, comp>>
        BY <3>3 DEF Paid, Late
      <3> QED
        BY <1>2, <2>1, <3>1, <3>2, <3>3, SettleOutcomes
    <2>4. Unresolved(d)
      BY <2>2, <2>3 DEF Unresolved, Accounted, Kept, OrderAgrees
    <2>5. CASE c = d
      BY <2>2, <2>3, <2>5 DEF Unresolved
    <2>6. CASE c # d
      BY <2>4, <2>6 DEF OneCharge, OpensNone
    <2> QED
      BY <2>5, <2>6
  <1>3. TypeOK /\ (ord' = ord /\ comp' = comp => FALSE)
    BY DEF Paid, Late
  <1>4. \A w \in Workers : NoteRefund(w) \/ RefundRejected(w) \/ MarkRefunded(w) => ~Late'
    BY CompensationOutcomes, OnCharge DEF CompensationMoves, Late
  <1>5. comp' = comp => Paid'
    BY DEF Late
  <1> HIDE DEF Late
  <1> USE <1>3, <1>5 DEF Paid, local, provider
  <1>6. ASSUME NEW w \in Workers, StartPay(w)
        PROVE  ~Unresolved(c)'
    BY <1>6 DEF StartPay
  <1>7. ASSUME NEW w \in Workers, StartConfirm(w)
        PROVE  ~Unresolved(c)'
    BY <1>7 DEF StartConfirm
  <1>8. ASSUME NEW w \in Workers, StartCancel(w)
        PROVE  ~Unresolved(c)'
    BY <1>8 DEF StartCancel, TypeOK, RowTypes, OrderRow
  <1>9. ASSUME NEW w \in Workers, StartProof(w)
        PROVE  ~Unresolved(c)'
    BY <1>9 DEF StartProof
  <1>10. ASSUME NEW w \in Workers, StartRecover(w)
        PROVE  ~Unresolved(c)'
    BY <1>10 DEF StartRecover
  <1>11. ASSUME NEW w \in Workers, StartSweep(w)
        PROVE  ~Unresolved(c)'
    BY <1>11 DEF StartSweep
  <1>12. ASSUME NEW w \in Workers, StartRefund(w)
        PROVE  ~Unresolved(c)'
    BY <1>12 DEF StartRefund
  <1>13. ASSUME NEW w \in Workers, Retrieve(w)
        PROVE  ~Unresolved(c)'
    BY <1>13 DEF Retrieve
  <1>14. ASSUME NEW w \in Workers, Search(w)
        PROVE  ~Unresolved(c)'
    BY <1>14 DEF Search
  <1>15. ASSUME NEW w \in Workers, Abandon(w)
        PROVE  ~Unresolved(c)'
    BY <1>15 DEF Abandon
  <1>16. ASSUME NEW w \in Workers, Create(w)
        PROVE  ~Unresolved(c)'
    BY <1>16 DEF Create
  <1>17. ASSUME NEW w \in Workers, Link(w)
        PROVE  ~Unresolved(c)'
    BY <1>17 DEF Link, TypeOK, RowTypes, OrderRow
  <1>18. ASSUME NEW w \in Workers, UseIntent(w)
        PROVE  ~Unresolved(c)'
    BY <1>18 DEF UseIntent
  <1>19. ASSUME NEW w \in Workers, CancelAtProvider(w)
        PROVE  ~Unresolved(c)'
    BY <1>19 DEF CancelAtProvider
  <1>20. ASSUME NEW w \in Workers, CancelOrder(w)
        PROVE  ~Unresolved(c)'
    BY ReleaseOutcomes, <1>20
  <1>21. ASSUME NEW w \in Workers, MarkFailed(w)
        PROVE  ~Unresolved(c)'
    BY <1>21 DEF MarkFailed, TypeOK, RowTypes, OrderRow
  <1>22. ASSUME NEW w \in Workers, MarkIntentCanceled(w)
        PROVE  ~Unresolved(c)'
    BY <1>22 DEF MarkIntentCanceled
  <1>23. ASSUME NEW w \in Workers, MarkProcessed(w)
        PROVE  ~Unresolved(c)'
    BY <1>23 DEF MarkProcessed
  <1>24. ASSUME NEW w \in Workers, Resolve(w)
        PROVE  ~Unresolved(c)'
    BY <1>24 DEF Resolve
  <1>25. ASSUME NEW w \in Workers, Find(w)
        PROVE  ~Unresolved(c)'
    BY <1>25 DEF Find
  <1>26. ASSUME NEW w \in Workers, Ask(w)
        PROVE  ~Unresolved(c)'
    BY <1>26 DEF Ask
  <1>27. ASSUME NEW w \in Workers, Withdraw(w)
        PROVE  ~Unresolved(c)'
    BY <1>27 DEF Withdraw
  <1>28. ASSUME NEW w \in Workers, Release(w)
        PROVE  ~Unresolved(c)'
    BY ReleaseOutcomes, <1>28
  <1>29. ASSUME NEW w \in Workers, HoldForReconciliation(w)
        PROVE  ~Unresolved(c)'
    BY <1>29 DEF HoldForReconciliation, TypeOK, RowTypes, OrderRow
  <1>30. ASSUME NEW w \in Workers, Submit(w)
        PROVE  ~Unresolved(c)'
    BY <1>30 DEF Submit
  <1>31. ASSUME NEW w \in Workers, CallRefund(w)
        PROVE  ~Unresolved(c)'
    BY <1>31 DEF CallRefund
  <1>32. ASSUME NEW w \in Workers, NoteRefund(w)
        PROVE  ~Unresolved(c)'
    BY <1>4, <1>32 DEF NoteRefund
  <1>33. ASSUME NEW w \in Workers, ReadCompensation(w)
        PROVE  ~Unresolved(c)'
    BY <1>33 DEF ReadCompensation
  <1>34. ASSUME NEW w \in Workers, MarkRefunded(w)
        PROVE  ~Unresolved(c)'
    <2>1. comp[work[w].c].reason # "LATE_PAYMENT"
      BY OnCharge, <1>34 DEF Late
    <2> QED
      BY <1>4, <2>1, RefundedOutcomes, <1>34
  <1>35. ASSUME NEW w \in Workers, Unanswered(w)
        PROVE  ~Unresolved(c)'
    BY <1>35 DEF Unanswered
  <1>36. ASSUME NEW w \in Workers, RefundRejected(w)
        PROVE  ~Unresolved(c)'
    BY <1>4, <1>36 DEF RefundRejected
  <1>37. ASSUME NEW w \in Workers, Crash(w)
        PROVE  ~Unresolved(c)'
    BY <1>37 DEF Crash
  <1>38. ASSUME NEW w \in Workers, NEW e \in inbox, StartEvent(w, e)
        PROVE  ~Unresolved(c)'
    BY <1>38 DEF StartEvent
  <1>39. ASSUME NEW d \in Charges, Pay(d)
        PROVE  ~Unresolved(c)'
    BY <1>39 DEF Pay
  <1>40. ASSUME NEW d \in Charges, Taken(d)
        PROVE  ~Unresolved(c)'
    BY <1>40 DEF Taken
  <1>41. ASSUME NEW d \in Charges, Declined(d)
        PROVE  ~Unresolved(c)'
    BY <1>41 DEF Declined
  <1>42. ASSUME NEW d \in Charges, RefundClears(d)
        PROVE  ~Unresolved(c)'
    BY <1>42 DEF RefundClears
  <1>43. ASSUME NEW d \in Charges, Age(d)
        PROVE  ~Unresolved(c)'
    BY <1>43 DEF Age
  <1>44. ASSUME Approve
        PROVE  ~Unresolved(c)'
    BY <1>44 DEF Approve, ProofsAside
  <1>45. ASSUME Reject
        PROVE  ~Unresolved(c)'
    BY <1>45 DEF Reject, ProofsAside
  <1>46. ASSUME Return
        PROVE  ~Unresolved(c)'
    BY <1>46 DEF Return, TypeOK, RowTypes, OrderRow
  <1>47. ASSUME StaffStatus
        PROVE  ~Unresolved(c)'
    BY <1>47 DEF StaffStatus, TypeOK, RowTypes, OrderRow
  <1>48. ASSUME TimePasses
        PROVE  ~Unresolved(c)'
    BY <1>48 DEF TimePasses, TypeOK, RowTypes, OrderRow
  <1> QED
    BY <1>2, <1>6, <1>7, <1>8, <1>9, <1>10, <1>11, <1>12, <1>13, <1>14, <1>15, <1>16, <1>17, <1>18, <1>19, <1>20, <1>21, <1>22, <1>23, <1>24, <1>25, <1>26, <1>27, <1>28, <1>29, <1>30, <1>31, <1>32, <1>33, <1>34, <1>35, <1>36, <1>37, <1>38, <1>39, <1>40, <1>41, <1>42, <1>43, <1>44, <1>45, <1>46, <1>47, <1>48 DEF Next, Request, Pass, Advance, Fault, Outside, Workers

\* An open order gives its customer one charge, new or not.
LEMMA PayOpensOne ==
  ASSUME TypeOK, TasksKnow, ChargesAgree, OrderAgrees, OneCharge, NEW w \in Workers, StartPay(w)
  PROVE  OneCharge' /\ ~Shut
  <1>1. ~Shut /\ ~Late /\ ~Paid
    BY DEF StartPay, Payable, Shut, Sealed, Paid, OrderAgrees
  <1>2. PICK c \in IF Live = {} THEN {x \in Charges : att[x] = "NONE"} ELSE Live :
          /\ att' = [att EXCEPT ![c] = IF @ = "NONE" THEN "CREATED" ELSE @]
          /\ Start(w, "pay", ObtainStep(c), c, "NONE")
    BY DEF StartPay
  <1>3. c \in Charges /\ UNCHANGED <<ord, comp, pi>>
    BY <1>2 DEF StartPay, Live, provider
  <1>4. Moved(w, "pay", ObtainStep(c), c, "NONE")
    BY <1>2, <1>3, StartMoves DEF ObtainStep, Steps, Ops, Sights
  <1>5. \A d \in Charges \ {c} : ~Unresolved(d)
    BY <1>1, <1>2 DEF OneCharge
  <1>6. ASSUME NEW d \in Charges \ {c}
        PROVE  ~Unresolved(d)'
    <2>1. att'[d] = att[d]
      BY <1>2, <1>3 DEF TypeOK, RowTypes
    <2>2. Creating(d)' => Creating(d)
      BY <1>4 DEF Moved, Creating, At
    <2>3. Accounted(d) => Accounted(d)'
      BY <1>3 DEF Accounted, Kept, StartPay
    <2> QED
      BY <1>3, <1>5, <2>1, <2>2, <2>3 DEF Unresolved
  <1>7. c \in Live' /\ \A d \in Live' : d = c
    BY <1>2, <1>3 DEF Live, OneCharge, TypeOK, RowTypes
  <1>8. ~(Paid \/ Late)'
    BY <1>1, <1>3 DEF Paid, Late
  <1> QED
    BY <1>1, <1>6, <1>7, <1>8 DEF OneCharge, Live

\* Every action leaves at most one charge unresolved.
LEMMA OneChargeStep ==
  ASSUME "proof" \notin Actors, TypeOK, ProofsAside, TasksKnow, ChargesAgree, OrderAgrees, OneCharge, SweepShuts, Next
  PROVE  OneCharge'
  <1>1. CASE \E w \in Requests : StartPay(w)
    BY <1>1, PayOpensOne DEF Workers
  <1>2. CASE ~ \E w \in Requests : StartPay(w)
    <2>1. NothingUndone /\ OpensNone
      BY <1>2, UndoesNothing, OpensNothing
    <2>2. \A c, d \in Live' : c = d
      BY <2>1 DEF OpensNone, OneCharge
    <2>3. \A c, d \in Charges : Unresolved(c)' /\ Unresolved(d)' => c = d
      BY <2>1 DEF OpensNone, OneCharge
    <2>4. ASSUME NEW c \in Charges, c \notin Live', Unresolved(c)'
          PROVE  Shut' /\ Live' = {}
      <3>1. Unresolved(c)
        BY <2>1, <2>4 DEF OpensNone
      <3>2. CASE c \in Live
        <4>1. Live' = {}
          BY <2>1, <2>4, <3>2 DEF OpensNone, OneCharge
        <4>2. CASE Sealed'
          BY <4>1, <4>2 DEF Shut
        <4>3. ASSUME NEW w \in Workers, Does(w, "sweep"), Abandon(w)
              PROVE  Shut'
          BY <4>3 DEF SweepShuts, Abandon, Shut, Sealed, Paid
        <4> QED
          BY <1>2, <2>4, <3>2, <4>1, <4>2, <4>3, LeavesLive
      <3>3. CASE c \notin Live
        <4>1. Shut /\ Live' = {}
          BY <2>1, <3>1, <3>3 DEF OpensNone, OneCharge
        <4>2. ASSUME NEW w \in Workers, HoldForReconciliation(w)
              PROVE  Shut'
          <5>1. CASE Does(w, "sweep")
            <6>1. Sealed
              BY <3>1, <3>3, <4>2, <5>1 DEF HoldForReconciliation, SweepShuts, At
            <6> QED
              BY <2>1, <6>1, SealStays DEF Shut
          <5>2. CASE ~Does(w, "sweep")
            BY <4>1, <4>2, <5>2 DEF HoldForReconciliation, Shut, Sealed, Paid
          <5> QED
            BY <5>1, <5>2
        <4> QED
          BY <2>1, <4>1, <4>2, ShutStays
      <3> QED
        BY <3>2, <3>3
    <2>5. (Paid \/ Late)' => \A c \in Charges : ~Unresolved(c)'
      BY <2>1, PaidResolves
    <2> QED
      BY <2>2, <2>3, <2>4, <2>5 DEF OneCharge
  <1> QED
    BY <1>1, <1>2

-----------------------------------------------------------------------------
(* The passes of the cron *)

\* The steps of a pass that may still take money or hold the order.
Handling == {"find", "link", "ask", "withdraw", "hold"}

\* Where a pass that works on the order comes from.
Continues(v) ==
  \/ Does(v, "sweep") /\ work'[v] = work[v]
  \/ Does(v, "sweep") /\ (work'[v].step \in Handling => work[v].step \in Handling \/ (Resolve(v) /\ Live # {}))
  \/ v \in Passes /\ StartSweep(v) /\ work'[v].step \notin Handling

\* A pass that works on the order was doing so, or has just taken it up.
LEMMA SweepContinues ==
  ASSUME TypeOK, TasksKnow, Next, NEW v \in Workers, Does(v, "sweep")'
  PROVE  Continues(v)
  <1>1. ASSUME work'[v] = work[v]
        PROVE  Continues(v)
    BY <1>1 DEF Continues, Does
  <1>2. ASSUME NEW w \in Workers, NEW op, NEW step, NEW c, NEW saw, Moved(w, op, step, c, saw), 
               op = "sweep" => op = work[w].op /\ (step \in Handling => work[w].step \in Handling)
        PROVE  Continues(v)
    <2>1. CASE v = w
      <3>1. work'[v].op = op /\ work'[v].step = step
        BY <1>2, <2>1 DEF Moved
      <3>2. op = "sweep" /\ work[v].op = "sweep" /\ (step \in Handling => work[v].step \in Handling)
        BY <1>2, <2>1, <3>1 DEF Does
      <3> QED
        BY <3>1, <3>2 DEF Continues, Does
    <2>2. CASE v # w
      BY <1>1, <1>2, <2>2 DEF Moved
    <2> QED
      BY <2>1, <2>2
  <1>3. TypeOK /\ \A w \in Workers : work[w].step \in Steps /\ work[w].op \in Ops
    BY DEF TypeOK, TaskTypes, Task
  <1>4. \A c \in Charges : pi[c] \in Sights
    BY DEF TypeOK, RowTypes, Sights
  <1> USE <1>3, OnCharge, StartMoves, GoMoves, LearnMoves, RestMoves, <1>2 DEF Steps, Handling
  <1>5. ASSUME NEW w \in Workers, StartPay(w)
        PROVE  Continues(v)
    <2>1. PICK c \in Charges : Start(w, "pay", ObtainStep(c), c, "NONE")
      BY <1>5 DEF StartPay, Live
    <2>2. Moved(w, "pay", ObtainStep(c), c, "NONE")
      BY <2>1 DEF ObtainStep, Ops, Sights
    <2> QED
      BY <2>2
  <1>6. ASSUME NEW w \in Workers, StartConfirm(w)
        PROVE  Continues(v)
    <2>1. PICK c \in linked : Start(w, "confirm", "got", c, pi[c])
      BY <1>6 DEF StartConfirm
    <2>2. c \in Charges /\ pi[c] \in Sights
      BY <2>1, <1>4 DEF TypeOK, RowTypes
    <2> QED
      BY <2>1, <2>2 DEF Ops
  <1>7. ASSUME NEW w \in Workers, StartCancel(w)
        PROVE  Continues(v)
    BY <1>7 DEF StartCancel, Ops, Sights, Live, At
  <1>8. ASSUME NEW w \in Workers, StartProof(w)
        PROVE  Continues(v)
    BY <1>8 DEF StartProof, Ops, Sights, Live, At
  <1>9. ASSUME NEW w \in Workers, StartRecover(w)
        PROVE  Continues(v)
    <2>1. PICK c \in Charges : Start(w, "recover", ObtainStep(c), c, "NONE")
      BY <1>9 DEF StartRecover, Live
    <2>2. Moved(w, "recover", ObtainStep(c), c, "NONE")
      BY <2>1 DEF ObtainStep, Ops, Sights
    <2> QED
      BY <2>2
  <1>10. ASSUME NEW w \in Passes, StartSweep(w)
        PROVE  Continues(v)
    <2>1. Moved(w, "sweep", "resolve", None, "NONE")
      BY <1>10 DEF StartSweep, Ops, Sights, Workers
    <2> QED
      BY <1>1, <2>1, <1>10 DEF Moved, Continues
  <1>11. ASSUME NEW w \in Workers, StartRefund(w)
        PROVE  Continues(v)
    BY <1>11 DEF StartRefund, Ops, Sights, Live, At
  <1>12. ASSUME NEW w \in Workers, Retrieve(w)
        PROVE  Continues(v)
    <2>1. work[w].c \in Charges /\ pi[work[w].c] \in Sights
      BY <1>4, <1>12
    <2> QED
      BY <1>12, <2>1 DEF Retrieve, At
  <1>13. ASSUME NEW w \in Workers, Search(w)
        PROVE  Continues(v)
    <2>1. work[w].c \in Charges /\ pi[work[w].c] \in Sights /\ work[w].op # "sweep" /\ "OPEN" \in Sights
      BY <1>4, <1>13 DEF TasksKnow, Knows, Does, At, Search, Create, Sights, IntentStatus
    <2> QED
      BY <1>13, <2>1 DEF Search
  <1>14. ASSUME NEW w \in Workers, Abandon(w)
        PROVE  Continues(v)
    BY <1>14 DEF Abandon, At
  <1>15. ASSUME NEW w \in Workers, Create(w)
        PROVE  Continues(v)
    <2>1. work[w].c \in Charges /\ pi[work[w].c] \in Sights /\ work[w].op # "sweep" /\ "OPEN" \in Sights
      BY <1>4, <1>15 DEF TasksKnow, Knows, Does, At, Search, Create, Sights, IntentStatus
    <2> QED
      BY <1>15, <2>1 DEF Create
  <1>16. ASSUME NEW w \in Workers, Link(w)
        PROVE  Continues(v)
    BY <1>16 DEF Link, Does, At
  <1>17. ASSUME NEW w \in Workers, UseIntent(w)
        PROVE  Continues(v)
    BY <1>17 DEF UseIntent, At
  <1>18. ASSUME NEW w \in Workers, Settle(w)
        PROVE  Continues(v)
    BY <1>18 DEF Settle, AfterSettle, At
  <1>19. ASSUME NEW w \in Workers, CancelAtProvider(w)
        PROVE  Continues(v)
    BY <1>19 DEF CancelAtProvider, At
  <1>20. ASSUME NEW w \in Workers, CancelOrder(w)
        PROVE  Continues(v)
    BY <1>20 DEF CancelOrder, At
  <1>21. ASSUME NEW w \in Workers, MarkFailed(w)
        PROVE  Continues(v)
    BY <1>21 DEF MarkFailed, At
  <1>22. ASSUME NEW w \in Workers, MarkIntentCanceled(w)
        PROVE  Continues(v)
    BY <1>22 DEF MarkIntentCanceled, At
  <1>23. ASSUME NEW w \in Workers, MarkProcessed(w)
        PROVE  Continues(v)
    BY <1>23 DEF MarkProcessed, At
  <1>24. ASSUME NEW w \in Workers, Resolve(w)
        PROVE  Continues(v)
    <2>1. CASE Go(w, "free")
      BY <2>1
    <2>2. ASSUME NEW c \in Live, Start(w, work[w].op, IF c \in linked THEN "ask" ELSE "find", c, "NONE")
          PROVE  Continues(v)
      <3>1. PICK step \in {"ask", "find"} : Start(w, work[w].op, step, c, "NONE")
        BY <2>2
      <3>2. Moved(w, work[w].op, step, c, "NONE")
        BY <3>1 DEF Sights, Live
      <3> QED
        BY <1>1, <3>2, <1>24 DEF Moved, Continues, Does
    <2> QED
      BY <2>1, <2>2, <1>24 DEF Resolve
  <1>25. ASSUME NEW w \in Workers, Find(w)
        PROVE  Continues(v)
    BY <1>25 DEF Find, At
  <1>26. ASSUME NEW w \in Workers, Ask(w)
        PROVE  Continues(v)
    BY <1>26 DEF Ask, At
  <1>27. ASSUME NEW w \in Workers, Withdraw(w)
        PROVE  Continues(v)
    BY <1>27 DEF Withdraw, At
  <1>28. ASSUME NEW w \in Workers, Release(w)
        PROVE  Continues(v)
    BY <1>28 DEF Release, At
  <1>29. ASSUME NEW w \in Workers, HoldForReconciliation(w)
        PROVE  Continues(v)
    BY <1>29 DEF HoldForReconciliation, At
  <1>30. ASSUME NEW w \in Workers, Submit(w)
        PROVE  Continues(v)
    BY <1>30 DEF Submit, At
  <1>31. ASSUME NEW w \in Workers, CallRefund(w)
        PROVE  Continues(v)
    BY <1>31 DEF CallRefund, Sights, IntentStatus, RefundStatus, At
  <1>32. ASSUME NEW w \in Workers, NoteRefund(w)
        PROVE  Continues(v)
    BY <1>32 DEF NoteRefund, At
  <1>33. ASSUME NEW w \in Workers, ReadCompensation(w)
        PROVE  Continues(v)
    BY <1>33 DEF ReadCompensation, At
  <1>34. ASSUME NEW w \in Workers, MarkRefunded(w)
        PROVE  Continues(v)
    BY <1>34 DEF MarkRefunded, At
  <1>35. ASSUME NEW w \in Workers, Unanswered(w)
        PROVE  Continues(v)
    BY <1>35 DEF Unanswered, At
  <1>36. ASSUME NEW w \in Workers, RefundRejected(w)
        PROVE  Continues(v)
    BY <1>36 DEF RefundRejected, At
  <1>37. ASSUME NEW w \in Workers, Crash(w)
        PROVE  Continues(v)
    BY <1>37 DEF Crash, At
  <1>38. ASSUME NEW w \in Workers, NEW e \in inbox, StartEvent(w, e)
        PROVE  Continues(v)
    <2>1. e.kind \in EventKind /\ e.c \in Charges
      BY DEF TypeOK, RowTypes, Event
    <2> QED
      BY <2>1, <1>38 DEF StartEvent, EventKind, Ops, Sights
  <1>39. ASSUME NEW c \in Charges, Pay(c)
        PROVE  Continues(v)
    BY <1>1, <1>39 DEF Pay
  <1>40. ASSUME NEW c \in Charges, Taken(c)
        PROVE  Continues(v)
    BY <1>1, <1>40 DEF Taken
  <1>41. ASSUME NEW c \in Charges, Declined(c)
        PROVE  Continues(v)
    BY <1>1, <1>41 DEF Declined
  <1>42. ASSUME NEW c \in Charges, RefundClears(c)
        PROVE  Continues(v)
    BY <1>1, <1>42 DEF RefundClears
  <1>43. ASSUME NEW c \in Charges, Age(c)
        PROVE  Continues(v)
    BY <1>1, <1>43 DEF Age
  <1>44. ASSUME Approve
        PROVE  Continues(v)
    BY <1>1, <1>44 DEF Approve
  <1>45. ASSUME Reject
        PROVE  Continues(v)
    BY <1>1, <1>45 DEF Reject
  <1>46. ASSUME Return
        PROVE  Continues(v)
    BY <1>1, <1>46 DEF Return
  <1>47. ASSUME StaffStatus
        PROVE  Continues(v)
    BY <1>1, <1>47 DEF StaffStatus
  <1>48. ASSUME TimePasses
        PROVE  Continues(v)
    BY <1>1, <1>48 DEF TimePasses
  <1> QED
    BY <1>5, <1>6, <1>7, <1>8, <1>9, <1>10, <1>11, <1>12, <1>13, <1>14, <1>15, <1>16, <1>17, <1>18, <1>19, <1>20, <1>21, <1>22, <1>23, <1>24, <1>25, <1>26, <1>27, <1>28, <1>29, <1>30, <1>31, <1>32, <1>33, <1>34, <1>35, <1>36, <1>37, <1>38, <1>39, <1>40, <1>41, <1>42, <1>43, <1>44, <1>45, <1>46, <1>47, <1>48 DEF Next, Request, Pass, Advance, Fault, Outside, Workers

\* With one pass at a time, an order that it works on stays closed to attempts:
\* a second pass could hold the order between the two steps of the first.
LEMMA SweepStep ==
  ASSUME "proof" \notin Actors, \A p, q \in Passes : p = q,
         TypeOK, ProofsAside, TasksKnow, ChargesAgree, OrderAgrees, OneCharge, SweepShuts, Next
  PROVE  SweepShuts'
  <1> SUFFICES ASSUME NEW v \in Workers, Does(v, "sweep")'
               PROVE  /\ v \in Passes /\ Shut'
                      /\ work'[v].step \in Handling => \A c \in Charges \ Live' : Unresolved(c)' => Sealed'
    BY DEF SweepShuts, Handling
  <1>1. NothingUndone /\ Continues(v) /\ TypeOK
    BY UndoesNothing, SweepContinues
  <1>2. v \in Passes /\ Shut
    BY <1>1 DEF Continues, SweepShuts, StartSweep, Expired, Shut, Sealed
  <1>3. ~ \E w \in Requests : StartPay(w)
    BY <1>2, PayOpensOne DEF Workers
  <1>4. Shut'
    <2>1. ASSUME NEW w \in Workers, HoldForReconciliation(w)
          PROVE  Shut'
      <3>1. CASE Does(w, "sweep")
        <4>1. w = v
          BY <1>2, <3>1 DEF SweepShuts
        <4>2. ~Does(v, "sweep")'
          BY <1>1, <2>1, <4>1, RestMoves DEF HoldForReconciliation, Moved, Does
        <4> QED
          BY <4>2
      <3>2. CASE ~Does(w, "sweep")
        BY <1>2, <2>1, <3>2 DEF HoldForReconciliation, Shut, Sealed, Paid
      <3> QED
        BY <3>1, <3>2
    <2> QED
      BY <1>1, <1>2, <2>1, ShutStays
  <1>5. ASSUME work'[v].step \in Handling, NEW c \in Charges, c \notin Live', Unresolved(c)'
        PROVE  Sealed'
    <2>1. Unresolved(c)
      BY <1>3, <1>5, OpensNothing DEF OpensNone
    <2>2. CASE c \notin Live
      <3>1. Does(v, "sweep") /\ work[v].step \in Handling
        BY <1>1, <1>5, <2>1, <2>2 DEF Continues, OneCharge
      <3>2. Sealed
        BY <2>1, <2>2, <3>1 DEF SweepShuts, Handling
      <3> QED
        BY <1>1, <3>2, SealStays
    <2>3. CASE c \in Live
      <3>1. ASSUME NEW w \in Workers, Does(w, "sweep"), At(w, "giveUp"), Abandon(w)
            PROVE  FALSE
        <4>1. w = v
          BY <1>2, <3>1 DEF SweepShuts
        <4>2. work'[v].step \notin Handling
          BY <1>1, <3>1, <4>1, GoMoves DEF Abandon, Moved, Steps, Handling
        <4> QED
          BY <1>5, <4>2
      <3> QED
        BY <1>3, <1>5, <2>3, <3>1, LeavesLive
    <2> QED
      BY <2>2, <2>3
  <1> QED
    BY <1>2, <1>4, <1>5

-----------------------------------------------------------------------------
(* The theorems *)

\* An order without attempts satisfies the invariant.
LEMMA InitInv == Init => IInv /\ KeptStands
  <1> SUFFICES ASSUME Init
               PROVE  IInv /\ KeptStands
    OBVIOUS
  <1>1. Resting \in Task
    BY DEF Resting, Task, Ops, Steps, Sights
  <1>2. TypeOK
    BY <1>1 DEF Init, TypeOK, RowTypes, TaskTypes, OrderRow, OrderStatus, PayStatus, PaymentRow, ProofStatus, AttStatus,
                CompRow, CompStatus, Reasons, IntentStatus, RefundStatus, Resting, Unbound
  <1>3. ProofsAside /\ TasksKnow /\ SweepShuts
    BY DEF Init, ProofsAside, TasksKnow, Knows, SweepShuts, At, Does, Resting
  <1>4. ChargesAgree /\ OrderAgrees
    BY DEF Init, ChargesAgree, ChargeAgrees, OrderAgrees, Late
  <1>5. \A c \in Charges : ~Unresolved(c) /\ c \notin Live
    BY DEF Init, Unresolved, Creating, At, Resting, Live
  <1>6. Remembered /\ OneCharge
    BY <1>5 DEF Init, Remembered, OneCharge, At, Resting, Live
  <1>7. KeptStands
    BY DEF Init, KeptStands, Kept
  <1> QED
    BY <1>2, <1>3, <1>4, <1>6, <1>7 DEF IInv, BaseInv

\* Every row and every task keeps its type, whoever takes part.
THEOREM TypeCorrect == Spec => []TypeOK
  <1>1. Init => TypeOK
    BY InitInv DEF IInv, BaseInv
  <1>2. TypeOK /\ [Next]_vars => TypeOK'
    <2> SUFFICES ASSUME TypeOK, [Next]_vars
                 PROVE  TypeOK'
      OBVIOUS
    <2>1. CASE Next
      BY <2>1, RowStep, TaskStep DEF TypeOK
    <2>2. CASE UNCHANGED vars
      BY <2>2 DEF vars, local, provider, TypeOK, RowTypes, TaskTypes
    <2> QED
      BY <2>1, <2>2
  <1> QED
    BY <1>1, <1>2, PTL DEF Spec

\* Nobody uploads a proof.
LEMMA AsideStep ==
  ASSUME TypeOK, ProofsAside, TasksKnow, OrderAgrees, Next
  PROVE  ProofsAside'
  BY UndoesNothing DEF NothingUndone, ProofsAside

\* Every step keeps what does not depend on the number of passes.
LEMMA BaseStep ==
  ASSUME "proof" \notin Actors, BaseInv, [Next]_vars
  PROVE  BaseInv'
  <1>1. CASE Next
    BY <1>1, TaskStep, RowStep, AsideStep, KnowsStep, ChargesStep, OrderStep DEF BaseInv, TypeOK
  <1>2. CASE UNCHANGED vars
    BY <1>2 DEF vars, local, provider, BaseInv, TypeOK, RowTypes, TaskTypes, ProofsAside, TasksKnow, Knows, At, Does,
                ChargesAgree, ChargeAgrees, EventAgrees, OrderAgrees, Paid, Late
  <1> QED
    BY <1>1, <1>2

\* Every step keeps the invariant.
LEMMA InvStep ==
  ASSUME "proof" \notin Actors, \A p, q \in Passes : p = q, IInv, [Next]_vars
  PROVE  IInv'
  <1>1. CASE Next
    <2>1. BaseInv'
      BY BaseStep DEF IInv
    <2>2. Remembered'
      BY <1>1, RememberStep DEF IInv, BaseInv
    <2>3. OneCharge'
      BY <1>1, OneChargeStep DEF IInv, BaseInv
    <2>4. SweepShuts'
      BY <1>1, SweepStep DEF IInv, BaseInv
    <2> QED
      BY <2>1, <2>2, <2>3, <2>4 DEF IInv
  <1>2. CASE UNCHANGED vars
    <2>1. BaseInv'
      BY BaseStep DEF IInv
    <2> QED
      BY <1>2, <2>1 DEF vars, local, provider, IInv, Remembered, OneCharge, SweepShuts, Accounted, Kept, Unresolved, Creating,
                        Live, Paid, Late, Sealed, Shut, At, Does
  <1> QED
    BY <1>1, <1>2

\* The invariant holds of every behaviour without proofs and with one pass at a
\* time; with either of them OneCharge fails.
THEOREM Invariance ==
  ASSUME "proof" \notin Actors, \A p, q \in Passes : p = q
  PROVE  Spec => []IInv
  <1>1. Init => IInv
    BY InitInv
  <1>2. IInv /\ [Next]_vars => IInv'
    BY InvStep
  <1> QED
    BY <1>1, <1>2, PTL DEF Spec

\* A charge that was taken and whose event was processed is kept or compensated,
\* for any number of attempts, requests and webhook handlers (settleInTx,
\* processInboxRow, the maintenance cron).
THEOREM NoChargeForgottenHolds ==
  ASSUME "proof" \notin Actors, \A p, q \in Passes : p = q
  PROVE  Spec => []NoChargeForgotten
  <1>1. IInv => NoChargeForgotten
    BY DEF IInv, Remembered, NoChargeForgotten
  <1> QED
    BY <1>1, Invariance, PTL

\* The customer never holds two PaymentIntents of one order that can both still
\* be paid (createPaymentIntent, linkIntent, resolveProviderBeforeRelease).
THEOREM OneOpenChargeHolds ==
  ASSUME "proof" \notin Actors, \A p, q \in Passes : p = q
  PROVE  Spec => []OneOpenCharge
  <1>1. IInv => OneOpenCharge
    BY DEF IInv, BaseInv, TypeOK, RowTypes, OneCharge, Unresolved, OneOpenCharge
  <1> QED
    BY <1>1, Invariance, PTL

\* Whoever takes part, an order that is paid is not released (cancelInTx under
\* the row lock, settleInTx's late branch).
THEOREM PaidIsNotReleasedHolds == Spec => []PaidIsNotReleased
  <1> USE DEF PaidIsNotReleased
  <1>1. Init => PaidIsNotReleased
    BY DEF Init
  <1>2. TypeOK /\ PaidIsNotReleased /\ [Next]_vars => PaidIsNotReleased'
    <2> SUFFICES ASSUME TypeOK, PaidIsNotReleased, [Next]_vars
                 PROVE  PaidIsNotReleased'
      OBVIOUS
    <2>0. TypeOK
      OBVIOUS
    <2> USE <2>0 DEF local, provider
    <2>1. ASSUME NEW w \in Workers, StartPay(w)
          PROVE  PaidIsNotReleased'
      BY <2>1 DEF StartPay
    <2>2. ASSUME NEW w \in Workers, StartConfirm(w)
          PROVE  PaidIsNotReleased'
      BY <2>2 DEF StartConfirm
    <2>3. ASSUME NEW w \in Workers, StartCancel(w)
          PROVE  PaidIsNotReleased'
      BY <2>3 DEF StartCancel, TypeOK, RowTypes, OrderRow
    <2>4. ASSUME NEW w \in Workers, StartProof(w)
          PROVE  PaidIsNotReleased'
      BY <2>4 DEF StartProof
    <2>5. ASSUME NEW w \in Workers, StartRecover(w)
          PROVE  PaidIsNotReleased'
      BY <2>5 DEF StartRecover
    <2>6. ASSUME NEW w \in Workers, StartSweep(w)
          PROVE  PaidIsNotReleased'
      BY <2>6 DEF StartSweep
    <2>7. ASSUME NEW w \in Workers, StartRefund(w)
          PROVE  PaidIsNotReleased'
      BY <2>7 DEF StartRefund
    <2>8. ASSUME NEW w \in Workers, Retrieve(w)
          PROVE  PaidIsNotReleased'
      BY <2>8 DEF Retrieve
    <2>9. ASSUME NEW w \in Workers, Search(w)
          PROVE  PaidIsNotReleased'
      BY <2>9 DEF Search
    <2>10. ASSUME NEW w \in Workers, Abandon(w)
          PROVE  PaidIsNotReleased'
      BY <2>10 DEF Abandon
    <2>11. ASSUME NEW w \in Workers, Create(w)
          PROVE  PaidIsNotReleased'
      BY <2>11 DEF Create
    <2>12. ASSUME NEW w \in Workers, Link(w)
          PROVE  PaidIsNotReleased'
      BY <2>12 DEF Link, TypeOK, RowTypes, OrderRow
    <2>13. ASSUME NEW w \in Workers, UseIntent(w)
          PROVE  PaidIsNotReleased'
      BY <2>13 DEF UseIntent
    <2>14. ASSUME NEW w \in Workers, Settle(w)
          PROVE  PaidIsNotReleased'
      BY SettleOutcomes, <2>14 DEF Compensates, Keeps
    <2>15. ASSUME NEW w \in Workers, CancelAtProvider(w)
          PROVE  PaidIsNotReleased'
      BY <2>15 DEF CancelAtProvider
    <2>16. ASSUME NEW w \in Workers, CancelOrder(w)
          PROVE  PaidIsNotReleased'
      BY ReleaseOutcomes, <2>16
    <2>17. ASSUME NEW w \in Workers, MarkFailed(w)
          PROVE  PaidIsNotReleased'
      BY <2>17 DEF MarkFailed, TypeOK, RowTypes, OrderRow
    <2>18. ASSUME NEW w \in Workers, MarkIntentCanceled(w)
          PROVE  PaidIsNotReleased'
      BY <2>18 DEF MarkIntentCanceled
    <2>19. ASSUME NEW w \in Workers, MarkProcessed(w)
          PROVE  PaidIsNotReleased'
      BY <2>19 DEF MarkProcessed
    <2>20. ASSUME NEW w \in Workers, Resolve(w)
          PROVE  PaidIsNotReleased'
      BY <2>20 DEF Resolve
    <2>21. ASSUME NEW w \in Workers, Find(w)
          PROVE  PaidIsNotReleased'
      BY <2>21 DEF Find
    <2>22. ASSUME NEW w \in Workers, Ask(w)
          PROVE  PaidIsNotReleased'
      BY <2>22 DEF Ask
    <2>23. ASSUME NEW w \in Workers, Withdraw(w)
          PROVE  PaidIsNotReleased'
      BY <2>23 DEF Withdraw
    <2>24. ASSUME NEW w \in Workers, Release(w)
          PROVE  PaidIsNotReleased'
      BY ReleaseOutcomes, <2>24
    <2>25. ASSUME NEW w \in Workers, HoldForReconciliation(w)
          PROVE  PaidIsNotReleased'
      BY <2>25 DEF HoldForReconciliation, TypeOK, RowTypes, OrderRow
    <2>26. ASSUME NEW w \in Workers, Submit(w)
          PROVE  PaidIsNotReleased'
      BY <2>26 DEF Submit
    <2>27. ASSUME NEW w \in Workers, CallRefund(w)
          PROVE  PaidIsNotReleased'
      BY <2>27 DEF CallRefund
    <2>28. ASSUME NEW w \in Workers, NoteRefund(w)
          PROVE  PaidIsNotReleased'
      BY <2>28 DEF NoteRefund
    <2>29. ASSUME NEW w \in Workers, ReadCompensation(w)
          PROVE  PaidIsNotReleased'
      BY <2>29 DEF ReadCompensation
    <2>30. ASSUME NEW w \in Workers, MarkRefunded(w)
          PROVE  PaidIsNotReleased'
      BY RefundedOutcomes, <2>30
    <2>31. ASSUME NEW w \in Workers, Unanswered(w)
          PROVE  PaidIsNotReleased'
      BY <2>31 DEF Unanswered
    <2>32. ASSUME NEW w \in Workers, RefundRejected(w)
          PROVE  PaidIsNotReleased'
      BY <2>32 DEF RefundRejected
    <2>33. ASSUME NEW w \in Workers, Crash(w)
          PROVE  PaidIsNotReleased'
      BY <2>33 DEF Crash
    <2>34. ASSUME NEW w \in Workers, NEW e \in inbox, StartEvent(w, e)
          PROVE  PaidIsNotReleased'
      BY <2>34 DEF StartEvent
    <2>35. ASSUME NEW c \in Charges, Pay(c)
          PROVE  PaidIsNotReleased'
      BY <2>35 DEF Pay
    <2>36. ASSUME NEW c \in Charges, Taken(c)
          PROVE  PaidIsNotReleased'
      BY <2>36 DEF Taken
    <2>37. ASSUME NEW c \in Charges, Declined(c)
          PROVE  PaidIsNotReleased'
      BY <2>37 DEF Declined
    <2>38. ASSUME NEW c \in Charges, RefundClears(c)
          PROVE  PaidIsNotReleased'
      BY <2>38 DEF RefundClears
    <2>39. ASSUME NEW c \in Charges, Age(c)
          PROVE  PaidIsNotReleased'
      BY <2>39 DEF Age
    <2>40. ASSUME Approve
          PROVE  PaidIsNotReleased'
      BY ZenonT(60), <2>40 DEF Approve, Settled, TypeOK, RowTypes, OrderRow
    <2>41. ASSUME Reject
          PROVE  PaidIsNotReleased'
      BY <2>41 DEF Reject, Released, Cancellable, TypeOK, RowTypes, OrderRow
    <2>42. ASSUME Return
          PROVE  PaidIsNotReleased'
      BY <2>42 DEF Return, TypeOK, RowTypes, OrderRow
    <2>43. ASSUME StaffStatus
          PROVE  PaidIsNotReleased'
      BY <2>43 DEF StaffStatus, TypeOK, RowTypes, OrderRow
    <2>44. ASSUME TimePasses
          PROVE  PaidIsNotReleased'
      BY <2>44 DEF TimePasses, TypeOK, RowTypes, OrderRow
    <2>100. CASE UNCHANGED vars
      BY <2>100 DEF vars
    <2> QED
      BY <2>1, <2>2, <2>3, <2>4, <2>5, <2>6, <2>7, <2>8, <2>9, <2>10, <2>11, <2>12, <2>13, <2>14, <2>15, <2>16, <2>17, <2>18, <2>19, <2>20, <2>21, <2>22, <2>23, <2>24, <2>25, <2>26, <2>27, <2>28, <2>29, <2>30, <2>31, <2>32, <2>33, <2>34, <2>35, <2>36, <2>37, <2>38, <2>39, <2>40, <2>41, <2>42, <2>43, <2>44, <2>100 DEF Next, Request, Pass, Advance, Fault, Outside, Workers
  <1> QED
    BY <1>1, <1>2, TypeCorrect, PTL DEF Spec

-----------------------------------------------------------------------------
(* Without returns *)

\* Without proofs and returns, the charge that pays the order is never touched again.
LEMMA KeptStep ==
  ASSUME "return" \notin Actors, TypeOK, ProofsAside, TasksKnow, ChargesAgree, OrderAgrees, KeptStands, Next
  PROVE  KeptStands'
  <1>1. TypeOK
    OBVIOUS
  <1>2. ASSUME ord'.pay = ord.pay, ord'.intent = ord.intent, ord.status = "CANCELADO" => ord'.status = "CANCELADO",
               payment' = payment, comp' = comp
        PROVE  KeptStands'
    BY <1>2 DEF KeptStands, Kept
  <1>3. ASSUME payment'.status # "COMPLETADO", ord'.pay = "REEMBOLSADO" => ord'.status = "CANCELADO"
        PROVE  KeptStands'
    BY <1>3 DEF KeptStands, Kept
  <1> USE <1>1, <1>2 DEF local, provider
  <1>4. ASSUME NEW w \in Workers, StartPay(w)
        PROVE  KeptStands'
    <2>1. CASE payment.status = "COMPLETADO"
      BY <2>1, <1>4 DEF KeptStands, StartPay, Kept, Payable
    <2>2. CASE payment.status # "COMPLETADO"
      <3>1. payment'.status # "COMPLETADO"
        BY <2>2, <1>4 DEF StartPay, TypeOK, RowTypes, PaymentRow
      <3>2. ord'.pay = "REEMBOLSADO" => ord'.status = "CANCELADO"
        BY <1>4 DEF StartPay, KeptStands, TypeOK, RowTypes, OrderRow
      <3> QED
        BY <1>3, <3>1, <3>2
    <2> QED
      BY <2>1, <2>2
  <1>5. ASSUME NEW w \in Workers, StartConfirm(w)
        PROVE  KeptStands'
    BY <1>5 DEF StartConfirm
  <1>6. ASSUME NEW w \in Workers, StartCancel(w)
        PROVE  KeptStands'
    BY <1>6 DEF StartCancel, TypeOK, RowTypes, OrderRow
  <1>7. ASSUME NEW w \in Workers, StartProof(w)
        PROVE  KeptStands'
    BY <1>7 DEF StartProof
  <1>8. ASSUME NEW w \in Workers, StartRecover(w)
        PROVE  KeptStands'
    BY <1>8 DEF StartRecover
  <1>9. ASSUME NEW w \in Workers, StartSweep(w)
        PROVE  KeptStands'
    BY <1>9 DEF StartSweep
  <1>10. ASSUME NEW w \in Workers, StartRefund(w)
        PROVE  KeptStands'
    BY <1>10 DEF StartRefund
  <1>11. ASSUME NEW w \in Workers, Retrieve(w)
        PROVE  KeptStands'
    BY <1>11 DEF Retrieve
  <1>12. ASSUME NEW w \in Workers, Search(w)
        PROVE  KeptStands'
    BY <1>12 DEF Search
  <1>13. ASSUME NEW w \in Workers, Abandon(w)
        PROVE  KeptStands'
    BY <1>13 DEF Abandon
  <1>14. ASSUME NEW w \in Workers, Create(w)
        PROVE  KeptStands'
    BY <1>14 DEF Create
  <1>15. ASSUME NEW w \in Workers, Link(w)
        PROVE  KeptStands'
    <2>1. CASE payment.status = "COMPLETADO"
      BY <2>1, <1>15 DEF KeptStands, Link
    <2>2. CASE payment.status # "COMPLETADO"
      <3>1. payment'.status # "COMPLETADO"
        BY <2>2, <1>15 DEF Link, TypeOK, RowTypes, PaymentRow
      <3>2. ord'.pay = "REEMBOLSADO" => ord'.status = "CANCELADO"
        BY <1>15 DEF Link, KeptStands, TypeOK, RowTypes, OrderRow
      <3> QED
        BY <1>3, <3>1, <3>2
    <2> QED
      BY <2>1, <2>2
  <1>16. ASSUME NEW w \in Workers, UseIntent(w)
        PROVE  KeptStands'
    BY <1>16 DEF UseIntent
  <1>17. ASSUME NEW w \in Workers, Settle(w)
        PROVE  KeptStands'
    <2>1. work[w].c \in Charges
      BY <1>17, OnCharge
    <2>2. CASE Compensates(work[w].c)
      <3>1. ~Kept(work[w].c)
        BY <2>2 DEF Compensates, KeptStands, Kept, Paid
      <3> QED
        BY <2>1, <2>2, <3>1 DEF Compensates, KeptStands, Kept
    <2>3. CASE Keeps(work[w].c)
      <3>1. comp[work[w].c].status = "NONE"
        BY <2>1, <2>3 DEF Keeps, ChargesAgree, ChargeAgrees
      <3> QED
        BY <2>1, <2>3, <3>1 DEF Keeps, KeptStands, Kept
    <2> QED
      BY <2>2, <2>3, SettleOutcomes, <1>17
  <1>18. ASSUME NEW w \in Workers, CancelAtProvider(w)
        PROVE  KeptStands'
    BY <1>18 DEF CancelAtProvider
  <1>19. ASSUME NEW w \in Workers, CancelOrder(w)
        PROVE  KeptStands'
    BY ReleaseOutcomes, <1>19
  <1>20. ASSUME NEW w \in Workers, MarkFailed(w)
        PROVE  KeptStands'
    <2>1. CASE payment.status = "COMPLETADO"
      BY <2>1, <1>20 DEF KeptStands, MarkFailed
    <2>2. CASE payment.status # "COMPLETADO"
      <3>1. payment'.status # "COMPLETADO"
        BY <2>2, <1>20 DEF MarkFailed, TypeOK, RowTypes, PaymentRow
      <3>2. ord'.pay = "REEMBOLSADO" => ord'.status = "CANCELADO"
        BY <1>20 DEF MarkFailed, KeptStands, TypeOK, RowTypes, OrderRow
      <3> QED
        BY <1>3, <3>1, <3>2
    <2> QED
      BY <2>1, <2>2
  <1>21. ASSUME NEW w \in Workers, MarkIntentCanceled(w)
        PROVE  KeptStands'
    BY <1>21 DEF MarkIntentCanceled
  <1>22. ASSUME NEW w \in Workers, MarkProcessed(w)
        PROVE  KeptStands'
    BY <1>22 DEF MarkProcessed
  <1>23. ASSUME NEW w \in Workers, Resolve(w)
        PROVE  KeptStands'
    BY <1>23 DEF Resolve
  <1>24. ASSUME NEW w \in Workers, Find(w)
        PROVE  KeptStands'
    BY <1>24 DEF Find
  <1>25. ASSUME NEW w \in Workers, Ask(w)
        PROVE  KeptStands'
    BY <1>25 DEF Ask
  <1>26. ASSUME NEW w \in Workers, Withdraw(w)
        PROVE  KeptStands'
    BY <1>26 DEF Withdraw
  <1>27. ASSUME NEW w \in Workers, Release(w)
        PROVE  KeptStands'
    BY ReleaseOutcomes, <1>27
  <1>28. ASSUME NEW w \in Workers, HoldForReconciliation(w)
        PROVE  KeptStands'
    BY <1>28 DEF HoldForReconciliation, TypeOK, RowTypes, OrderRow
  <1>29. ASSUME NEW w \in Workers, Submit(w)
        PROVE  KeptStands'
    BY <1>29 DEF Submit
  <1>30. ASSUME NEW w \in Workers, CallRefund(w)
        PROVE  KeptStands'
    BY <1>30 DEF CallRefund
  <1>31. ASSUME NEW w \in Workers, NoteRefund(w)
        PROVE  KeptStands'
    <2>1. work[w].c \in Charges /\ comp[work[w].c].status # "NONE"
      BY <1>31, OnCharge DEF NoteRefund, TasksKnow, Knows, At
    <2> QED
      BY <2>1, CompensationOutcomes, <1>31 DEF NoteRefund, CompensationMoves, KeptStands, Kept
  <1>32. ASSUME NEW w \in Workers, ReadCompensation(w)
        PROVE  KeptStands'
    BY <1>32 DEF ReadCompensation
  <1>33. ASSUME NEW w \in Workers, MarkRefunded(w)
        PROVE  KeptStands'
    <2>1. work[w].c \in Charges /\ comp[work[w].c].status # "NONE"
      BY <1>33, OnCharge DEF MarkRefunded, TasksKnow, Knows, At
    <2>2. CASE comp[work[w].c].reason = "LATE_PAYMENT"
      BY <1>3, <2>1, <2>2, RefundedOutcomes, <1>33 DEF OrderAgrees, Late
    <2>3. CASE comp[work[w].c].reason # "LATE_PAYMENT"
      BY <2>1, <2>3, CompensationOutcomes, RefundedOutcomes, <1>33 DEF CompensationMoves, KeptStands, Kept
    <2> QED
      BY <2>2, <2>3
  <1>34. ASSUME NEW w \in Workers, Unanswered(w)
        PROVE  KeptStands'
    BY <1>34 DEF Unanswered
  <1>35. ASSUME NEW w \in Workers, RefundRejected(w)
        PROVE  KeptStands'
    <2>1. work[w].c \in Charges /\ comp[work[w].c].status # "NONE"
      BY <1>35, OnCharge DEF RefundRejected, TasksKnow, Knows, At
    <2> QED
      BY <2>1, CompensationOutcomes, <1>35 DEF RefundRejected, CompensationMoves, KeptStands, Kept
  <1>36. ASSUME NEW w \in Workers, Crash(w)
        PROVE  KeptStands'
    BY <1>36 DEF Crash
  <1>37. ASSUME NEW w \in Workers, NEW e \in inbox, StartEvent(w, e)
        PROVE  KeptStands'
    BY <1>37 DEF StartEvent
  <1>38. ASSUME NEW c \in Charges, Pay(c)
        PROVE  KeptStands'
    BY <1>38 DEF Pay
  <1>39. ASSUME NEW c \in Charges, Taken(c)
        PROVE  KeptStands'
    BY <1>39 DEF Taken
  <1>40. ASSUME NEW c \in Charges, Declined(c)
        PROVE  KeptStands'
    BY <1>40 DEF Declined
  <1>41. ASSUME NEW c \in Charges, RefundClears(c)
        PROVE  KeptStands'
    BY <1>41 DEF RefundClears
  <1>42. ASSUME NEW c \in Charges, Age(c)
        PROVE  KeptStands'
    BY <1>42 DEF Age
  <1>43. ASSUME Approve
        PROVE  KeptStands'
    BY <1>43 DEF Approve, ProofsAside
  <1>44. ASSUME Reject
        PROVE  KeptStands'
    BY <1>44 DEF Reject, ProofsAside
  <1>45. ASSUME Return
        PROVE  KeptStands'
    BY <1>45 DEF Return, TypeOK, RowTypes, OrderRow
  <1>46. ASSUME StaffStatus
        PROVE  KeptStands'
    BY <1>46 DEF StaffStatus, TypeOK, RowTypes, OrderRow
  <1>47. ASSUME TimePasses
        PROVE  KeptStands'
    BY <1>47 DEF TimePasses, TypeOK, RowTypes, OrderRow
  <1> QED
    BY <1>4, <1>5, <1>6, <1>7, <1>8, <1>9, <1>10, <1>11, <1>12, <1>13, <1>14, <1>15, <1>16, <1>17, <1>18, <1>19, <1>20, <1>21, <1>22, <1>23, <1>24, <1>25, <1>26, <1>27, <1>28, <1>29, <1>30, <1>31, <1>32, <1>33, <1>34, <1>35, <1>36, <1>37, <1>38, <1>39, <1>40, <1>41, <1>42, <1>43, <1>44, <1>45, <1>46, <1>47 DEF Next, Request, Pass, Advance, Fault, Outside, Workers

\* The agreement, and the charge that pays the order, stand in every behaviour
\* without proofs and returns.
THEOREM KeptInvariance ==
  ASSUME "proof" \notin Actors, "return" \notin Actors
  PROVE  Spec => [](BaseInv /\ KeptStands)
  <1>1. Init => BaseInv /\ KeptStands
    BY InitInv DEF IInv
  <1>2. BaseInv /\ KeptStands /\ [Next]_vars => (BaseInv /\ KeptStands)'
    <2> SUFFICES ASSUME BaseInv, KeptStands, [Next]_vars
                 PROVE  BaseInv' /\ KeptStands'
      OBVIOUS
    <2>1. CASE Next
      BY <2>1, BaseStep, KeptStep DEF BaseInv
    <2>2. CASE UNCHANGED vars
      BY <2>2, BaseStep DEF vars, local, provider, KeptStands, Kept
    <2> QED
      BY <2>1, <2>2
  <1> QED
    BY <1>1, <1>2, PTL DEF Spec

\* A completed payment belongs to an order that is paid, for any number of
\* attempts, requests and passes (the metric paidWithoutConsistentOrder).
THEOREM PaidConsistentlyHolds ==
  ASSUME "proof" \notin Actors, "return" \notin Actors
  PROVE  Spec => []PaidConsistently
  <1>1. KeptStands => PaidConsistently
    BY DEF KeptStands, PaidConsistently
  <1> QED
    BY <1>1, KeptInvariance, PTL

-----------------------------------------------------------------------------
(* The ledger *)

\* What the ledger shows of a charge, and what it shows of the sale.
Same(c) ==
  /\ pi'[c] = pi[c] \/ {pi[c], pi'[c]} \subseteq {"OPEN", "PROCESSING"}
  /\ Kept(c)' <=> Kept(c)
  /\ comp'[c].status = "NONE" <=> comp[c].status = "NONE"
  /\ refund'[c] = "SUCCEEDED" <=> refund[c] = "SUCCEEDED"

SameSale ==
  /\ ord'.status = "CANCELADO" <=> ord.status = "CANCELADO"
  /\ payment'.status = "COMPLETADO" <=> payment.status = "COMPLETADO"

\* The sale stays as it is while its order and its payment look the same.
LEMMA SaleStays ==
  ASSUME SameSale
  PROVE  LedgerSale' = LedgerSale
  BY DEF SameSale, LedgerSale

\* The entry of a charge, now and after the step.
LEMMA LedgerEntry ==
  ASSUME NEW c \in Charges
  PROVE  /\ LedgerCharge[c] =
              CASE pi[c] = "NONE" -> "none"
                [] pi[c] = "CANCELED" -> "void"
                [] pi[c] \in {"OPEN", "PROCESSING"} -> "open"
                [] pi[c] = "SUCCEEDED" -> IF Kept(c) THEN "kept"
                                          ELSE IF comp[c].status = "NONE" THEN "taken"
                                          ELSE IF refund[c] = "SUCCEEDED" THEN "returned" ELSE "owed"
         /\ LedgerCharge'[c] =
              CASE pi'[c] = "NONE" -> "none"
                [] pi'[c] = "CANCELED" -> "void"
                [] pi'[c] \in {"OPEN", "PROCESSING"} -> "open"
                [] pi'[c] = "SUCCEEDED" -> IF Kept(c)' THEN "kept"
                                           ELSE IF comp'[c].status = "NONE" THEN "taken"
                                           ELSE IF refund'[c] = "SUCCEEDED" THEN "returned" ELSE "owed"
  BY DEF LedgerCharge

\* An entry stays as it is while its charge looks the same.
LEMMA EntryStays ==
  ASSUME TypeOK, NEW c \in Charges, Same(c)
  PROVE  LedgerCharge'[c] = LedgerCharge[c]
  <1>1. pi[c] \in IntentStatus
    BY DEF TypeOK, RowTypes
  <1> QED
    BY <1>1, LedgerEntry DEF Same, IntentStatus

\* When no charge changes its entry, the ledger stands still.
LEMMA Stutters ==
  ASSUME TypeOK, \A c \in Charges : Same(c)
  PROVE  LedgerCharge' = LedgerCharge
  BY EntryStays DEF LedgerCharge

\* A step that changes one entry is a move of the ledger.
LEMMA LedgerMoves ==
  ASSUME TypeOK, TypeOK', NEW c \in Charges, \A d \in Charges \ {c} : Same(d), NEW from, NEW to,
         LedgerCharge[c] = from, LedgerCharge'[c] = to
  PROVE  Ledger!Move(c, from, to)
  <1>1. \A d \in Charges \ {c} : LedgerCharge'[d] = LedgerCharge[d]
    BY EntryStays
  <1>2. LedgerCharge \in [Charges -> Ledger!States] /\ LedgerCharge' \in [Charges -> Ledger!States]
    BY DEF LedgerCharge, Ledger!States, TypeOK, RowTypes, IntentStatus
  <1>3. LedgerCharge' = [LedgerCharge EXCEPT ![c] = to]
    BY <1>1, <1>2
  <1> QED
    BY <1>3 DEF Ledger!Move

\* Every action is a step of the ledger or leaves it as it is.
LEMMA LedgerStep ==
  ASSUME "proof" \notin Actors, "return" \notin Actors, BaseInv, KeptStands, Next
  PROVE  Ledger!Next \/ UNCHANGED <<LedgerCharge, LedgerSale>>
  <1>1. TypeOK /\ TypeOK' /\ TasksKnow /\ OrderAgrees /\ ProofsAside /\ \A c \in Charges : ChargeAgrees(c)
    BY BaseStep DEF BaseInv, ChargesAgree
  <1>2. ASSUME pi' = pi, payment' = payment, comp' = comp, refund' = refund,
               ord.status = "CANCELADO" <=> ord'.status = "CANCELADO"
        PROVE  UNCHANGED <<LedgerCharge, LedgerSale>>
    <2>1. \A c \in Charges : Same(c)
      BY <1>2 DEF Same, Kept
    <2> QED
      BY <1>1, <1>2, <2>1, Stutters, SaleStays DEF SameSale
  <1>3. ASSUME NEW c \in Charges, \A d \in Charges \ {c} : pi'[d] = pi[d], payment' = payment, comp' = comp, refund' = refund,
               ord' = ord, \/ pi'[c] = pi[c]
                           \/ pi[c] = "NONE" /\ pi'[c] = "OPEN"
                           \/ pi[c] = "OPEN" /\ pi'[c] = "CANCELED"
                           \/ pi[c] \in {"OPEN", "PROCESSING"} /\ pi'[c] \in {"OPEN", "PROCESSING", "SUCCEEDED"}
        PROVE  Ledger!Next \/ UNCHANGED <<LedgerCharge, LedgerSale>>
    <2>1. \A d \in Charges \ {c} : Same(d)
      BY <1>3 DEF Same, Kept
    <2>2. LedgerSale' = LedgerSale
      BY <1>3, SaleStays DEF SameSale
    <2>3. CASE Same(c)
      BY <1>1, <2>1, <2>2, <2>3, Stutters
    <2>4. CASE pi[c] = "NONE" /\ pi'[c] = "OPEN"
      <3>1. LedgerCharge[c] = "none" /\ LedgerCharge'[c] = "open"
        BY <2>4, LedgerEntry
      <3> QED
        BY <1>1, <2>1, <2>2, <3>1, LedgerMoves DEF Ledger!Next, Ledger!Open
    <2>5. CASE pi[c] = "OPEN" /\ pi'[c] = "CANCELED"
      <3>1. LedgerCharge[c] = "open" /\ LedgerCharge'[c] = "void"
        BY <2>5, LedgerEntry
      <3> QED
        BY <1>1, <2>1, <2>2, <3>1, LedgerMoves DEF Ledger!Next, Ledger!Void
    <2>6. CASE pi[c] \in {"OPEN", "PROCESSING"} /\ pi'[c] = "SUCCEEDED"
      <3>1. ~Kept(c) /\ comp[c].status = "NONE"
        BY <1>1, <2>6 DEF Kept, OrderAgrees, ChargeAgrees
      <3>2. ~Kept(c)' /\ comp'[c].status = "NONE"
        BY <1>3, <3>1 DEF Kept
      <3>3. LedgerCharge[c] = "open" /\ LedgerCharge'[c] = "taken"
        BY <2>6, <3>1, <3>2, LedgerEntry
      <3> QED
        BY <1>1, <2>1, <2>2, <3>3, LedgerMoves DEF Ledger!Next, Ledger!Take
    <2>7. Same(c) <=> pi'[c] = pi[c] \/ {pi[c], pi'[c]} \subseteq {"OPEN", "PROCESSING"}
      BY <1>3 DEF Same, Kept
    <2> QED
      BY <1>3, <2>3, <2>4, <2>5, <2>6, <2>7
  <1>4. ASSUME NEW c \in Charges, \A d \in Charges \ {c} : refund'[d] = refund[d], comp[c].status # "NONE",
               refund[c] # "SUCCEEDED", pi' = pi, payment' = payment, comp' = comp, ord' = ord
        PROVE  Ledger!Next \/ UNCHANGED <<LedgerCharge, LedgerSale>>
    <2>1. \A d \in Charges \ {c} : Same(d)
      BY <1>4 DEF Same, Kept
    <2>2. LedgerSale' = LedgerSale
      BY <1>4, SaleStays DEF SameSale
    <2>3. CASE refund'[c] # "SUCCEEDED"
      <3>1. Same(c)
        BY <1>4, <2>3 DEF Same, Kept
      <3> QED
        BY <1>1, <2>1, <2>2, <3>1, Stutters
    <2>4. CASE refund'[c] = "SUCCEEDED"
      <3>1. ~Kept(c) /\ pi[c] = "SUCCEEDED"
        BY <1>1, <1>4 DEF KeptStands, ChargeAgrees
      <3>2. ~Kept(c)'
        BY <1>4, <3>1 DEF Kept
      <3>3. LedgerCharge[c] = "owed" /\ LedgerCharge'[c] = "returned"
        BY <1>4, <2>4, <3>1, <3>2, LedgerEntry
      <3> QED
        BY <1>1, <2>1, <2>2, <3>3, LedgerMoves DEF Ledger!Next, Ledger!GiveBack
    <2> QED
      BY <2>3, <2>4
  <1>5. ASSUME \A c \in Charges : Kept(c)' <=> Kept(c),
               payment'.status = "COMPLETADO" <=> payment.status = "COMPLETADO",
               ord'.status = "CANCELADO" <=> ord.status = "CANCELADO",
               \A c \in Charges : comp'[c].status = "NONE" <=> comp[c].status = "NONE",
               pi' = pi, refund' = refund
        PROVE  UNCHANGED <<LedgerCharge, LedgerSale>>
    <2>1. \A c \in Charges : Same(c)
      BY <1>5 DEF Same
    <2> QED
      BY <1>1, <1>5, <2>1, Stutters, SaleStays DEF SameSale
  <1> USE <1>1, <1>2 DEF local, provider
  <1>6. ASSUME NEW w \in Workers, StartPay(w)
        PROVE  Ledger!Next \/ UNCHANGED <<LedgerCharge, LedgerSale>>
    <2>1. CASE payment.status = "COMPLETADO"
      BY <1>5, <2>1, <1>6 DEF StartPay, Payable, KeptStands, Kept, TypeOK, RowTypes, OrderRow
    <2>2. CASE payment.status # "COMPLETADO"
      <3>1. payment'.status # "COMPLETADO"
        BY <2>2, <1>6 DEF StartPay, TypeOK, RowTypes, PaymentRow
      <3>2. ord'.status = ord.status
        BY <1>6 DEF StartPay, TypeOK, RowTypes, OrderRow
      <3> QED
        BY <1>5, <2>2, <3>1, <3>2, <1>6 DEF StartPay, Kept
    <2> QED
      BY <2>1, <2>2
  <1>7. ASSUME NEW w \in Workers, StartConfirm(w)
        PROVE  Ledger!Next \/ UNCHANGED <<LedgerCharge, LedgerSale>>
    BY <1>7 DEF StartConfirm
  <1>8. ASSUME NEW w \in Workers, StartCancel(w)
        PROVE  Ledger!Next \/ UNCHANGED <<LedgerCharge, LedgerSale>>
    BY <1>8 DEF StartCancel, TypeOK, RowTypes, OrderRow
  <1>9. ASSUME NEW w \in Workers, StartProof(w)
        PROVE  Ledger!Next \/ UNCHANGED <<LedgerCharge, LedgerSale>>
    BY <1>9 DEF StartProof
  <1>10. ASSUME NEW w \in Workers, StartRecover(w)
        PROVE  Ledger!Next \/ UNCHANGED <<LedgerCharge, LedgerSale>>
    BY <1>10 DEF StartRecover
  <1>11. ASSUME NEW w \in Workers, StartSweep(w)
        PROVE  Ledger!Next \/ UNCHANGED <<LedgerCharge, LedgerSale>>
    BY <1>11 DEF StartSweep
  <1>12. ASSUME NEW w \in Workers, StartRefund(w)
        PROVE  Ledger!Next \/ UNCHANGED <<LedgerCharge, LedgerSale>>
    BY <1>12 DEF StartRefund
  <1>13. ASSUME NEW w \in Workers, Retrieve(w)
        PROVE  Ledger!Next \/ UNCHANGED <<LedgerCharge, LedgerSale>>
    BY <1>13 DEF Retrieve
  <1>14. ASSUME NEW w \in Workers, Search(w)
        PROVE  Ledger!Next \/ UNCHANGED <<LedgerCharge, LedgerSale>>
    BY <1>14 DEF Search
  <1>15. ASSUME NEW w \in Workers, Abandon(w)
        PROVE  Ledger!Next \/ UNCHANGED <<LedgerCharge, LedgerSale>>
    BY <1>15 DEF Abandon
  <1>16. ASSUME NEW w \in Workers, Create(w)
        PROVE  Ledger!Next \/ UNCHANGED <<LedgerCharge, LedgerSale>>
    <2>1. work[w].c \in Charges
      BY <1>16, OnCharge
    <2> QED
      BY <1>3, <2>1, <1>16 DEF Create, CancelPayment, TypeOK, RowTypes
  <1>17. ASSUME NEW w \in Workers, Link(w)
        PROVE  Ledger!Next \/ UNCHANGED <<LedgerCharge, LedgerSale>>
    <2>1. CASE payment.status = "COMPLETADO"
      BY <1>5, <2>1, <1>17 DEF Link, KeptStands, Kept, TypeOK, RowTypes, OrderRow
    <2>2. CASE payment.status # "COMPLETADO"
      <3>1. payment'.status # "COMPLETADO"
        BY <2>2, <1>17 DEF Link, TypeOK, RowTypes, PaymentRow
      <3>2. ord'.status = ord.status
        BY <1>17 DEF Link, TypeOK, RowTypes, OrderRow
      <3> QED
        BY <1>5, <2>2, <3>1, <3>2, <1>17 DEF Link, Kept
    <2> QED
      BY <2>1, <2>2
  <1>18. ASSUME NEW w \in Workers, UseIntent(w)
        PROVE  Ledger!Next \/ UNCHANGED <<LedgerCharge, LedgerSale>>
    BY <1>18 DEF UseIntent
  <1>19. ASSUME NEW w \in Workers, Settle(w)
        PROVE  Ledger!Next \/ UNCHANGED <<LedgerCharge, LedgerSale>>
    <2>1. PICK c \in Charges : c = work[w].c /\ pi[c] = "SUCCEEDED"
      BY <1>19, OnCharge DEF Settle, TasksKnow, Knows, At
    <2>2. CASE Compensates(c)
      <3>1. ~Kept(c)
        BY <2>2 DEF Compensates, KeptStands, Kept, Paid
      <3>2. ~Kept(c)' /\ refund[c] = "NONE" /\ refund' = refund /\ pi' = pi
        BY <2>1, <2>2, <3>1, SettleOutcomes, <1>19 DEF Compensates, Kept, ChargeAgrees
      <3>3. LedgerCharge[c] = "taken" /\ LedgerCharge'[c] = "owed"
        BY <2>1, <2>2, <3>1, <3>2, LedgerEntry DEF Compensates
      <3>4. \A d \in Charges \ {c} : Same(d)
        BY <2>2, <3>2 DEF Compensates, Same, Kept
      <3>5. LedgerSale # "waiting" /\ LedgerSale' = LedgerSale
        BY <2>2, SaleStays DEF Compensates, SameSale, LedgerSale, KeptStands, OrderAgrees, Paid
      <3> QED
        BY <3>3, <3>4, <3>5, LedgerMoves DEF Ledger!Next, Ledger!Owe
    <2>3. CASE Keeps(c)
      <3>1. payment.status # "COMPLETADO" /\ comp[c].status = "NONE"
        BY <2>3 DEF Keeps, OrderAgrees, ChargeAgrees
      <3>2. ~Kept(c) /\ Kept(c)' /\ refund' = refund /\ pi' = pi
        BY <2>1, <2>3, <3>1, SettleOutcomes, <1>19 DEF Keeps, Kept
      <3>3. LedgerCharge[c] = "taken" /\ LedgerCharge'[c] = "kept"
        BY <2>1, <3>1, <3>2, LedgerEntry
      <3>4. \A d \in Charges \ {c} : Same(d)
        BY <2>3, <3>1, <3>2 DEF Keeps, Same, Kept
      <3>5. LedgerSale = "waiting" /\ LedgerSale' = "paid"
        BY <2>3, <3>1 DEF Keeps, LedgerSale
      <3> QED
        BY <3>3, <3>4, <3>5, LedgerMoves DEF Ledger!Next, Ledger!Keep
    <2> QED
      BY <2>1, <2>2, <2>3, SettleOutcomes, <1>19
  <1>20. ASSUME NEW w \in Workers, CancelAtProvider(w)
        PROVE  Ledger!Next \/ UNCHANGED <<LedgerCharge, LedgerSale>>
    <2>1. work[w].c \in Charges
      BY <1>20, OnCharge
    <2> QED
      BY <1>3, <2>1, <1>20 DEF CancelAtProvider, CancelPayment, TypeOK, RowTypes
  <1>21. ASSUME NEW w \in Workers, CancelOrder(w)
        PROVE  Ledger!Next \/ UNCHANGED <<LedgerCharge, LedgerSale>>
    <2>1. CASE UNCHANGED <<ord, att>>
      BY <2>1, ReleaseOutcomes, <1>21
    <2>2. CASE ord.pay # "COMPLETADO" /\ ord.status = "PENDIENTE" /\ ord'.status = "CANCELADO"
      <3>1. LedgerSale = "waiting" /\ LedgerSale' = "released"
        BY <2>2 DEF LedgerSale, KeptStands
      <3>2. \A c \in Charges : Same(c)
        BY ReleaseOutcomes, <1>21 DEF Same, Kept
      <3> QED
        BY <3>1, <3>2, Stutters DEF Ledger!Next, Ledger!Release
    <2> QED
      BY <2>1, <2>2, ReleaseOutcomes, <1>21 DEF CancelOrder, Cancellable
  <1>22. ASSUME NEW w \in Workers, MarkFailed(w)
        PROVE  Ledger!Next \/ UNCHANGED <<LedgerCharge, LedgerSale>>
    <2>1. CASE payment.status = "COMPLETADO"
      BY <1>5, <2>1, <1>22 DEF MarkFailed, KeptStands, Kept, TypeOK, RowTypes, OrderRow
    <2>2. CASE payment.status # "COMPLETADO"
      <3>1. payment'.status # "COMPLETADO"
        BY <2>2, <1>22 DEF MarkFailed, TypeOK, RowTypes, PaymentRow
      <3>2. ord'.status = ord.status
        BY <1>22 DEF MarkFailed, TypeOK, RowTypes, OrderRow
      <3> QED
        BY <1>5, <2>2, <3>1, <3>2, <1>22 DEF MarkFailed, Kept
    <2> QED
      BY <2>1, <2>2
  <1>23. ASSUME NEW w \in Workers, MarkIntentCanceled(w)
        PROVE  Ledger!Next \/ UNCHANGED <<LedgerCharge, LedgerSale>>
    BY <1>23 DEF MarkIntentCanceled
  <1>24. ASSUME NEW w \in Workers, MarkProcessed(w)
        PROVE  Ledger!Next \/ UNCHANGED <<LedgerCharge, LedgerSale>>
    BY <1>24 DEF MarkProcessed
  <1>25. ASSUME NEW w \in Workers, Resolve(w)
        PROVE  Ledger!Next \/ UNCHANGED <<LedgerCharge, LedgerSale>>
    BY <1>25 DEF Resolve
  <1>26. ASSUME NEW w \in Workers, Find(w)
        PROVE  Ledger!Next \/ UNCHANGED <<LedgerCharge, LedgerSale>>
    BY <1>26 DEF Find
  <1>27. ASSUME NEW w \in Workers, Ask(w)
        PROVE  Ledger!Next \/ UNCHANGED <<LedgerCharge, LedgerSale>>
    BY <1>27 DEF Ask
  <1>28. ASSUME NEW w \in Workers, Withdraw(w)
        PROVE  Ledger!Next \/ UNCHANGED <<LedgerCharge, LedgerSale>>
    <2>1. work[w].c \in Charges
      BY <1>28, OnCharge
    <2> QED
      BY <1>3, <2>1, <1>28 DEF Withdraw, CancelPayment, TypeOK, RowTypes
  <1>29. ASSUME NEW w \in Workers, Release(w)
        PROVE  Ledger!Next \/ UNCHANGED <<LedgerCharge, LedgerSale>>
    <2>1. CASE UNCHANGED <<ord, att>>
      BY <2>1, ReleaseOutcomes, <1>29
    <2>2. CASE ord.pay # "COMPLETADO" /\ ord.status = "PENDIENTE" /\ ord'.status = "CANCELADO"
      <3>1. LedgerSale = "waiting" /\ LedgerSale' = "released"
        BY <2>2 DEF LedgerSale, KeptStands
      <3>2. \A c \in Charges : Same(c)
        BY ReleaseOutcomes, <1>29 DEF Same, Kept
      <3> QED
        BY <3>1, <3>2, Stutters DEF Ledger!Next, Ledger!Release
    <2> QED
      BY <2>1, <2>2, ReleaseOutcomes, <1>29 DEF Release, Cancellable
  <1>30. ASSUME NEW w \in Workers, HoldForReconciliation(w)
        PROVE  Ledger!Next \/ UNCHANGED <<LedgerCharge, LedgerSale>>
    BY <1>30 DEF HoldForReconciliation, TypeOK, RowTypes, OrderRow
  <1>31. ASSUME NEW w \in Workers, Submit(w)
        PROVE  Ledger!Next \/ UNCHANGED <<LedgerCharge, LedgerSale>>
    BY <1>31 DEF Submit
  <1>32. ASSUME NEW w \in Workers, CallRefund(w)
        PROVE  Ledger!Next \/ UNCHANGED <<LedgerCharge, LedgerSale>>
    <2>1. work[w].c \in Charges /\ comp[work[w].c].status # "NONE"
      BY <1>32, OnCharge DEF CallRefund, TasksKnow, Knows, At
    <2>2. CASE refund' = refund
      BY <2>2, <1>32 DEF CallRefund
    <2>3. CASE refund' # refund
      BY <1>4, <2>1, <2>3, <1>32 DEF CallRefund, TypeOK, RowTypes
    <2> QED
      BY <2>2, <2>3
  <1>33. ASSUME NEW w \in Workers, NoteRefund(w)
        PROVE  Ledger!Next \/ UNCHANGED <<LedgerCharge, LedgerSale>>
    <2>1. work[w].c \in Charges /\ comp[work[w].c].status # "NONE"
      BY <1>33, OnCharge DEF NoteRefund, TasksKnow, Knows, At
    <2> QED
      BY <1>5, <2>1, CompensationOutcomes, <1>33 DEF NoteRefund, CompensationMoves, Kept
  <1>34. ASSUME NEW w \in Workers, ReadCompensation(w)
        PROVE  Ledger!Next \/ UNCHANGED <<LedgerCharge, LedgerSale>>
    BY <1>34 DEF ReadCompensation
  <1>35. ASSUME NEW w \in Workers, MarkRefunded(w)
        PROVE  Ledger!Next \/ UNCHANGED <<LedgerCharge, LedgerSale>>
    <2>1. work[w].c \in Charges /\ comp[work[w].c].status # "NONE"
      BY <1>35, OnCharge DEF MarkRefunded, TasksKnow, Knows, At
    <2>2. \A c \in Charges : comp'[c].status = "NONE" <=> comp[c].status = "NONE"
      BY <2>1, CompensationOutcomes, <1>35 DEF CompensationMoves
    <2>3. CASE comp[work[w].c].reason = "LATE_PAYMENT"
      <3>1. payment.status # "COMPLETADO" /\ payment'.status # "COMPLETADO" /\ ord'.status = ord.status
        BY <2>1, <2>3, RefundedOutcomes, <1>35 DEF OrderAgrees, Late
      <3> QED
        BY <1>5, <2>2, <3>1, RefundedOutcomes, <1>35 DEF Kept
    <2>4. CASE comp[work[w].c].reason # "LATE_PAYMENT"
      BY <1>5, <2>2, <2>4, RefundedOutcomes, <1>35 DEF Kept
    <2> QED
      BY <2>3, <2>4
  <1>36. ASSUME NEW w \in Workers, Unanswered(w)
        PROVE  Ledger!Next \/ UNCHANGED <<LedgerCharge, LedgerSale>>
    BY <1>36 DEF Unanswered
  <1>37. ASSUME NEW w \in Workers, RefundRejected(w)
        PROVE  Ledger!Next \/ UNCHANGED <<LedgerCharge, LedgerSale>>
    <2>1. work[w].c \in Charges /\ comp[work[w].c].status # "NONE"
      BY <1>37, OnCharge DEF RefundRejected, TasksKnow, Knows, At
    <2> QED
      BY <1>5, <2>1, CompensationOutcomes, <1>37 DEF RefundRejected, CompensationMoves, Kept
  <1>38. ASSUME NEW w \in Workers, Crash(w)
        PROVE  Ledger!Next \/ UNCHANGED <<LedgerCharge, LedgerSale>>
    BY <1>38 DEF Crash
  <1>39. ASSUME NEW w \in Workers, NEW e \in inbox, StartEvent(w, e)
        PROVE  Ledger!Next \/ UNCHANGED <<LedgerCharge, LedgerSale>>
    BY <1>39 DEF StartEvent
  <1>40. ASSUME NEW c \in Charges, Pay(c)
        PROVE  Ledger!Next \/ UNCHANGED <<LedgerCharge, LedgerSale>>
    BY <1>3, <1>40 DEF Pay, TypeOK, RowTypes
  <1>41. ASSUME NEW c \in Charges, Taken(c)
        PROVE  Ledger!Next \/ UNCHANGED <<LedgerCharge, LedgerSale>>
    BY <1>3, <1>41 DEF Taken, TypeOK, RowTypes
  <1>42. ASSUME NEW c \in Charges, Declined(c)
        PROVE  Ledger!Next \/ UNCHANGED <<LedgerCharge, LedgerSale>>
    BY <1>3, <1>42 DEF Declined, TypeOK, RowTypes
  <1>43. ASSUME NEW c \in Charges, RefundClears(c)
        PROVE  Ledger!Next \/ UNCHANGED <<LedgerCharge, LedgerSale>>
    <2>1. comp[c].status # "NONE"
      BY <1>43 DEF RefundClears, ChargeAgrees
    <2> QED
      BY <1>4, <2>1, <1>43 DEF RefundClears, TypeOK, RowTypes
  <1>44. ASSUME NEW c \in Charges, Age(c)
        PROVE  Ledger!Next \/ UNCHANGED <<LedgerCharge, LedgerSale>>
    BY <1>44 DEF Age
  <1>45. ASSUME Approve
        PROVE  Ledger!Next \/ UNCHANGED <<LedgerCharge, LedgerSale>>
    BY <1>45 DEF Approve, ProofsAside
  <1>46. ASSUME Reject
        PROVE  Ledger!Next \/ UNCHANGED <<LedgerCharge, LedgerSale>>
    BY <1>46 DEF Reject, ProofsAside
  <1>47. ASSUME Return
        PROVE  Ledger!Next \/ UNCHANGED <<LedgerCharge, LedgerSale>>
    BY <1>47 DEF Return, TypeOK, RowTypes, OrderRow
  <1>48. ASSUME StaffStatus
        PROVE  Ledger!Next \/ UNCHANGED <<LedgerCharge, LedgerSale>>
    BY <1>48 DEF StaffStatus, TypeOK, RowTypes, OrderRow
  <1>49. ASSUME TimePasses
        PROVE  Ledger!Next \/ UNCHANGED <<LedgerCharge, LedgerSale>>
    BY <1>49 DEF TimePasses, TypeOK, RowTypes, OrderRow
  <1> QED
    BY <1>6, <1>7, <1>8, <1>9, <1>10, <1>11, <1>12, <1>13, <1>14, <1>15, <1>16, <1>17, <1>18, <1>19, <1>20, <1>21, <1>22, <1>23, <1>24, <1>25, <1>26, <1>27, <1>28, <1>29, <1>30, <1>31, <1>32, <1>33, <1>34, <1>35, <1>36, <1>37, <1>38, <1>39, <1>40, <1>41, <1>42, <1>43, <1>44, <1>45, <1>46, <1>47, <1>48, <1>49 DEF Next, Request, Pass, Advance, Fault, Outside, Workers

\* Card payments implement the ledger, for any number of attempts, requests and
\* passes: of all the charges an order ever has it keeps at most one, for good,
\* and it gives back those it takes too late.
THEOREM LedgerImplemented ==
  ASSUME "proof" \notin Actors, "return" \notin Actors
  PROVE  Spec => ImplementsLedger
  <1>1. Init => Ledger!Init
    BY DEF Init, Ledger!Init, LedgerCharge, LedgerSale
  <1>2. BaseInv /\ KeptStands /\ [Next]_vars => [Ledger!Next]_<<LedgerCharge, LedgerSale>>
    <2> SUFFICES ASSUME BaseInv, KeptStands, [Next]_vars
                 PROVE  Ledger!Next \/ UNCHANGED <<LedgerCharge, LedgerSale>>
      OBVIOUS
    <2>1. CASE Next
      BY <2>1, LedgerStep
    <2>2. CASE UNCHANGED vars
      BY <2>2 DEF vars, local, provider, LedgerCharge, LedgerSale, Kept
    <2> QED
      BY <2>1, <2>2
  <1> QED
    BY <1>1, <1>2, KeptInvariance, PTL DEF Spec, ImplementsLedger, Ledger!Spec
=============================================================================
