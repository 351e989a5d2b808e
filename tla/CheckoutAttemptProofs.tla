------------------------ MODULE CheckoutAttemptProofs ------------------------
(***************************************************************************)
(* Proofs about CheckoutAttempt, for any number of keys, requests and       *)
(* revisions of the cart.                                                  *)
(***************************************************************************)
EXTENDS CheckoutAttempt, TLAPS

\* A request that runs works for an attempt that the device keeps or kept.
Sent ==
  \A w \in Requests : ~At(w, "idle") => work[w].key \in Keys /\ client[work[w].key] # "none"

\* A transaction that has claimed its key is the only one, and found no result.
ClaimsHeld ==
  \A w \in Requests :
    work[w].step \in {"lock", "buy", "commit"} =>
      claim[work[w].key] = w /\ row[work[w].key] = "none"

\* The revision that was compared is the revision that is bought.
CartHeld ==
  \A w \in Requests :
    /\ work[w].step \in {"buy", "commit"} => holder = w
    /\ At(w, "commit") => version = seen[work[w].key] /\ version < MaxVersion

\* Orders are the results of their keys, of revisions that are over.
OrdersKnown ==
  /\ \A o \in orders : row[o.key] = "SUCCEEDED" /\ o.seen < version
  /\ \A k \in Keys : row[k] = "SUCCEEDED" => Bought(k)

\* Nothing is answered, or was told, that is not in the row of the attempt.
AnswersTrue ==
  /\ \A w \in Requests :
       /\ At(w, "winner") => row[work[w].key] # "none"
       /\ At(w, "answer") /\ work[w].ans = "bought" => row[work[w].key] = "SUCCEEDED"
       /\ At(w, "answer") /\ work[w].ans = "refused" => row[work[w].key] = "REJECTED"
  /\ \A k \in Keys :
       /\ "bought" \in told[k] => row[k] = "SUCCEEDED"
       /\ "refused" \in told[k] => row[k] = "REJECTED"

Safe == TypeOK /\ Sent /\ ClaimsHeld /\ CartHeld /\ OrdersKnown /\ AnswersTrue /\ SoldOnce

-----------------------------------------------------------------------------

LEMMA SafeInit == Init => Safe
BY AttemptAssumption DEF Init, Safe, TypeOK, Sent, ClaimsHeld, CartHeld, OrdersKnown, AnswersTrue, SoldOnce,
   At, Resting, OrderRow, Task, Steps, Answers, Versions, Bought

LEMMA BecomeType ==
  ASSUME TypeOK, NEW w \in Requests, NEW step \in Steps, NEW ans \in Answers, Become(w, step, ans)
  PROVE  work' \in [Requests -> Task]
BY DEF TypeOK, Become, Task

LEMMA RestType ==
  ASSUME TypeOK, NEW w \in Requests, Rest(w) PROVE work' \in [Requests -> Task]
BY DEF TypeOK, Rest, Resting, Task, Steps, Answers

LEMMA AnswerType ==
  ASSUME TypeOK, NEW w \in Requests, NEW ans \in Answers, Answer(w, ans)
  PROVE  work' \in [Requests -> Task]
BY BecomeType, RestType DEF Answer, Steps

LEMMA GoType ==
  ASSUME TypeOK, NEW w \in Requests, NEW step \in Steps, Go(w, step)
  PROVE  work' \in [Requests -> Task]
BY BecomeType DEF Go, Answers

LEMMA ClientType ==
  ASSUME TypeOK, NEW k, NEW ans, AfterAnswer(k, ans)
  PROVE  client' \in [Keys -> {"none", "SENDING", "IN_DOUBT", "CONFIRMED", "gone"}]
BY DEF TypeOK, AfterAnswer

LEMMA CreateAttemptSafe == ASSUME NEW w \in Requests, NEW k \in Keys, Safe, CreateAttempt(w, k) PROVE Safe'
<1> USE AttemptAssumption DEF Safe, CreateAttempt, Send, At, store
<1>1. TypeOK'
  BY DEF TypeOK, Task, Steps, Answers, OrderRow, Versions, Sent, CartHeld
<1>2. Sent'
  BY DEF TypeOK, Task, Steps, Answers, OrderRow, Versions, Sent
<1>3. ClaimsHeld'
  BY DEF TypeOK, Task, Steps, Answers, OrderRow, Versions, Sent, ClaimsHeld
<1>4. CartHeld'
  BY DEF TypeOK, Task, Steps, Answers, OrderRow, Versions, Sent, CartHeld
<1>5. OrdersKnown'
  BY DEF TypeOK, Task, Steps, Answers, OrderRow, Versions, Sent, ClaimsHeld, CartHeld,
     OrdersKnown, Bought
<1>6. AnswersTrue'
  BY DEF TypeOK, Task, Steps, Answers, OrderRow, Versions, Sent, ClaimsHeld, AnswersTrue
<1>7. SoldOnce'
  BY DEF TypeOK, Task, Steps, Answers, OrderRow, Versions, Sent, CartHeld, OrdersKnown,
     SoldOnce
<1> QED BY <1>1, <1>2, <1>3, <1>4, <1>5, <1>6, <1>7

LEMMA RecoverSafe == ASSUME NEW w \in Requests, NEW k \in Keys, Safe, Recover(w, k) PROVE Safe'
<1> USE AttemptAssumption DEF Safe, Recover, Send, At, store
<1>1. TypeOK'
  BY DEF TypeOK, Task, Steps, Answers, OrderRow, Versions, Sent, CartHeld
<1>2. Sent'
  BY DEF TypeOK, Task, Steps, Answers, OrderRow, Versions, Sent
<1>3. ClaimsHeld'
  BY DEF TypeOK, Task, Steps, Answers, OrderRow, Versions, Sent, ClaimsHeld
<1>4. CartHeld'
  BY DEF TypeOK, Task, Steps, Answers, OrderRow, Versions, Sent, CartHeld
<1>5. OrdersKnown'
  BY DEF TypeOK, Task, Steps, Answers, OrderRow, Versions, Sent, ClaimsHeld, CartHeld,
     OrdersKnown, Bought
<1>6. AnswersTrue'
  BY DEF TypeOK, Task, Steps, Answers, OrderRow, Versions, Sent, ClaimsHeld, AnswersTrue
<1>7. SoldOnce'
  BY DEF TypeOK, Task, Steps, Answers, OrderRow, Versions, Sent, CartHeld, OrdersKnown,
     SoldOnce
<1> QED BY <1>1, <1>2, <1>3, <1>4, <1>5, <1>6, <1>7

LEMMA GetAttemptSafe == ASSUME NEW w \in Requests, Safe, GetAttempt(w) PROVE Safe'
<1> USE AttemptAssumption DEF Safe, GetAttempt, At, store
<1>1. TypeOK'
  <2>1. work' \in [Requests -> Task]
    BY ZenonT(60), BecomeType, RestType, AnswerType, GoType DEF TypeOK, Task, Steps, Answers
  <2> QED
    BY SMTT(60), <2>1, ClientType DEF TypeOK, OrderRow, Versions, Sent, CartHeld
<1>2. Sent'
  BY DEF TypeOK, Task, Steps, Answers, OrderRow, Versions, Sent, Go, Become, Rest, Resting
<1>3. ClaimsHeld'
  BY DEF TypeOK, Task, Steps, Answers, OrderRow, Versions, Sent, ClaimsHeld, Go, Become,
     Rest, Resting
<1>4. CartHeld'
  BY DEF TypeOK, Task, Steps, Answers, OrderRow, Versions, Sent, CartHeld, Go, Become, Rest,
     Resting
<1>5. OrdersKnown'
  BY SMTT(60) DEF TypeOK, Task, Steps, Answers, OrderRow, Versions, Sent, ClaimsHeld, CartHeld,
     OrdersKnown, Bought, Go, Become, Rest, Resting
<1>6. AnswersTrue'
  BY SMTT(60) DEF TypeOK, Task, Steps, Answers, OrderRow, Versions, Sent, ClaimsHeld, AnswersTrue,
     Go, Become, Rest, Resting
<1>7. SoldOnce'
  BY DEF TypeOK, Task, Steps, Answers, OrderRow, Versions, Sent, CartHeld, OrdersKnown,
     SoldOnce, Go, Become, Rest, Resting
<1> QED BY <1>1, <1>2, <1>3, <1>4, <1>5, <1>6, <1>7

LEMMA ReplayAttemptSafe == ASSUME NEW w \in Requests, Safe, ReplayAttempt(w) PROVE Safe'
<1> USE AttemptAssumption DEF Safe, ReplayAttempt, At, store
<1>1. TypeOK'
  <2>1. work' \in [Requests -> Task]
    BY ZenonT(60), BecomeType, RestType, AnswerType, GoType DEF TypeOK, Task, Steps, Answers
  <2> QED
    BY <2>1, ClientType DEF TypeOK, OrderRow, Versions, Sent, CartHeld
<1>2. Sent'
  BY SMTT(60) DEF TypeOK, Task, Steps, Answers, OrderRow, Versions, Sent, Go, Answer, Become, Rest,
     Resting
<1>3. ClaimsHeld'
  BY SMTT(60) DEF TypeOK, Task, Steps, Answers, OrderRow, Versions, Sent, ClaimsHeld, Go, Answer,
     Become, Rest, Resting
<1>4. CartHeld'
  BY DEF TypeOK, Task, Steps, Answers, OrderRow, Versions, Sent, CartHeld, Go, Answer,
     Become, Rest, Resting
<1>5. OrdersKnown'
  BY DEF TypeOK, Task, Steps, Answers, OrderRow, Versions, Sent, ClaimsHeld, CartHeld,
     OrdersKnown, Bought, Go, Answer, Become, Rest, Resting
<1>6. AnswersTrue'
  BY DEF TypeOK, Task, Steps, Answers, OrderRow, Versions, Sent, ClaimsHeld, AnswersTrue,
     Go, Answer, Become, Rest, Resting
<1>7. SoldOnce'
  BY DEF TypeOK, Task, Steps, Answers, OrderRow, Versions, Sent, CartHeld, OrdersKnown,
     SoldOnce, Go, Answer, Become, Rest, Resting
<1> QED BY <1>1, <1>2, <1>3, <1>4, <1>5, <1>6, <1>7

LEMMA ClaimSafe == ASSUME NEW w \in Requests, Safe, Claim(w) PROVE Safe'
<1> USE AttemptAssumption DEF Safe, Claim, Go, Become, At, store
<1>1. TypeOK'
  BY SMTT(60) DEF TypeOK, Task, Steps, Answers, OrderRow, Versions, Sent, CartHeld
<1>2. Sent'
  BY SMTT(60) DEF TypeOK, Task, Steps, Answers, OrderRow, Versions, Sent
<1>3. ClaimsHeld'
  BY DEF TypeOK, Task, Steps, Answers, OrderRow, Versions, Sent, ClaimsHeld
<1>4. CartHeld'
  BY DEF TypeOK, Task, Steps, Answers, OrderRow, Versions, Sent, CartHeld
<1>5. OrdersKnown'
  BY DEF TypeOK, Task, Steps, Answers, OrderRow, Versions, Sent, ClaimsHeld, CartHeld,
     OrdersKnown, Bought
<1>6. AnswersTrue'
  BY DEF TypeOK, Task, Steps, Answers, OrderRow, Versions, Sent, ClaimsHeld, AnswersTrue
<1>7. SoldOnce'
  BY DEF TypeOK, Task, Steps, Answers, OrderRow, Versions, Sent, CartHeld, OrdersKnown,
     SoldOnce
<1> QED BY <1>1, <1>2, <1>3, <1>4, <1>5, <1>6, <1>7

LEMMA LockCartSafe == ASSUME NEW w \in Requests, Safe, LockCart(w) PROVE Safe'
<1> USE AttemptAssumption DEF Safe, LockCart, Go, Become, At, store
<1>1. TypeOK'
  BY DEF TypeOK, Task, Steps, Answers, OrderRow, Versions, Sent, CartHeld
<1>2. Sent'
  BY DEF TypeOK, Task, Steps, Answers, OrderRow, Versions, Sent
<1>3. ClaimsHeld'
  BY DEF TypeOK, Task, Steps, Answers, OrderRow, Versions, Sent, ClaimsHeld
<1>4. CartHeld'
  BY DEF TypeOK, Task, Steps, Answers, OrderRow, Versions, Sent, CartHeld
<1>5. OrdersKnown'
  BY DEF TypeOK, Task, Steps, Answers, OrderRow, Versions, Sent, ClaimsHeld, CartHeld,
     OrdersKnown, Bought
<1>6. AnswersTrue'
  BY DEF TypeOK, Task, Steps, Answers, OrderRow, Versions, Sent, ClaimsHeld, AnswersTrue
<1>7. SoldOnce'
  BY DEF TypeOK, Task, Steps, Answers, OrderRow, Versions, Sent, CartHeld, OrdersKnown,
     SoldOnce
<1> QED BY <1>1, <1>2, <1>3, <1>4, <1>5, <1>6, <1>7

LEMMA BuySafe == ASSUME NEW w \in Requests, Safe, Buy(w) PROVE Safe'
<1> USE AttemptAssumption DEF Safe, Buy, Go, Become, Release, At, store
<1>1. TypeOK'
  BY DEF TypeOK, Task, Steps, Answers, OrderRow, Versions, Sent, CartHeld
<1>2. Sent'
  BY SMTT(60) DEF TypeOK, Task, Steps, Answers, OrderRow, Versions, Sent
<1>3. ClaimsHeld'
  BY SMTT(60) DEF TypeOK, Task, Steps, Answers, OrderRow, Versions, Sent, ClaimsHeld
<1>4. CartHeld'
  BY DEF TypeOK, Task, Steps, Answers, OrderRow, Versions, Sent, CartHeld
<1>5. OrdersKnown'
  BY DEF TypeOK, Task, Steps, Answers, OrderRow, Versions, Sent, ClaimsHeld, CartHeld,
     OrdersKnown, Bought
<1>6. AnswersTrue'
  BY DEF TypeOK, Task, Steps, Answers, OrderRow, Versions, Sent, ClaimsHeld, AnswersTrue
<1>7. SoldOnce'
  BY DEF TypeOK, Task, Steps, Answers, OrderRow, Versions, Sent, CartHeld, OrdersKnown,
     SoldOnce
<1> QED BY <1>1, <1>2, <1>3, <1>4, <1>5, <1>6, <1>7

LEMMA CommitSafe == ASSUME NEW w \in Requests, Safe, Commit(w) PROVE Safe'
<1> USE AttemptAssumption DEF Safe, Commit, Release, At, store
<1>1. TypeOK'
  <2>1. work' \in [Requests -> Task]
    BY ZenonT(60), BecomeType, RestType, AnswerType, GoType DEF TypeOK, Task, Steps, Answers
  <2> QED
    BY <2>1, ClientType DEF TypeOK, OrderRow, Versions, Sent, CartHeld
<1>2. Sent'
  BY SMTT(30) DEF TypeOK, Task, Steps, Answers, OrderRow, Versions, Sent, Answer, Become, Rest,
     Resting
<1>3. ClaimsHeld'
  BY DEF TypeOK, Task, Steps, Answers, OrderRow, Versions, Sent, ClaimsHeld, Answer, Become,
     Rest, Resting
<1>4. CartHeld'
  BY DEF TypeOK, Task, Steps, Answers, OrderRow, Versions, Sent, CartHeld, Answer, Become,
     Rest, Resting
<1>5. OrdersKnown'
  <2> DEFINE k == work[w].key
  <2>1. k \in Keys /\ version \in Nat /\ seen[k] = version
    BY DEF TypeOK, Versions, Sent, CartHeld
  <2>2. ASSUME NEW o \in orders' PROVE row'[o.key] = "SUCCEEDED" /\ o.seen < version'
    <3>1. CASE o \in orders
      BY <2>1, <3>1 DEF TypeOK, OrderRow, Versions, OrdersKnown
    <3>2. CASE o = [key |-> k, seen |-> seen[k], at |-> version]
      BY <2>1, <3>2 DEF TypeOK
    <3> QED BY <3>1, <3>2
  <2>3. ASSUME NEW j \in Keys, row'[j] = "SUCCEEDED" PROVE Bought(j)'
    <3>1. CASE j = k
      <4>1. [key |-> k, seen |-> seen[k], at |-> version] \in orders'
        OBVIOUS
      <4> QED BY <3>1, <4>1 DEF Bought
    <3>2. CASE j # k
      <4>1. row[j] = "SUCCEEDED"
        BY <2>3, <3>2 DEF TypeOK
      <4> QED BY <4>1 DEF OrdersKnown, Bought
    <3> QED BY <3>1, <3>2
  <2> QED BY <2>2, <2>3 DEF OrdersKnown
<1>6. AnswersTrue'
  BY DEF TypeOK, Task, Steps, Answers, OrderRow, Versions, Sent, ClaimsHeld, AnswersTrue,
     Answer, Become, Rest, Resting
<1>7. SoldOnce'
  <2> DEFINE n == [key |-> work[w].key, seen |-> seen[work[w].key], at |-> version]
  <2>1. \A o \in orders : o.key # n.key /\ o.seen # n.seen
    BY DEF TypeOK, OrderRow, Versions, Sent, ClaimsHeld, CartHeld, OrdersKnown
  <2>2. orders' = orders \cup {n}
    OBVIOUS
  <2> HIDE DEF n
  <2> QED BY <2>1, <2>2 DEF SoldOnce
<1> QED BY <1>1, <1>2, <1>3, <1>4, <1>5, <1>6, <1>7

LEMMA ReplayAgainSafe == ASSUME NEW w \in Requests, Safe, ReplayAgain(w) PROVE Safe'
<1> USE AttemptAssumption DEF Safe, ReplayAgain, At, store
<1>1. TypeOK'
  <2>1. work' \in [Requests -> Task]
    BY ZenonT(60), BecomeType, RestType, AnswerType, GoType DEF TypeOK, Task, Steps, Answers
  <2> QED
    BY <2>1, ClientType DEF TypeOK, OrderRow, Versions, Sent, CartHeld
<1>2. Sent'
  BY DEF TypeOK, Task, Steps, Answers, OrderRow, Versions, Sent, Go, Answer, Become, Rest,
     Resting
<1>3. ClaimsHeld'
  BY DEF TypeOK, Task, Steps, Answers, OrderRow, Versions, Sent, ClaimsHeld, Go, Answer,
     Become, Rest, Resting
<1>4. CartHeld'
  BY DEF TypeOK, Task, Steps, Answers, OrderRow, Versions, Sent, CartHeld, Go, Answer,
     Become, Rest, Resting
<1>5. OrdersKnown'
  BY DEF TypeOK, Task, Steps, Answers, OrderRow, Versions, Sent, ClaimsHeld, CartHeld,
     OrdersKnown, Bought, Go, Answer, Become, Rest, Resting
<1>6. AnswersTrue'
  BY DEF TypeOK, Task, Steps, Answers, OrderRow, Versions, Sent, ClaimsHeld, AnswersTrue,
     Go, Answer, Become, Rest, Resting
<1>7. SoldOnce'
  BY DEF TypeOK, Task, Steps, Answers, OrderRow, Versions, Sent, CartHeld, OrdersKnown,
     SoldOnce, Go, Answer, Become, Rest, Resting
<1> QED BY <1>1, <1>2, <1>3, <1>4, <1>5, <1>6, <1>7

LEMMA RecordRejectionSafe == ASSUME NEW w \in Requests, Safe, RecordRejection(w) PROVE Safe'
<1> USE AttemptAssumption DEF Safe, RecordRejection, Go, Become, At, store
<1>1. TypeOK'
  BY DEF TypeOK, Task, Steps, Answers, OrderRow, Versions, Sent, CartHeld
<1>2. Sent'
  BY DEF TypeOK, Task, Steps, Answers, OrderRow, Versions, Sent
<1>3. ClaimsHeld'
  BY DEF TypeOK, Task, Steps, Answers, OrderRow, Versions, Sent, ClaimsHeld
<1>4. CartHeld'
  BY DEF TypeOK, Task, Steps, Answers, OrderRow, Versions, Sent, CartHeld
<1>5. OrdersKnown'
  BY DEF TypeOK, Task, Steps, Answers, OrderRow, Versions, Sent, ClaimsHeld, CartHeld,
     OrdersKnown, Bought
<1>6. AnswersTrue'
  BY DEF TypeOK, Task, Steps, Answers, OrderRow, Versions, Sent, ClaimsHeld, AnswersTrue
<1>7. SoldOnce'
  BY DEF TypeOK, Task, Steps, Answers, OrderRow, Versions, Sent, CartHeld, OrdersKnown,
     SoldOnce
<1> QED BY <1>1, <1>2, <1>3, <1>4, <1>5, <1>6, <1>7

LEMMA WinnerSafe == ASSUME NEW w \in Requests, Safe, Winner(w) PROVE Safe'
<1> USE AttemptAssumption DEF Safe, Winner, At, store
<1>1. TypeOK'
  <2>1. work' \in [Requests -> Task]
    BY ZenonT(60), BecomeType, RestType, AnswerType, GoType DEF TypeOK, Task, Steps, Answers
  <2> QED
    BY <2>1, ClientType DEF TypeOK, OrderRow, Versions, Sent, CartHeld
<1>2. Sent'
  BY DEF TypeOK, Task, Steps, Answers, OrderRow, Versions, Sent, Answer, Become, Rest,
     Resting
<1>3. ClaimsHeld'
  BY DEF TypeOK, Task, Steps, Answers, OrderRow, Versions, Sent, ClaimsHeld, Answer, Become,
     Rest, Resting
<1>4. CartHeld'
  BY DEF TypeOK, Task, Steps, Answers, OrderRow, Versions, Sent, CartHeld, Answer, Become,
     Rest, Resting
<1>5. OrdersKnown'
  BY DEF TypeOK, Task, Steps, Answers, OrderRow, Versions, Sent, ClaimsHeld, CartHeld,
     OrdersKnown, Bought, Answer, Become, Rest, Resting
<1>6. AnswersTrue'
  BY SMTT(60) DEF TypeOK, Task, Steps, Answers, OrderRow, Versions, Sent, ClaimsHeld, AnswersTrue,
     Answer, Become, Rest, Resting
<1>7. SoldOnce'
  BY DEF TypeOK, Task, Steps, Answers, OrderRow, Versions, Sent, CartHeld, OrdersKnown,
     SoldOnce, Answer, Become, Rest, Resting
<1> QED BY <1>1, <1>2, <1>3, <1>4, <1>5, <1>6, <1>7

LEMMA ReceiveSafe == ASSUME NEW w \in Requests, Safe, Receive(w) PROVE Safe'
<1> USE AttemptAssumption DEF Safe, Receive, AfterAnswer, Rest, Resting, At, store
<1>1. TypeOK'
  BY DEF TypeOK, Task, Steps, Answers, OrderRow, Versions, Sent, CartHeld
<1>2. Sent'
  BY DEF TypeOK, Task, Steps, Answers, OrderRow, Versions, Sent
<1>3. ClaimsHeld'
  BY DEF TypeOK, Task, Steps, Answers, OrderRow, Versions, Sent, ClaimsHeld
<1>4. CartHeld'
  BY DEF TypeOK, Task, Steps, Answers, OrderRow, Versions, Sent, CartHeld
<1>5. OrdersKnown'
  BY DEF TypeOK, Task, Steps, Answers, OrderRow, Versions, Sent, ClaimsHeld, CartHeld,
     OrdersKnown, Bought
<1>6. AnswersTrue'
  BY DEF TypeOK, Task, Steps, Answers, OrderRow, Versions, Sent, ClaimsHeld, AnswersTrue
<1>7. SoldOnce'
  BY DEF TypeOK, Task, Steps, Answers, OrderRow, Versions, Sent, CartHeld, OrdersKnown,
     SoldOnce
<1> QED BY <1>1, <1>2, <1>3, <1>4, <1>5, <1>6, <1>7

LEMMA StopWaitingSafe == ASSUME NEW w \in Requests, Safe, StopWaiting(w) PROVE Safe'
<1> USE AttemptAssumption DEF Safe, StopWaiting, At, store
<1>1. TypeOK'
  <2>1. work' \in [Requests -> Task]
    <3>1. CASE At(w, "ask") \/ At(w, "answer")
      BY <3>1, RestType
    <3>2. CASE ~(At(w, "ask") \/ At(w, "answer"))
      <4>1. [step |-> work[w].step, key |-> work[w].key, ans |-> "uncertain", heard |-> FALSE] \in Task
        BY DEF TypeOK, Task, Answers
      <4> QED BY <3>2, <4>1 DEF TypeOK
    <3> QED BY <3>1, <3>2
  <2>2. client' \in [Keys -> {"none", "SENDING", "IN_DOUBT", "CONFIRMED", "gone"}]
    BY ClientType DEF TypeOK
  <2> QED
    BY <2>1, <2>2 DEF TypeOK
<1>2. Sent'
  BY DEF TypeOK, Task, Steps, Answers, OrderRow, Versions, Sent, AfterAnswer, Rest, Resting
<1>3. ClaimsHeld'
  BY SMTT(30) DEF TypeOK, Task, Steps, Answers, OrderRow, Versions, Sent, ClaimsHeld, AfterAnswer,
     Rest, Resting
<1>4. CartHeld'
  BY DEF TypeOK, Task, Steps, Answers, OrderRow, Versions, Sent, CartHeld, AfterAnswer,
     Rest, Resting
<1>5. OrdersKnown'
  BY DEF TypeOK, Task, Steps, Answers, OrderRow, Versions, Sent, ClaimsHeld, CartHeld,
     OrdersKnown, Bought, AfterAnswer, Rest, Resting
<1>6. AnswersTrue'
  BY DEF TypeOK, Task, Steps, Answers, OrderRow, Versions, Sent, ClaimsHeld, AnswersTrue,
     AfterAnswer, Rest, Resting
<1>7. SoldOnce'
  BY DEF TypeOK, Task, Steps, Answers, OrderRow, Versions, Sent, CartHeld, OrdersKnown,
     SoldOnce, AfterAnswer, Rest, Resting
<1> QED BY <1>1, <1>2, <1>3, <1>4, <1>5, <1>6, <1>7

LEMMA UnauthorizedSafe == ASSUME NEW w \in Requests, Safe, Unauthorized(w) PROVE Safe'
<1> USE AttemptAssumption DEF Safe, Unauthorized, At, store
<1>1. TypeOK'
  <2>1. work' \in [Requests -> Task]
    BY ZenonT(60), BecomeType, RestType, AnswerType, GoType DEF TypeOK, Task, Steps, Answers
  <2> QED
    BY <2>1, ClientType DEF TypeOK, OrderRow, Versions, Sent, CartHeld
<1>2. Sent'
  BY DEF TypeOK, Task, Steps, Answers, OrderRow, Versions, Sent, Answer, Become, Rest,
     Resting
<1>3. ClaimsHeld'
  BY DEF TypeOK, Task, Steps, Answers, OrderRow, Versions, Sent, ClaimsHeld, Answer, Become,
     Rest, Resting
<1>4. CartHeld'
  BY SMTT(60) DEF TypeOK, Task, Steps, Answers, OrderRow, Versions, Sent, CartHeld, Answer, Become,
     Rest, Resting
<1>5. OrdersKnown'
  BY DEF TypeOK, Task, Steps, Answers, OrderRow, Versions, Sent, ClaimsHeld, CartHeld,
     OrdersKnown, Bought, Answer, Become, Rest, Resting
<1>6. AnswersTrue'
  BY SMTT(60) DEF TypeOK, Task, Steps, Answers, OrderRow, Versions, Sent, ClaimsHeld, AnswersTrue,
     Answer, Become, Rest, Resting
<1>7. SoldOnce'
  BY DEF TypeOK, Task, Steps, Answers, OrderRow, Versions, Sent, CartHeld, OrdersKnown,
     SoldOnce, Answer, Become, Rest, Resting
<1> QED BY <1>1, <1>2, <1>3, <1>4, <1>5, <1>6, <1>7

LEMMA AbortSafe == ASSUME NEW w \in Requests, Safe, Abort(w) PROVE Safe'
<1> USE AttemptAssumption DEF Safe, Abort, Release, At, store
<1>1. TypeOK'
  <2>1. work' \in [Requests -> Task]
    BY ZenonT(60), BecomeType, RestType, AnswerType, GoType DEF TypeOK, Task, Steps, Answers
  <2> QED
    BY <2>1, ClientType DEF TypeOK, OrderRow, Versions, Sent, CartHeld
<1>2. Sent'
  BY DEF TypeOK, Task, Steps, Answers, OrderRow, Versions, Sent, Go, Answer, Become, Rest,
     Resting
<1>3. ClaimsHeld'
  BY SMTT(60) DEF TypeOK, Task, Steps, Answers, OrderRow, Versions, Sent, ClaimsHeld, Go, Answer,
     Become, Rest, Resting
<1>4. CartHeld'
  BY DEF TypeOK, Task, Steps, Answers, OrderRow, Versions, Sent, CartHeld, Go, Answer,
     Become, Rest, Resting
<1>5. OrdersKnown'
  BY DEF TypeOK, Task, Steps, Answers, OrderRow, Versions, Sent, ClaimsHeld, CartHeld,
     OrdersKnown, Bought, Go, Answer, Become, Rest, Resting
<1>6. AnswersTrue'
  BY DEF TypeOK, Task, Steps, Answers, OrderRow, Versions, Sent, ClaimsHeld, AnswersTrue,
     Go, Answer, Become, Rest, Resting
<1>7. SoldOnce'
  BY DEF TypeOK, Task, Steps, Answers, OrderRow, Versions, Sent, CartHeld, OrdersKnown,
     SoldOnce, Go, Answer, Become, Rest, Resting
<1> QED BY <1>1, <1>2, <1>3, <1>4, <1>5, <1>6, <1>7

LEMMA CrashSafe == ASSUME NEW w \in Requests, Safe, Crash(w) PROVE Safe'
<1> USE AttemptAssumption DEF Safe, Crash, AfterAnswer, Rest, Resting, Release, At, store
<1>1. TypeOK'
  BY ZenonT(60) DEF TypeOK, Task, Steps, Answers, OrderRow, Versions, Sent, CartHeld
<1>2. Sent'
  BY DEF TypeOK, Task, Steps, Answers, OrderRow, Versions, Sent
<1>3. ClaimsHeld'
  BY DEF TypeOK, Task, Steps, Answers, OrderRow, Versions, Sent, ClaimsHeld
<1>4. CartHeld'
  BY DEF TypeOK, Task, Steps, Answers, OrderRow, Versions, Sent, CartHeld
<1>5. OrdersKnown'
  BY DEF TypeOK, Task, Steps, Answers, OrderRow, Versions, Sent, ClaimsHeld, CartHeld,
     OrdersKnown, Bought
<1>6. AnswersTrue'
  BY DEF TypeOK, Task, Steps, Answers, OrderRow, Versions, Sent, ClaimsHeld, AnswersTrue
<1>7. SoldOnce'
  BY DEF TypeOK, Task, Steps, Answers, OrderRow, Versions, Sent, CartHeld, OrdersKnown,
     SoldOnce
<1> QED BY <1>1, <1>2, <1>3, <1>4, <1>5, <1>6, <1>7

LEMMA ChangeCartSafe == ASSUME Safe, ChangeCart PROVE Safe'
<1> USE AttemptAssumption DEF Safe, ChangeCart, At, store
<1>1. TypeOK'
  BY DEF TypeOK, Task, Steps, Answers, OrderRow, Versions, Sent, CartHeld
<1>2. Sent'
  BY DEF TypeOK, Task, Steps, Answers, OrderRow, Versions, Sent
<1>3. ClaimsHeld'
  BY DEF TypeOK, Task, Steps, Answers, OrderRow, Versions, Sent, ClaimsHeld
<1>4. CartHeld'
  BY DEF TypeOK, Task, Steps, Answers, OrderRow, Versions, Sent, CartHeld
<1>5. OrdersKnown'
  BY DEF TypeOK, Task, Steps, Answers, OrderRow, Versions, Sent, ClaimsHeld, CartHeld,
     OrdersKnown, Bought
<1>6. AnswersTrue'
  BY DEF TypeOK, Task, Steps, Answers, OrderRow, Versions, Sent, ClaimsHeld, AnswersTrue
<1>7. SoldOnce'
  BY DEF TypeOK, Task, Steps, Answers, OrderRow, Versions, Sent, CartHeld, OrdersKnown,
     SoldOnce
<1> QED BY <1>1, <1>2, <1>3, <1>4, <1>5, <1>6, <1>7

-----------------------------------------------------------------------------

\* Every step of the shopper's device and of the API keeps the invariant.
LEMMA SafeNext == Safe /\ [Next]_vars => Safe'
<1> SUFFICES ASSUME Safe, [Next]_vars PROVE Safe'
  OBVIOUS
<1>1. ASSUME NEW w \in Requests, NEW k \in Keys, CreateAttempt(w, k) \/ Recover(w, k) PROVE Safe'
  BY <1>1, CreateAttemptSafe, RecoverSafe
<1>2. ASSUME NEW w \in Requests, Advance(w) PROVE Safe'
  BY <1>2, GetAttemptSafe, ReplayAttemptSafe, ClaimSafe, LockCartSafe, BuySafe, CommitSafe,
     ReplayAgainSafe, RecordRejectionSafe, WinnerSafe, ReceiveSafe DEF Advance
<1>3. ASSUME NEW w \in Requests, Fault(w) PROVE Safe'
  BY <1>3, StopWaitingSafe, UnauthorizedSafe, AbortSafe, CrashSafe DEF Fault
<1>4. CASE ChangeCart
  BY <1>4, ChangeCartSafe
<1>5. CASE UNCHANGED vars
  BY <1>5 DEF vars, Safe, TypeOK, Sent, ClaimsHeld, CartHeld, OrdersKnown, AnswersTrue, SoldOnce, At, Bought
<1> QED BY <1>1, <1>2, <1>3, <1>4, <1>5 DEF Next

\* The inductive invariant of POST /orders and of the device that sends it.
THEOREM SafeHolds == Spec => []Safe
<1>1. Init => Safe
  BY SafeInit
<1>2. Safe /\ [Next]_vars => Safe'
  BY SafeNext
<1> QED BY <1>1, <1>2, PTL DEF Spec

\* The rows of attempts, orders and carts, and the requests, are well formed.
THEOREM TypeCorrect == Spec => []TypeOK
<1>1. Safe => TypeOK
  BY DEF Safe
<1> QED BY <1>1, SafeHolds, PTL

\* POST /orders makes one order of a purchase and of a revision of the cart,
\* however often, from wherever and with whatever keys it is sent.
THEOREM SoldOnceHolds == Spec => []SoldOnce
<1>1. Safe => SoldOnce
  BY DEF Safe
<1> QED BY <1>1, SafeHolds, PTL

\* A refusal that OrdersService.create has answered is never followed by an
\* order of the same purchase.
THEOREM RefusalIsFinalHolds == Spec => []RefusalIsFinal
<1>1. Safe => RefusalIsFinal
  BY DEF Safe, TypeOK, OrdersKnown, AnswersTrue, RefusalIsFinal, Bought
<1> QED BY <1>1, SafeHolds, PTL

-----------------------------------------------------------------------------
(* The refinement of Purchase *)

LEMMA InitRefines == Init => Abstract!Init
BY DEF Init, Abstract!Init

\* Steps that decide nothing and tell nothing.
LEMMA QuietStep ==
  ASSUME UNCHANGED <<row, orders, told>> PROVE UNCHANGED Abstract!vars
BY DEF Abstract!vars

LEMMA CommitBuys ==
  ASSUME Safe, NEW w \in Requests, Commit(w) PROVE Abstract!Next
<1> DEFINE k == work[w].key
<1>1. k \in Keys /\ row[k] = "none" /\ version \in Versions /\ seen[k] \in Versions /\ seen[k] = version
  BY DEF Safe, TypeOK, Sent, ClaimsHeld, CartHeld, Commit, At
<1>2. \A o \in orders : o.key # k /\ o.seen # seen[k]
  BY <1>1 DEF Safe, TypeOK, OrderRow, Versions, OrdersKnown
<1>3. {j \in Keys : row'[j] = "REJECTED"} = {j \in Keys : row[j] = "REJECTED"}
  BY <1>1 DEF Safe, TypeOK, Commit
<1>4. Abstract!Buy(k, seen[k], version)
  BY <1>1, <1>2, <1>3 DEF Commit, Abstract!Buy
<1> QED BY <1>1, <1>4 DEF Abstract!Next

LEMMA RecordRefuses ==
  ASSUME Safe, NEW w \in Requests, RecordRejection(w) PROVE [Abstract!Next]_(Abstract!vars)
<1>1. PICK k \in Keys : work[w].key = k
  BY DEF Safe, Sent, RecordRejection, At
<1>2. CASE row[k] = "none"
  <2>1. {j \in Keys : row'[j] = "REJECTED"} = {j \in Keys : row[j] = "REJECTED"} \cup {k}
    BY <1>1, <1>2 DEF Safe, TypeOK, RecordRejection
  <2>2. \A o \in orders : o.key # k
    BY <1>2 DEF Safe, OrdersKnown
  <2>3. Abstract!Refuse(k)
    BY <2>1, <2>2 DEF RecordRejection, Abstract!Refuse, Abstract!Bought
  <2> QED BY <2>3 DEF Abstract!Next
<1>3. CASE row[k] # "none"
  <2>1. row' = row
    BY <1>1, <1>3 DEF Safe, TypeOK, RecordRejection
  <2> QED BY <2>1, QuietStep DEF RecordRejection
<1> QED BY <1>2, <1>3

\* Telling what the row of the attempt says.
LEMMA TellRefines ==
  ASSUME Safe, NEW k \in Keys, NEW what \in {"bought", "refused"},
         row[k] = IF what = "bought" THEN "SUCCEEDED" ELSE "REJECTED",
         told' = [told EXCEPT ![k] = @ \cup {what}], UNCHANGED <<row, orders>>
  PROVE  Abstract!Next
<1>1. Abstract!Tell(k, what)
  BY DEF Safe, OrdersKnown, Bought, Abstract!Tell, Abstract!Bought
<1> QED BY <1>1 DEF Abstract!Next

LEMMA GetAttemptTells ==
  ASSUME Safe, NEW w \in Requests, GetAttempt(w) PROVE [Abstract!Next]_(Abstract!vars)
<1> DEFINE k == work[w].key
<1>1. k \in Keys /\ UNCHANGED <<row, orders>>
  BY DEF Safe, Sent, GetAttempt, At, store
<1>2. CASE row[k] = "none"
  BY <1>1, <1>2, QuietStep DEF GetAttempt
<1>3. CASE row[k] = "SUCCEEDED"
  BY <1>1, <1>3, TellRefines DEF GetAttempt
<1>4. CASE row[k] = "REJECTED"
  BY <1>1, <1>4, TellRefines DEF GetAttempt
<1> QED BY <1>2, <1>3, <1>4 DEF GetAttempt

LEMMA ReceiveTells ==
  ASSUME Safe, NEW w \in Requests, Receive(w) PROVE [Abstract!Next]_(Abstract!vars)
<1> DEFINE k == work[w].key
<1>1. k \in Keys /\ UNCHANGED <<row, orders>> /\ work[w].ans \in Answers
  BY DEF Safe, TypeOK, Task, Sent, Receive, At, store
<1>2. told' = [told EXCEPT ![k] = @ \cup ({work[w].ans} \cap {"bought", "refused"})]
  BY DEF Receive
<1>3. CASE work[w].ans \in {"bought", "refused"}
  <2>1. told' = [told EXCEPT ![k] = @ \cup {work[w].ans}]
    <3>1. {work[w].ans} \cap {"bought", "refused"} = {work[w].ans}
      BY <1>3
    <3> QED BY <1>2, <3>1
  <2>2. row[k] = IF work[w].ans = "bought" THEN "SUCCEEDED" ELSE "REJECTED"
    BY <1>3 DEF Safe, AnswersTrue, Receive, At
  <2> QED BY <1>1, <1>3, <2>1, <2>2, TellRefines
<1>4. CASE work[w].ans \notin {"bought", "refused"}
  <2>1. {work[w].ans} \cap {"bought", "refused"} = {}
    BY <1>4
  <2>2. told' = told
    BY <1>2, <2>1 DEF Safe, TypeOK
  <2> QED BY <1>1, <2>2, QuietStep
<1> QED BY <1>3, <1>4

LEMMA NextRefines == Safe /\ [Next]_vars => [Abstract!Next]_(Abstract!vars)
<1> SUFFICES ASSUME Safe, [Next]_vars PROVE [Abstract!Next]_(Abstract!vars)
  OBVIOUS
<1>1. ASSUME NEW w \in Requests, NEW k \in Keys, CreateAttempt(w, k) \/ Recover(w, k)
      PROVE  UNCHANGED <<row, orders, told>>
  BY <1>1 DEF CreateAttempt, Recover, store
<1>2. ASSUME NEW w \in Requests, Fault(w) PROVE UNCHANGED <<row, orders, told>>
  BY <1>2 DEF Fault, StopWaiting, Unauthorized, Abort, Crash, store
<1>3. ASSUME NEW w \in Requests,
             \/ ReplayAttempt(w) \/ Claim(w) \/ LockCart(w) \/ Buy(w) \/ ReplayAgain(w) \/ Winner(w)
      PROVE  UNCHANGED <<row, orders, told>>
  BY <1>3 DEF ReplayAttempt, Claim, LockCart, Buy, ReplayAgain, Winner, store
<1>4. ASSUME NEW w \in Requests, Advance(w) PROVE [Abstract!Next]_(Abstract!vars)
  BY <1>3, <1>4, QuietStep, CommitBuys, RecordRefuses, GetAttemptTells, ReceiveTells DEF Advance
<1>5. CASE ChangeCart \/ UNCHANGED vars
  BY <1>5, QuietStep DEF ChangeCart, vars
<1> QED BY <1>1, <1>2, <1>4, <1>5, QuietStep DEF Next

\* The protocol between the device and POST /orders implements a purchase that
\* is decided once and of which only the decision is told.
THEOREM PurchaseImplemented == Spec => ImplementsPurchase
<1>1. Init => Abstract!Init
  BY InitRefines
<1>2. Safe /\ [Next]_vars => [Abstract!Next]_(Abstract!vars)
  BY NextRefines
<1> QED BY <1>1, <1>2, SafeHolds, PTL DEF Spec, ImplementsPurchase, Abstract!Spec
=============================================================================
