----------------------------- MODULE ShopProofs -----------------------------
(***************************************************************************)
(* Theorems about one store.  First the locks: whatever the rows and the   *)
(* transactions, flows that keep the order of tx.util.ts never wait for    *)
(* each other in a cycle.  Then the store as a whole: what is proved of    *)
(* its stock, its payments and its locks holds in MCShop too, which runs   *)
(* them together in scenes.                                                *)
(*                                                                         *)
(* The invariant of the locks: an ordered flow has at most one segment     *)
(* left, it is sorted, and every row it holds or asks for comes before all *)
(* the rows that are left; the row it asks for comes after all it holds.   *)
(* In a cycle of such flows the last row that is asked for is held by one  *)
(* that asks for a row still later.                                        *)
(***************************************************************************)
EXTENDS MCShop, CheckoutStockProofs, TLAPS

Money == INSTANCE PaymentProtocolProofs

-----------------------------------------------------------------------------
(* The locks *)

Keeps(f) == f.kind \notin Unordered

Before(t, R) == \A r \in R : /\ \A q \in held[t] : Rank[q] < Rank[r]
                             /\ wants[t] # NoLock => Rank[wants[t]] < Rank[r]
OneSortedLeft(t) == todo[t] = << >> \/ \E R \in SUBSET LockRows : todo[t] = <<Sorted(R)>> /\ Before(t, R)
AsksForALater(t) == wants[t] # NoLock => \A q \in held[t] : Rank[q] < Rank[wants[t]]

LockShape ==
  /\ flow \in [Txs -> Flows \cup {NoFlow}] /\ DOMAIN todo = Txs
  /\ wants \in [Txs -> LockRows \cup {NoLock}]
  /\ held \in [Txs -> SUBSET LockRows]
  /\ DOMAIN tries = Txs

InOrder ==
  /\ LockShape
  /\ \A t \in Txs : flow[t] = NoFlow => wants[t] = NoLock /\ held[t] = {} /\ todo[t] = << >>
  /\ \A t \in Txs : Keeps(flow[t]) => OneSortedLeft(t) /\ AsksForALater(t)

-----------------------------------------------------------------------------

\* A flow that keeps the order has one segment, and it is sorted.
LEMMA OneSegment ==
  ASSUME NEW f \in Flows, Keeps(f)
  PROVE  \E R \in SUBSET LockRows : f.plan = <<Sorted(R)>>
<1>1. \A V \in SUBSET Shelves : Moves(V) \in SUBSET LockRows
  BY LockAssumption DEF Moves, LockRows
<1>2. f \notin ExpiringMutations \cup PricedCounts \cup Discounts
  <2> USE DEF Keeps, Unordered
  <2>1. f \notin ExpiringMutations
    <3>1. ASSUME f \in ExpiringMutations PROVE FALSE
      <4>1. PICK c \in CartLocks, X \in Some, V \in Some : f = Expiring(c, X, V)
        BY <3>1 DEF ExpiringMutations
      <4> QED BY <4>1 DEF Expiring, Does
    <3> QED BY <3>1
  <2>2. f \notin PricedCounts
    <3>1. ASSUME f \in PricedCounts PROVE FALSE
      <4>1. PICK V \in OneShelf :
               f = Does("priced_count", <<Sorted(V), AsFound(WholeShelf(V)), Sorted({ProductOf[v] : v \in V})>>)
        BY <3>1 DEF PricedCounts
      <4> QED BY <4>1 DEF Does
    <3> QED BY <3>1
  <2>3. f \notin Discounts
    <3>1. ASSUME f \in Discounts PROVE FALSE
      <4>1. PICK v \in Shelves : f = Does("discount", <<AsFound(WholeShelf({v}))>>)
        BY <3>1 DEF Discounts
      <4> QED BY <4>1 DEF Does
    <3> QED BY <3>1
  <2> QED BY <2>1, <2>2, <2>3
<1>3. CASE f \in Mutations
  <2>1. PICK c \in CartLocks, V \in SUBSET Shelves : f = Does("mutation", <<Sorted({c} \cup Moves(V))>>)
    BY <1>3 DEF Mutations
  <2>2. {c} \cup Moves(V) \in SUBSET LockRows
    BY <1>1 DEF LockRows
  <2> QED BY <2>1, <2>2 DEF Does
<1>4. CASE f \in Expiries
  <2>1. PICK c \in CartLocks, V \in Some : f = Does("expiry", <<Sorted({c} \cup Moves(V))>>)
    BY <1>4 DEF Expiries
  <2>2. {c} \cup Moves(V) \in SUBSET LockRows
    BY <1>1 DEF LockRows, Some
  <2> QED BY <2>1, <2>2 DEF Does
<1>5. CASE f \in Checkouts
  <2>1. PICK k \in AttemptLocks, c \in CartLocks, V \in SUBSET Shelves :
           f = Does("checkout", <<Sorted({k, c} \cup Moves(V))>>)
    BY <1>5 DEF Checkouts
  <2>2. {k, c} \cup Moves(V) \in SUBSET LockRows
    BY <1>1 DEF LockRows
  <2> QED BY <2>1, <2>2 DEF Does
<1>6. CASE f \in OrderChanges
  <2>1. PICK o \in OrderLocks, V \in SUBSET Shelves : f = Does("order", <<Sorted({o} \cup Moves(V))>>)
    BY <1>6 DEF OrderChanges
  <2>2. {o} \cup Moves(V) \in SUBSET LockRows
    BY <1>1 DEF LockRows
  <2> QED BY <2>1, <2>2 DEF Does
<1>7. CASE f \in Sales
  BY <1>1, <1>7 DEF Sales, Does, Some
<1>8. CASE f \in Counts
  <2>1. PICK V \in OneShelf : f = Does("count", <<Sorted(V \cup {ProductOf[v] : v \in V})>>)
    BY <1>8 DEF Counts
  <2>2. V \cup {ProductOf[v] : v \in V} \in SUBSET LockRows
    BY LockAssumption DEF OneShelf, Some, LockRows
  <2> QED BY <2>1, <2>2 DEF Does
<1> QED BY <1>2, <1>3, <1>4, <1>5, <1>6, <1>7, <1>8 DEF Flows

\* What is left of a sorted segment when its first row is taken comes after it.
LEMMA RestOfSorted ==
  ASSUME NEW t \in Txs, NEW r, NEW R \in SUBSET LockRows, todo[t] = <<Sorted(R)>>,
         r \in Head(todo[t]).rows,
         Head(todo[t]).sorted => \A q \in Head(todo[t]).rows : Rank[r] <= Rank[q]
  PROVE  /\ r \in R
         /\ Left(t, r) = << >> \/ Left(t, r) = <<Sorted(R \ {r})>>
         /\ \A q \in R \ {r} : Rank[r] < Rank[q]
<1>1. Head(todo[t]) = Sorted(R) /\ Tail(todo[t]) = << >>
  OBVIOUS
<1>2. r \in R /\ \A q \in R : Rank[r] <= Rank[q]
  BY <1>1 DEF Sorted
<1>3. \A q \in R \ {r} : Rank[r] < Rank[q]
  BY <1>2, LockAssumption
<1>4. Without(r, Head(todo[t])) = Sorted(R \ {r})
  <2>1. Without(r, Sorted(R)) = Sorted(R \ {r})
    BY DEF Sorted, Without
  <2> QED BY <1>1, <2>1
<1>5. <<Sorted(R \ {r})>> \o << >> = <<Sorted(R \ {r})>>
  OBVIOUS
<1>6. Left(t, r) = << >> \/ Left(t, r) = <<Sorted(R \ {r})>>
  BY <1>1, <1>4, <1>5 DEF Left
<1> QED BY <1>2, <1>3, <1>6

-----------------------------------------------------------------------------

\* Every transaction begins with nothing.
LEMMA InitInOrder == LockInit => InOrder
<1> SUFFICES ASSUME LockInit PROVE InOrder
  OBVIOUS
<1> USE DEF LockInit
<1>1. LockShape
  BY DEF LockShape
<1>2. \A t \in Txs : OneSortedLeft(t) /\ AsksForALater(t)
  BY ZenonT(60) DEF OneSortedLeft, AsksForALater
<1> QED BY <1>1, <1>2 DEF InOrder

\* The parts of the invariant hold for a transaction that holds nothing and has
\* its whole plan before it, or none.
LEMMA FreshIsInOrder ==
  ASSUME LockAssumption, NEW t \in Txs, LockShape',
         wants'[t] = NoLock, held'[t] = {},
         \/ flow'[t] \in Flows /\ todo'[t] = flow'[t].plan
         \/ flow'[t] = NoFlow /\ todo'[t] = << >>
  PROVE  Keeps(flow'[t]) => (OneSortedLeft(t) /\ AsksForALater(t))'
<1> SUFFICES ASSUME Keeps(flow'[t]) PROVE (OneSortedLeft(t) /\ AsksForALater(t))'
  OBVIOUS
<1>1. AsksForALater(t)'
  BY DEF AsksForALater
<1>2. CASE flow'[t] = NoFlow /\ todo'[t] = << >>
  BY <1>1, <1>2 DEF OneSortedLeft
<1>3. CASE flow'[t] \in Flows /\ todo'[t] = flow'[t].plan
  <2>1. PICK R \in SUBSET LockRows : todo'[t] = <<Sorted(R)>>
    BY <1>3, OneSegment
  <2>2. Before(t, R)'
    BY DEF Before
  <2> QED BY <1>1, <2>1, <2>2 DEF OneSortedLeft
<1> QED BY <1>2, <1>3

\* A step of one transaction leaves the others as they are.
LEMMA OthersStay ==
  ASSUME NEW t \in Txs,
         flow'[t] = flow[t], todo'[t] = todo[t], wants'[t] = wants[t], held'[t] = held[t],
         Keeps(flow[t]) => OneSortedLeft(t) /\ AsksForALater(t)
  PROVE  Keeps(flow'[t]) => (OneSortedLeft(t) /\ AsksForALater(t))'
BY DEF OneSortedLeft, AsksForALater, Before


-----------------------------------------------------------------------------

\* Taking the next row, or asking for it, keeps the order.
LEMMA LockKeepsOrder ==
  ASSUME InOrder, NEW t \in Txs, NEW r \in LockRows, Lock(t, r)
  PROVE  InOrder'
<1> USE DEF InOrder
<1>1. todo' = [todo EXCEPT ![t] = Left(t, r)] /\ flow' = flow /\ tries' = tries
  BY DEF Lock
<1>2. \/ wants' = [wants EXCEPT ![t] = r] /\ held' = held
      \/ held' = [held EXCEPT ![t] = @ \cup {r}] /\ wants' = wants
  BY DEF Lock
<1>3. LockShape'
  BY <1>1, <1>2 DEF LockShape
<1>4. todo[t] # << >> /\ wants[t] = NoLock
  BY DEF Lock
<1>5. \A u \in Txs : flow'[u] = NoFlow => wants'[u] = NoLock /\ held'[u] = {} /\ todo'[u] = << >>
  <2>1. flow[t] # NoFlow
    BY <1>4
  <2> QED BY <1>1, <1>2, <2>1 DEF LockShape
<1>6. Keeps(flow'[t]) => (OneSortedLeft(t) /\ AsksForALater(t))'
  <2> SUFFICES ASSUME Keeps(flow'[t]) PROVE (OneSortedLeft(t) /\ AsksForALater(t))'
    OBVIOUS
  <2>1. Keeps(flow[t])
    BY <1>1
  <2>2. PICK R \in SUBSET LockRows : todo[t] = <<Sorted(R)>> /\ Before(t, R)
    BY <1>4, <2>1 DEF OneSortedLeft
  <2>3. /\ r \in R
        /\ Left(t, r) = << >> \/ Left(t, r) = <<Sorted(R \ {r})>>
        /\ \A q \in R \ {r} : Rank[r] < Rank[q]
    BY <2>2, RestOfSorted DEF Lock
  <2>4. todo'[t] = << >> \/ todo'[t] = <<Sorted(R \ {r})>>
    BY <1>1, <2>3 DEF LockShape
  <2>5. Before(t, R \ {r})'
    BY <1>2, <1>4, <2>2, <2>3 DEF Before, LockShape
  <2>6. AsksForALater(t)'
    BY <1>2, <1>4, <2>2, <2>3 DEF Before, LockShape, AsksForALater
  <2> QED BY <2>4, <2>5, <2>6 DEF OneSortedLeft
<1>7. \A u \in Txs \ {t} : Keeps(flow'[u]) => (OneSortedLeft(u) /\ AsksForALater(u))'
  <2> TAKE u \in Txs \ {t}
  <2>1. flow'[u] = flow[u] /\ todo'[u] = todo[u] /\ wants'[u] = wants[u] /\ held'[u] = held[u]
    BY <1>1, <1>2 DEF LockShape
  <2> QED BY <2>1, OthersStay
<1> QED BY <1>3, <1>5, <1>6, <1>7

\* So does getting the row that was asked for.
LEMMA GrantKeepsOrder ==
  ASSUME InOrder, NEW t \in Txs, Grant(t)
  PROVE  InOrder'
<1> USE DEF InOrder
<1>1. /\ held' = [held EXCEPT ![t] = @ \cup {wants[t]}] /\ wants' = [wants EXCEPT ![t] = NoLock]
      /\ flow' = flow /\ todo' = todo /\ tries' = tries /\ wants[t] # NoLock
  BY DEF Grant
<1>2. LockShape'
  BY <1>1 DEF LockShape
<1>3. \A u \in Txs : flow'[u] = NoFlow => wants'[u] = NoLock /\ held'[u] = {} /\ todo'[u] = << >>
  BY <1>1 DEF LockShape
<1>4. Keeps(flow'[t]) => (OneSortedLeft(t) /\ AsksForALater(t))'
  BY <1>1 DEF OneSortedLeft, Before, AsksForALater, LockShape
<1>5. \A u \in Txs \ {t} : Keeps(flow'[u]) => (OneSortedLeft(u) /\ AsksForALater(u))'
  <2> TAKE u \in Txs \ {t}
  <2>1. flow'[u] = flow[u] /\ todo'[u] = todo[u] /\ wants'[u] = wants[u] /\ held'[u] = held[u]
    BY <1>1 DEF LockShape
  <2> QED BY <2>1, OthersStay
<1> QED BY <1>2, <1>3, <1>4, <1>5

\* A transaction that begins, ends or begins again starts with nothing.
LEMMA AnewKeepsOrder ==
  ASSUME InOrder, NEW t \in Txs,
         LockShape',
         wants'[t] = NoLock, held'[t] = {},
         \/ flow'[t] \in Flows /\ todo'[t] = flow'[t].plan
         \/ flow'[t] = NoFlow /\ todo'[t] = << >>,
         \A u \in Txs \ {t} : /\ flow'[u] = flow[u] /\ todo'[u] = todo[u]
                              /\ wants'[u] = wants[u] /\ held'[u] = held[u]
  PROVE  InOrder'
<1> USE DEF InOrder
<1>1. \A u \in Txs : flow'[u] = NoFlow => wants'[u] = NoLock /\ held'[u] = {} /\ todo'[u] = << >>
  <2>1. flow'[t] = NoFlow => todo'[t] = << >>
    BY DEF NoFlow, Does
  <2> QED BY <2>1
<1>2. Keeps(flow'[t]) => (OneSortedLeft(t) /\ AsksForALater(t))'
  BY FreshIsInOrder, LockAssumption
<1>3. \A u \in Txs \ {t} : Keeps(flow'[u]) => (OneSortedLeft(u) /\ AsksForALater(u))'
  BY OthersStay
<1> QED BY <1>1, <1>2, <1>3

-----------------------------------------------------------------------------

\* Every step of every transaction keeps the order.
LEMMA StepKeepsOrder == InOrder /\ [LockNext]_lockVars => InOrder'
<1> SUFFICES ASSUME InOrder, [LockNext]_lockVars PROVE InOrder'
  OBVIOUS
<1>1. ASSUME NEW t \in Txs, NEW f \in Flows, Begin(t, f) PROVE InOrder'
  <2>2. /\ flow' = [flow EXCEPT ![t] = f] /\ todo' = [todo EXCEPT ![t] = f.plan]
        /\ wants' = wants /\ held' = held /\ tries' = tries /\ flow[t] = NoFlow
    BY <1>1 DEF Begin, Running
  <2>4. LockShape'
    BY <2>2 DEF LockShape, InOrder
  <2>5. wants[t] = NoLock /\ held[t] = {}
    BY <2>2 DEF InOrder
  <2>6. /\ flow'[t] = f /\ todo'[t] = f.plan
        /\ \A u \in Txs \ {t} : flow'[u] = flow[u] /\ todo'[u] = todo[u]
    BY <2>2 DEF InOrder, LockShape
  <2> QED BY <2>2, <2>4, <2>5, <2>6, AnewKeepsOrder
<1>2. ASSUME NEW t \in Txs, End(t) PROVE InOrder'
  <2>1. LockShape'
    BY <1>2 DEF End, LockShape, InOrder
  <2>2. /\ flow'[t] = NoFlow /\ todo'[t] = << >> /\ wants'[t] = NoLock /\ held'[t] = {}
        /\ \A u \in Txs \ {t} : /\ flow'[u] = flow[u] /\ todo'[u] = todo[u]
                                /\ wants'[u] = wants[u] /\ held'[u] = held[u]
    BY <1>2 DEF End, LockShape, InOrder
  <2> QED BY <2>1, <2>2, AnewKeepsOrder
<1>3. ASSUME NEW t \in Txs, NEW count, Restart(t, count), wants[t] # NoLock PROVE InOrder'
  <2>1. LockShape'
    BY <1>3 DEF Restart, LockShape, InOrder
  <2>2. flow[t] # NoFlow /\ flow[t] \in Flows
    BY <1>3 DEF InOrder, LockShape
  <2>3. /\ flow'[t] = flow[t] /\ todo'[t] = flow[t].plan /\ wants'[t] = NoLock /\ held'[t] = {}
        /\ \A u \in Txs \ {t} : /\ flow'[u] = flow[u] /\ todo'[u] = todo[u]
                                /\ wants'[u] = wants[u] /\ held'[u] = held[u]
    BY <1>3 DEF Restart, LockShape, InOrder
  <2> QED BY <2>1, <2>2, <2>3, AnewKeepsOrder
<1>4. ASSUME NEW t \in Txs, AbortVictim(t) PROVE InOrder'
  <2>1. wants[t] # NoLock
    BY <1>4 DEF AbortVictim, InCycle, WaitCycle, Waits
  <2> QED BY <1>2, <1>3, <1>4, <2>1 DEF AbortVictim
<1>5. CASE UNCHANGED lockVars
  BY <1>5 DEF lockVars, InOrder, LockShape, OneSortedLeft, AsksForALater, Before
<1> QED
  BY <1>1, <1>2, <1>4, <1>5, LockKeepsOrder, GrantKeepsOrder DEF LockNext, CommitTx, TimeOut

\* The flows that keep the order of tx.util.ts never wait for each other in a
\* cycle, whatever the rows, the products and the number of transactions.
THEOREM OrderedNeverDeadlock == LockSpec => []CycleHasAnUnordered
<1>1. InOrder => CycleHasAnUnordered
  <2> SUFFICES ASSUME InOrder, NEW C \in SUBSET Txs, WaitCycle(C), \A t \in C : Keeps(flow[t])
               PROVE  FALSE
    BY DEF CycleHasAnUnordered, Keeps
  <2> DEFINE asked == {wants[t] : t \in C}
  <2>1. asked \in (SUBSET LockRows) \ {{}}
    <3>1. C # {} /\ \A t \in C : wants[t] \in LockRows
      BY DEF WaitCycle, Waits, InOrder, LockShape
    <3> QED BY <3>1
  <2>2. PICK r \in asked : \A q \in asked : Rank[q] <= Rank[r]
    BY <2>1, LockAssumption
  <2>3. PICK t \in C : r = wants[t]
    OBVIOUS
  <2>4. PICK u \in C : Waits(t, u)
    BY DEF WaitCycle
  <2>5. wants[u] # NoLock /\ wants[u] \in asked
    BY DEF WaitCycle, Waits
  <2>6. r \in held[u]
    BY <2>3, <2>4 DEF Waits
  <2>7. Rank[r] < Rank[wants[u]]
    BY <2>5, <2>6 DEF InOrder, AsksForALater
  <2>8. Rank[wants[u]] <= Rank[r]
    BY <2>2, <2>5
  <2>9. Rank[r] \in Nat /\ Rank[wants[u]] \in Nat
    BY <2>1, <2>5, LockAssumption
  <2> QED BY <2>7, <2>8, <2>9
<1> QED BY <1>1, InitInOrder, StepKeepsOrder, PTL DEF LockSpec

-----------------------------------------------------------------------------
(* The types *)

\* A segment of rows, in either order, is one.
LEMMA SegmentType ==
  ASSUME NEW R \in SUBSET LockRows
  PROVE  Sorted(R) \in Segment /\ AsFound(R) \in Segment
BY DEF Sorted, AsFound, Segment

\* Every flow locks segments of rows.
LEMMA PlanType ==
  ASSUME NEW f \in Flows
  PROVE  f \in [kind : Kinds, plan : Seq(Segment)]
<1>1. \A V \in SUBSET Shelves : Moves(V) \in SUBSET LockRows /\ {ProductOf[v] : v \in V} \in SUBSET LockRows
  BY LockAssumption DEF Moves, LockRows
<1>2. \A V \in SUBSET Shelves : V \in SUBSET LockRows /\ WholeShelf(V) \in SUBSET LockRows
  BY DEF LockRows, WholeShelf
<1>3. \A kind \in Kinds, plan \in Seq(Segment) : Does(kind, plan) \in [kind : Kinds, plan : Seq(Segment)]
  BY DEF Does
<1>4. /\ \A s \in Segment : <<s>> \in Seq(Segment)
      /\ \A s, u \in Segment : <<s, u>> \in Seq(Segment)
      /\ \A s, u, w \in Segment : <<s, u, w>> \in Seq(Segment)
  OBVIOUS
<1>5. CASE f \in Mutations
  <2>1. PICK c \in CartLocks, V \in SUBSET Shelves : f = Does("mutation", <<Sorted({c} \cup Moves(V))>>)
    BY <1>5 DEF Mutations
  <2>2. {c} \cup Moves(V) \in SUBSET LockRows
    BY <1>1 DEF LockRows
  <2>3. <<Sorted({c} \cup Moves(V))>> \in Seq(Segment)
    BY <1>4, <2>2, SegmentType
  <2> QED BY <1>3, <2>1, <2>3 DEF Kinds
<1>6. CASE f \in ExpiringMutations
  <2>1. PICK c \in CartLocks, X \in Some, V \in Some : f = Expiring(c, X, V)
    BY <1>6 DEF ExpiringMutations
  <2>2. {c} \cup Moves(X) \in SUBSET LockRows /\ Moves(V) \in SUBSET LockRows
    BY <1>1 DEF LockRows, Some
  <2>3. <<Sorted({c} \cup Moves(X)), Sorted(Moves(V))>> \in Seq(Segment)
    BY <1>4, <2>2, SegmentType
  <2> QED BY <1>3, <2>1, <2>3 DEF Expiring, Kinds, Unordered
<1>7. CASE f \in Expiries
  <2>1. PICK c \in CartLocks, V \in Some : f = Does("expiry", <<Sorted({c} \cup Moves(V))>>)
    BY <1>7 DEF Expiries
  <2>2. {c} \cup Moves(V) \in SUBSET LockRows
    BY <1>1 DEF LockRows, Some
  <2>3. <<Sorted({c} \cup Moves(V))>> \in Seq(Segment)
    BY <1>4, <2>2, SegmentType
  <2> QED BY <1>3, <2>1, <2>3 DEF Kinds
<1>8. CASE f \in Checkouts
  <2>1. PICK k \in AttemptLocks, c \in CartLocks, V \in SUBSET Shelves :
           f = Does("checkout", <<Sorted({k, c} \cup Moves(V))>>)
    BY <1>8 DEF Checkouts
  <2>2. {k, c} \cup Moves(V) \in SUBSET LockRows
    BY <1>1 DEF LockRows
  <2>3. <<Sorted({k, c} \cup Moves(V))>> \in Seq(Segment)
    BY <1>4, <2>2, SegmentType
  <2> QED BY <1>3, <2>1, <2>3 DEF Kinds
<1>9. CASE f \in OrderChanges
  <2>1. PICK o \in OrderLocks, V \in SUBSET Shelves : f = Does("order", <<Sorted({o} \cup Moves(V))>>)
    BY <1>9 DEF OrderChanges
  <2>2. {o} \cup Moves(V) \in SUBSET LockRows
    BY <1>1 DEF LockRows
  <2>3. <<Sorted({o} \cup Moves(V))>> \in Seq(Segment)
    BY <1>4, <2>2, SegmentType
  <2> QED BY <1>3, <2>1, <2>3 DEF Kinds
<1>10. CASE f \in Sales
  <2>1. PICK V \in Some : f = Does("sale", <<Sorted(Moves(V))>>)
    BY <1>10 DEF Sales
  <2>2. <<Sorted(Moves(V))>> \in Seq(Segment)
    BY <1>1, <1>4, SegmentType DEF Some
  <2> QED BY <1>3, <2>1, <2>2 DEF Kinds
<1>11. CASE f \in Counts
  <2>1. PICK V \in OneShelf : f = Does("count", <<Sorted(V \cup {ProductOf[v] : v \in V})>>)
    BY <1>11 DEF Counts
  <2>2. V \cup {ProductOf[v] : v \in V} \in SUBSET LockRows
    BY <1>1, <1>2 DEF OneShelf, Some
  <2>3. <<Sorted(V \cup {ProductOf[v] : v \in V})>> \in Seq(Segment)
    BY <1>4, <2>2, SegmentType
  <2> QED BY <1>3, <2>1, <2>3 DEF Kinds
<1>12. CASE f \in PricedCounts
  <2>1. PICK V \in OneShelf :
           f = Does("priced_count", <<Sorted(V), AsFound(WholeShelf(V)), Sorted({ProductOf[v] : v \in V})>>)
    BY <1>12 DEF PricedCounts
  <2>2. Sorted(V) \in Segment /\ AsFound(WholeShelf(V)) \in Segment /\ Sorted({ProductOf[v] : v \in V}) \in Segment
    BY <1>1, <1>2, SegmentType DEF OneShelf, Some
  <2>3. <<Sorted(V), AsFound(WholeShelf(V)), Sorted({ProductOf[v] : v \in V})>> \in Seq(Segment)
    BY <1>4, <2>2
  <2> QED BY <1>3, <2>1, <2>3 DEF Kinds, Unordered
<1>13. CASE f \in Discounts
  <2>1. PICK v \in Shelves : f = Does("discount", <<AsFound(WholeShelf({v}))>>)
    BY <1>13 DEF Discounts
  <2>2. <<AsFound(WholeShelf({v}))>> \in Seq(Segment)
    BY <1>2, <1>4, SegmentType
  <2> QED BY <1>3, <2>1, <2>2 DEF Kinds, Unordered
<1> QED BY <1>5, <1>6, <1>7, <1>8, <1>9, <1>10, <1>11, <1>12, <1>13 DEF Flows

\* What is left of a plan is a plan.
LEMMA LeftType ==
  ASSUME NEW t \in Txs, NEW r, todo[t] \in Seq(Segment), todo[t] # << >>
  PROVE  Left(t, r) \in Seq(Segment)
<1>1. Head(todo[t]) \in Segment /\ Tail(todo[t]) \in Seq(Segment)
  OBVIOUS
<1>2. Without(r, Head(todo[t])) \in Segment
  BY <1>1 DEF Without, Segment
<1> QED BY <1>1, <1>2 DEF Left

\* Every transaction has the values its type allows, whatever it locks and
\* however often it is aborted.
THEOREM LockTypeCorrect == LockSpec => []LockTypeOK
<1>1. LockInit => LockTypeOK
  <2>1. NoFlow \in [kind : Kinds, plan : Seq(Segment)] /\ << >> \in Seq(Segment) /\ 0 \in 0..MaxTries - 1
    BY LockAssumption DEF NoFlow, Does, Kinds
  <2> QED BY <2>1 DEF LockInit, LockTypeOK
<1>2. LockTypeOK /\ [LockNext]_lockVars => LockTypeOK'
  <2> SUFFICES ASSUME LockTypeOK, [LockNext]_lockVars PROVE LockTypeOK'
    OBVIOUS
  <2>1. ASSUME NEW t \in Txs, NEW f \in Flows, Begin(t, f) PROVE LockTypeOK'
    <3>1. f \in [kind : Kinds, plan : Seq(Segment)]
      BY PlanType
    <3> QED BY <2>1, <3>1 DEF Begin, LockTypeOK
  <2>2. ASSUME NEW t \in Txs, NEW r \in LockRows, Lock(t, r) PROVE LockTypeOK'
    <3>1. Left(t, r) \in Seq(Segment)
      BY <2>2, LeftType DEF Lock, LockTypeOK
    <3>2. \/ wants' = [wants EXCEPT ![t] = r] /\ held' = held
          \/ held' = [held EXCEPT ![t] = @ \cup {r}] /\ wants' = wants
      BY <2>2 DEF Lock
    <3>3. todo' = [todo EXCEPT ![t] = Left(t, r)] /\ flow' = flow /\ tries' = tries
      BY <2>2 DEF Lock
    <3> QED BY ZenonT(60), <3>1, <3>2, <3>3 DEF LockTypeOK
  <2>3. ASSUME NEW t \in Txs, Grant(t) PROVE LockTypeOK'
    BY <2>3 DEF Grant, LockTypeOK
  <2>4. ASSUME NEW t \in Txs, End(t) PROVE LockTypeOK'
    <3>1. NoFlow \in [kind : Kinds, plan : Seq(Segment)] /\ << >> \in Seq(Segment) /\ 0 \in 0..MaxTries - 1
      BY LockAssumption DEF NoFlow, Does, Kinds
    <3> QED BY <2>4, <3>1 DEF End, LockTypeOK
  <2>5. ASSUME NEW t \in Txs, Restart(t, tries[t] + 1), tries[t] + 1 < MaxTries PROVE LockTypeOK'
    <3>1. flow[t].plan \in Seq(Segment) /\ tries[t] + 1 \in 0..MaxTries - 1
      BY <2>5, LockAssumption DEF LockTypeOK
    <3> QED BY <2>5, <3>1 DEF Restart, LockTypeOK
  <2>6. ASSUME NEW t \in Txs, AbortVictim(t) PROVE LockTypeOK'
    BY <2>4, <2>5, <2>6 DEF AbortVictim
  <2>7. CASE UNCHANGED lockVars
    BY <2>7 DEF lockVars, LockTypeOK
  <2> QED BY <2>1, <2>2, <2>3, <2>4, <2>6, <2>7 DEF LockNext, CommitTx, TimeOut
<1> QED BY <1>1, <1>2, PTL DEF LockSpec

-----------------------------------------------------------------------------
(* The store as a whole *)

\* The payment of the store is the one that PaymentProtocolProofs is about: the
\* same module with the same constants and variables, under another name.
LEMMA SamePayment ==
  /\ Staffed!Spec => Money!Spec
  /\ Money!TypeOK => Staffed!TypeOK
<1>1. Staffed!Init => Money!Init
  BY ZenonT(60)
  DEF Staffed!Workers, Staffed!Resting, Staffed!Init, Money!Workers, Money!Resting, Money!Init
<1>2. [Staffed!Next]_Staffed!vars => [Money!Next]_Money!vars
  BY ZenonT(60)
  DEF Staffed!Workers, Staffed!local, Staffed!provider, Staffed!vars, Staffed!OrderStatus,
       Staffed!Resting, Staffed!Idle, Staffed!At, Staffed!Does, Staffed!Start, Staffed!Go,
       Staffed!Learn, Staffed!Rest, Staffed!Emit, Staffed!Live, Staffed!Payable, Staffed!LiveClosed,
       Staffed!ObtainStep, Staffed!StartPay, Staffed!StartRecover, Staffed!Retrieve, Staffed!Search,
       Staffed!Abandon, Staffed!Create, Staffed!Link, Staffed!UseIntent, Staffed!StartConfirm,
       Staffed!RequestRefund, Staffed!Settled, Staffed!AfterSettle, Staffed!Settle,
       Staffed!Cancellable, Staffed!Released, Staffed!StartCancel, Staffed!CancelPayment,
       Staffed!CancelAtProvider, Staffed!CancelOrder, Staffed!StartEvent, Staffed!MarkFailed,
       Staffed!MarkIntentCanceled, Staffed!MarkProcessed, Staffed!Expired, Staffed!StartSweep,
       Staffed!Resolve, Staffed!Find, Staffed!Ask, Staffed!Withdraw, Staffed!Unanswered,
       Staffed!Release, Staffed!HoldForReconciliation, Staffed!StartProof, Staffed!Submit,
       Staffed!Approve, Staffed!Reject, Staffed!StartRefund, Staffed!CallRefund, Staffed!NoteRefund,
       Staffed!RefundRejected, Staffed!ReadCompensation, Staffed!MarkRefunded, Staffed!Return,
       Staffed!StaffStatus, Staffed!TimePasses, Staffed!Age, Staffed!Crash, Staffed!Pay,
       Staffed!Taken, Staffed!Declined, Staffed!RefundClears, Staffed!Request, Staffed!Pass,
       Staffed!Advance, Staffed!Fault, Staffed!Outside, Staffed!Next, Money!Workers, Money!local,
       Money!provider, Money!vars, Money!OrderStatus, Money!Resting, Money!Idle, Money!At,
       Money!Does, Money!Start, Money!Go, Money!Learn, Money!Rest, Money!Emit, Money!Live,
       Money!Payable, Money!LiveClosed, Money!ObtainStep, Money!StartPay, Money!StartRecover,
       Money!Retrieve, Money!Search, Money!Abandon, Money!Create, Money!Link, Money!UseIntent,
       Money!StartConfirm, Money!RequestRefund, Money!Settled, Money!AfterSettle, Money!Settle,
       Money!Cancellable, Money!Released, Money!StartCancel, Money!CancelPayment,
       Money!CancelAtProvider, Money!CancelOrder, Money!StartEvent, Money!MarkFailed,
       Money!MarkIntentCanceled, Money!MarkProcessed, Money!Expired, Money!StartSweep,
       Money!Resolve, Money!Find, Money!Ask, Money!Withdraw, Money!Unanswered, Money!Release,
       Money!HoldForReconciliation, Money!StartProof, Money!Submit, Money!Approve, Money!Reject,
       Money!StartRefund, Money!CallRefund, Money!NoteRefund, Money!RefundRejected,
       Money!ReadCompensation, Money!MarkRefunded, Money!Return, Money!StaffStatus,
       Money!TimePasses, Money!Age, Money!Crash, Money!Pay, Money!Taken, Money!Declined,
       Money!RefundClears, Money!Request, Money!Pass, Money!Advance, Money!Fault, Money!Outside,
       Money!Next
<1>3. Money!TypeOK => Staffed!TypeOK
  BY ZenonT(60)
  DEF Staffed!Workers, Staffed!AttStatus, Staffed!IntentStatus, Staffed!CompStatus,
       Staffed!Reasons, Staffed!RefundStatus, Staffed!ProofStatus, Staffed!PayStatus,
       Staffed!OrderStatus, Staffed!EventKind, Staffed!OrderRow, Staffed!PaymentRow,
       Staffed!CompRow, Staffed!Event, Staffed!Ops, Staffed!Steps, Staffed!Sights, Staffed!Task,
       Staffed!Unbound, Staffed!RowTypes, Staffed!TaskTypes, Staffed!TypeOK, Money!Workers,
       Money!AttStatus, Money!IntentStatus, Money!CompStatus, Money!Reasons, Money!RefundStatus,
       Money!ProofStatus, Money!PayStatus, Money!OrderStatus, Money!EventKind, Money!OrderRow,
       Money!PaymentRow, Money!CompRow, Money!Event, Money!Ops, Money!Steps, Money!Sights,
       Money!Task, Money!Unbound, Money!RowTypes, Money!TaskTypes, Money!TypeOK
<1> QED
  BY <1>1, <1>2, <1>3, PTL DEF Staffed!Spec, Money!Spec

\* The scenes of MCShop are behaviours of the stock, of a payment and of the
\* locks, so what holds of all their behaviours holds in the scenes.
THEOREM ScenesAreOfTheShop == MCSpec => Spec /\ Staffed!Spec /\ LockSpec
<1>1. MCInit => Init /\ Staffed!Init /\ LockInit
  BY ZenonT(60) DEF MCInit
<1>2. [MCNext]_mcVars => [Next]_vars
  BY ZenonT(60) DEF MCNext, mcVars, vars
<1>3. [MCNext]_mcVars => [Staffed!Next]_Staffed!vars
  BY ZenonT(60) DEF MCNext, mcVars, payVars, Staffed!vars, Staffed!local, Staffed!provider
<1>4. [MCNext]_mcVars => [LockNext]_lockVars
  BY ZenonT(60) DEF MCNext, mcVars, lockVars
<1> QED
  BY <1>1, <1>2, <1>3, <1>4, PTL DEF MCSpec, Spec, Staffed!Spec, LockSpec

\* Every row of the stock and of the payment, and every transaction, keeps its
\* type.
THEOREM ShopTypeCorrect == MCSpec => []ShopTypeOK
<1>1. Money!Spec => []Money!TypeOK
  BY Money!TypeCorrect, ShopAssumption
<1>2. TypeOK /\ Staffed!TypeOK /\ LockTypeOK => ShopTypeOK
  BY DEF ShopTypeOK
<1> QED
  BY <1>1, <1>2, ScenesAreOfTheShop, SamePayment, TypeCorrect, LockTypeCorrect, PTL

\* An order that was paid is not released, whatever staff, proofs and returns
\* do to it (orders.service.ts, payment-settlement.service.ts).
THEOREM PaidIsNotReleasedInTheShop == MCSpec => []PaidIsNotReleased
<1>1. Money!Spec => []Money!PaidIsNotReleased
  BY Money!PaidIsNotReleasedHolds, ShopAssumption
<1>2. Money!PaidIsNotReleased => PaidIsNotReleased
  BY DEF PaidIsNotReleased, Money!PaidIsNotReleased, Staffed!PaidIsNotReleased
<1> QED
  BY <1>1, <1>2, ScenesAreOfTheShop, SamePayment, PTL

\* Every property that the run of the store checks, for any number of
\* customers, branches, orders, charges and transactions.
THEOREM ShopIsSafe ==
  MCSpec => /\ []ShopTypeOK /\ []PaidIsNotReleased /\ []CycleHasAnUnordered
            /\ []ReservedIffInCart /\ []OrderOwnsItsUnits /\ []LedgerBalance /\ ReservationsEndOnce
BY ScenesAreOfTheShop, ShopTypeCorrect, PaidIsNotReleasedInTheShop, OrderedNeverDeadlock,
   ReservedIffInCartHolds, OrderOwnsItsUnitsHolds, LedgerBalanceHolds, ReservationsEndOnceHolds, PTL
=============================================================================
