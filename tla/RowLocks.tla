------------------------------ MODULE RowLocks ------------------------------
(***************************************************************************)
(* The rows that the transactions of the shop lock, and in which order.    *)
(* tx.util.ts gives one order for every flow: the attempt and the cart,    *)
(* the order, the inventory rows by variant, and last the products.  Some  *)
(* flows take rows in another order.  PostgreSQL grants a lock when its    *)
(* holder ends, and aborts one transaction of a cycle of waits.            *)
(*                                                                         *)
(* A transaction is the segments of rows it locks.  Within a segment it    *)
(* takes them by rank, or, when one statement updates them all, in the     *)
(* order that the database finds them.                                     *)
(***************************************************************************)
EXTENDS Naturals, Sequences

CONSTANTS
  Txs,          \* transactions that run at once
  AttemptLocks, CartLocks, OrderLocks, Shelves, ProductLocks,  \* rows
  ProductOf,    \* the product of an inventory row
  Rank,         \* the documented order of all rows
  MaxTries,     \* attempts of withTxRetry
  NoLock

LockRows == AttemptLocks \cup CartLocks \cup OrderLocks \cup Shelves \cup ProductLocks

ASSUME LockAssumption ==
  /\ ProductOf \in [Shelves -> ProductLocks]
  /\ Rank \in [LockRows -> Nat] /\ \A q, r \in LockRows : Rank[q] = Rank[r] => q = r
  /\ \A R \in (SUBSET LockRows) \ {{}} : \E r \in R : \A q \in R : Rank[q] <= Rank[r]
  /\ MaxTries \in Nat \ {0} /\ NoLock \notin LockRows
  /\ \A v \in Shelves : /\ \A x \in AttemptLocks \cup CartLocks \cup OrderLocks : Rank[x] < Rank[v]
                         /\ \A p \in ProductLocks : Rank[v] < Rank[p]
  /\ \A c \in CartLocks : \A k \in AttemptLocks : Rank[k] < Rank[c]

VARIABLES
  flow,   \* what each transaction does, and the segments of its plan
  todo,   \* the segments it has not locked yet
  wants,  \* the row it asks for
  held,   \* the rows it has locked
  tries   \* how often it was aborted

lockVars == <<flow, todo, wants, held, tries>>

Unordered == {"expiring_mutation", "discount", "priced_count"}
Kinds     == Unordered \cup {"none", "mutation", "expiry", "checkout", "order", "sale", "count"}

Segment    == [rows : SUBSET LockRows, sorted : BOOLEAN]
Sorted(R)  == [rows |-> R, sorted |-> TRUE]
AsFound(R) == [rows |-> R, sorted |-> FALSE]
Does(kind, plan) == [kind |-> kind, plan |-> plan]
NoFlow     == Does("none", << >>)

\* Inventory rows and then, by syncGlobalStockMany, their products.
Moves(V)  == V \cup {ProductOf[v] : v \in V}
Some      == (SUBSET Shelves) \ {{}}
OneShelf  == {V \in Some : \A v, w \in V : ProductOf[v] = ProductOf[w]}
WholeShelf(V) == {w \in Shelves : \E v \in V : ProductOf[w] = ProductOf[v]}

\* A mutation of a cart without expired lines, or with some: these are given
\* back, their products included, before the lines of the mutation are taken.
Mutations == {Does("mutation", <<Sorted({c} \cup Moves(V))>>) : c \in CartLocks, V \in SUBSET Shelves}
Expiring(c, X, V) == Does("expiring_mutation", <<Sorted({c} \cup Moves(X)), Sorted(Moves(V))>>)
ExpiringMutations == {Expiring(c, X, V) : c \in CartLocks, X \in Some, V \in Some}
Expiries  == {Does("expiry", <<Sorted({c} \cup Moves(V))>>) : c \in CartLocks, V \in Some}
Checkouts == {Does("checkout", <<Sorted({k, c} \cup Moves(V))>>) : k \in AttemptLocks, c \in CartLocks, V \in SUBSET Shelves}

\* Cancellations, late payments and returns move stock under the lock of the
\* order, other payments and proofs only take that lock.
OrderChanges == {Does("order", <<Sorted({o} \cup Moves(V))>>) : o \in OrderLocks, V \in SUBSET Shelves}

SalesByTicket == {Does("sale", <<AsFound(V), Sorted({ProductOf[v] : v \in V})>>) : V \in Some}
Sales == {Does("sale", <<Sorted(Moves(V))>>) : V \in Some}

\* setStock takes the sizes it was sent in order; with a discount it then
\* updates every size of the shelf by one statement.
Counts == {Does("count", <<Sorted(V \cup {ProductOf[v] : v \in V})>>) : V \in OneShelf}
PricedCounts ==
  {Does("priced_count", <<Sorted(V), AsFound(WholeShelf(V)), Sorted({ProductOf[v] : v \in V})>>) : V \in OneShelf}
Discounts == {Does("discount", <<AsFound(WholeShelf({v}))>>) : v \in Shelves}

Flows == Mutations \cup ExpiringMutations \cup Expiries \cup Checkouts \cup OrderChanges \cup Sales
         \cup Counts \cup PricedCounts \cup Discounts

LockInit ==
  /\ flow = [t \in Txs |-> NoFlow] /\ todo = [t \in Txs |-> << >>]
  /\ wants = [t \in Txs |-> NoLock] /\ held = [t \in Txs |-> {}] /\ tries = [t \in Txs |-> 0]

Running(t)  == flow[t] # NoFlow
Waits(t, u) == wants[t] # NoLock /\ wants[t] \in held[u] /\ u # t
WaitCycle(C) == C # {} /\ \A t \in C : \E u \in C : Waits(t, u)

Begin(t, f) ==
  /\ ~Running(t)
  /\ flow' = [flow EXCEPT ![t] = f] /\ todo' = [todo EXCEPT ![t] = f.plan]
  /\ UNCHANGED <<wants, held, tries>>

\* The next row of the segment, or any of them, at once if nobody else holds it.
Without(r, segment) == [rows |-> segment.rows \ {r}, sorted |-> segment.sorted]
Left(t, r) == IF Head(todo[t]).rows = {r} THEN Tail(todo[t])
              ELSE <<Without(r, Head(todo[t]))>> \o Tail(todo[t])
Lock(t, r) ==
  /\ todo[t] # << >> /\ wants[t] = NoLock /\ r \in Head(todo[t]).rows
  /\ Head(todo[t]).sorted => \A q \in Head(todo[t]).rows : Rank[r] <= Rank[q]
  /\ todo' = [todo EXCEPT ![t] = Left(t, r)]
  /\ IF \E u \in Txs \ {t} : r \in held[u]
     THEN wants' = [wants EXCEPT ![t] = r] /\ UNCHANGED held
     ELSE held' = [held EXCEPT ![t] = @ \cup {r}] /\ UNCHANGED wants
  /\ UNCHANGED <<flow, tries>>

Grant(t) ==
  /\ wants[t] # NoLock /\ \A u \in Txs \ {t} : ~Waits(t, u)
  /\ held' = [held EXCEPT ![t] = @ \cup {wants[t]}]
  /\ wants' = [wants EXCEPT ![t] = NoLock]
  /\ UNCHANGED <<flow, todo, tries>>

End(t) ==
  /\ flow' = [flow EXCEPT ![t] = NoFlow] /\ todo' = [todo EXCEPT ![t] = << >>]
  /\ wants' = [wants EXCEPT ![t] = NoLock] /\ held' = [held EXCEPT ![t] = {}]
  /\ tries' = [tries EXCEPT ![t] = 0]

CommitTx(t) == Running(t) /\ todo[t] = << >> /\ wants[t] = NoLock /\ End(t)

\* A checkout does not wait longer than lock_timeout, and no transaction longer
\* than its own timeout; neither is tried again.
TimeOut(t) == wants[t] # NoLock /\ End(t)

\* The victim of a cycle loses its locks.  withTxRetry begins it again, but for
\* the discount, which is not under it.
Restart(t, count) ==
  /\ todo' = [todo EXCEPT ![t] = flow[t].plan] /\ wants' = [wants EXCEPT ![t] = NoLock]
  /\ held' = [held EXCEPT ![t] = {}] /\ tries' = [tries EXCEPT ![t] = count]
  /\ UNCHANGED flow
InCycle(t) == \E C \in SUBSET Txs : t \in C /\ WaitCycle(C)

AbortVictim(t) ==
  /\ InCycle(t)
  /\ IF flow[t].kind # "discount" /\ tries[t] + 1 < MaxTries THEN Restart(t, tries[t] + 1) ELSE End(t)

-----------------------------------------------------------------------------

LockNext == \E t \in Txs : \/ \E f \in Flows : Begin(t, f)
                          \/ \E r \in LockRows : Lock(t, r)
                          \/ Grant(t) \/ CommitTx(t) \/ TimeOut(t) \/ AbortVictim(t)

LockSpec == LockInit /\ [][LockNext]_lockVars

-----------------------------------------------------------------------------
(* Properties *)

\* Every transaction has the values its type allows.
LockTypeOK ==
  /\ flow \in [Txs -> [kind : Kinds, plan : Seq(Segment)]] /\ todo \in [Txs -> Seq(Segment)]
  /\ wants \in [Txs -> LockRows \cup {NoLock}] /\ held \in [Txs -> SUBSET LockRows] /\ tries \in [Txs -> 0..MaxTries - 1]

\* The flows that keep the order of tx.util.ts never wait for each other in a
\* cycle: whatever cycle there is has a flow in it that does not keep it.
CycleHasAnUnordered ==
  \A C \in SUBSET Txs : WaitCycle(C) => \E t \in C : flow[t].kind \in Unordered
=============================================================================
