------------------------------- MODULE MCShop -------------------------------
(***************************************************************************)
(* What happens inside one store: the cart of a customer that moves between *)
(* branches, customers who want the same units, the staff that changes a   *)
(* paid order, and the rows that the transactions lock.  One part moves in *)
(* each behaviour, the others stay as they start.                          *)
(***************************************************************************)
EXTENDS CheckoutStock, RowLocks, TLC

CONSTANTS SeedUnits, u2, o2, b2             \* the second customer, order and branch
CONSTANTS Charges, Requests, Passes, None, Manual, Actors   \* the payment
CONSTANTS k1, c1, d1, v1, v2, p1, t1, t2, t3  \* the rows and the transactions

\* No identifier of a charge stands for none or for a proof.
ASSUME ShopAssumption ==
  /\ None \notin Charges /\ Manual \notin Charges /\ None # Manual
  /\ Actors \subseteq {"proof", "return", "staff"}

VARIABLES ord, payment, att, linked, old, comp, proof, pi, refund, known, inbox, work

VARIABLE part

Staffed == INSTANCE PaymentProtocol

payVars == <<ord, payment, att, linked, old, comp, proof, pi, refund, known, inbox, work>>
mcVars  == <<vars, payVars, lockVars, part>>

MCSeed == [v \in Variants |-> SeedUnits]
MCProductOf == [v \in Shelves |-> p1]
MCRank == k1 :> 0 @@ c1 :> 1 @@ d1 :> 2 @@ v1 :> 3 @@ v2 :> 4 @@ p1 :> 5

\* Two transactions of any kind; or three of three kinds that want both sizes
\* and the product, in order.
BothSizes(t, kinds) == /\ flow[t].kind \in kinds \cup {"none"}
                       /\ Running(t) => {v1, v2} \subseteq flow[t].plan[1].rows
Trio == BothSizes(t1, {"mutation", "checkout"}) /\ BothSizes(t2, {"order"}) /\ BothSizes(t3, {"sale", "count"})

\* One customer with one order in two branches, without the counter; or two
\* customers in one branch, with one order of several units or two of a single one.
OneCustomer == item'[u2] = item[u2] /\ gen'[u2] = gen[u2]
OneOrder    == order'[o2] = order[o2]
Unshipped   == \A o \in Orders : order'[o].status # "ENTREGADO"
OneBranch   == /\ \A v \in Variants : v[2] = b2 => stock'[v] = stock[v] /\ damaged'[v] = damaged[v]
               /\ \A r \in Rids : res'[r].branch # b2 /\ res'[r].rev <= 1 /\ (res'[r].status # "NONE" => r[3] = 1)
OneUnit     == \A u \in Users, l \in Lines : item'[u][l].qty <= 1 /\ \A o \in Orders : order'[o].lines[l] <= 1
StockScene ==
  \/ part = "branches" /\ OneCustomer /\ OneOrder /\ Unshipped
  \/ part = "units" /\ OneBranch /\ OneOrder
  \/ part = "orders" /\ OneBranch /\ OneUnit
\* No attempt of the payment outlives the idempotency horizon of the provider.
Recent == old' = {}
Trading == {"branches", "units", "orders"}

MCInit ==
  /\ part \in Trading \cup {"staff", "pair", "trio"}
  /\ Init /\ Staffed!Init /\ LockInit

MCNext ==
  \/ part \in Trading /\ Next /\ StockScene /\ UNCHANGED <<payVars, lockVars, part>>
  \/ part = "staff" /\ Staffed!Next /\ Recent /\ UNCHANGED <<vars, lockVars, part>>
  \/ part = "pair" /\ LockNext /\ ~Running(t3)' /\ UNCHANGED <<vars, payVars, part>>
  \/ part = "trio" /\ LockNext /\ Trio' /\ UNCHANGED <<vars, payVars, part>>

MCSpec == MCInit /\ [][MCNext]_mcVars

\* Every row of the stock and of a payment, and every transaction has its
\* type.
ShopTypeOK == TypeOK /\ Staffed!TypeOK /\ LockTypeOK

\* Cancelling an order that staff moved back to PENDIENTE does not release the
\* units of a paid one.
PaidIsNotReleased == Staffed!PaidIsNotReleased
=============================================================================
