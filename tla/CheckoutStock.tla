---------------------------- MODULE CheckoutStock ----------------------------
(***************************************************************************)
(* Stock, cart reservations and orders of one store.                       *)
(*                                                                         *)
(* Every action is one database transaction of the API: the services take  *)
(* the cart or order row lock first and inventory rows afterwards          *)
(* (api/src/common/checkout/tx.util.ts), so two of them that touch the     *)
(* same rows run one after the other.  A request that is rejected rolls    *)
(* back and is therefore no step at all.                                   *)
(*                                                                         *)
(* A line is a product with a size; a variant is a line in a branch, that  *)
(* is one row of product_inventories.                                      *)
(***************************************************************************)
EXTENDS Integers, FiniteSets

CONSTANTS
  Users,              \* customers; each has one active cart
  Lines,              \* product + size
  Branches,
  Orders,             \* identifiers orders may take
  NoBranch, NoOrder,
  Seed,               \* units a variant starts with
  MaxQty,             \* bound: units in one line of a cart or an order
  MaxGen,             \* bound: reservations created for one line of a cart
  MaxRev,             \* bound: revisions of one reservation
  MaxStock            \* bound: value a physical count may write

Variants == Lines \X Branches
Gens     == 1..MaxGen
Rids     == Users \X Lines \X Gens   \* primary keys of stock_reservations

ASSUME StockAssumption ==
  /\ IsFiniteSet(Users) /\ IsFiniteSet(Lines)
  /\ NoBranch \notin Branches
  /\ NoOrder \notin Orders
  /\ MaxQty \in Nat /\ MaxGen \in Nat /\ MaxRev \in Nat /\ MaxStock \in Nat
  /\ Seed \in [Variants -> Nat]

VARIABLES
  stock,    \* units of a variant that can be sold
  damaged,  \* units of a variant returned in bad condition
  inflow,   \* net stock in inventory_movements that no reservation stands for:
            \* counts, returns, counter sales and their cancellation
  item,     \* row of a cart for a line, with the reservation linked to it
  gen,      \* reservations created so far for a line of a cart
  res,      \* stock_reservations
  late,     \* the reservations of a cart are past their expiresAt
  order,    \* orders with their order_items and return_items
  claimed   \* effectId of the movements that a retry could repeat

vars == <<stock, damaged, inflow, item, gen, res, late, order, claimed>>

-----------------------------------------------------------------------------
(* Rows *)

ResStatus   == {"NONE", "ACTIVE", "CONSUMED", "RELEASED", "EXPIRED"}
OrderStatus == {"NONE", "PENDIENTE", "PROCESANDO", "ENTREGADO", "CANCELADO"}
PayStatus   == {"PENDIENTE", "COMPLETADO", "REEMBOLSADO"}

Items    == [gen : 0..MaxGen, branch : Branches \cup {NoBranch}, qty : 0..MaxQty]
ResRows  == [status : ResStatus, branch : Branches \cup {NoBranch}, qty : 0..MaxQty,
             rev : Nat, order : Orders \cup {NoOrder}]
OrderRows == [status : OrderStatus, pay : PayStatus, source : {"WEB", "POS"},
              branch : Branches \cup {NoBranch},
              lines : [Lines -> 0..MaxQty], ret : [Lines -> 0..MaxQty]]

NoLines == [l \in Lines |-> 0]
NoItem  == [gen |-> 0, branch |-> NoBranch, qty |-> 0]
NoRes   == [status |-> "NONE", branch |-> NoBranch, qty |-> 0, rev |-> 0, order |-> NoOrder]
NoRow   == [status |-> "NONE", pay |-> "PENDIENTE", source |-> "WEB", branch |-> NoBranch,
            lines |-> NoLines, ret |-> NoLines]
BoughtOnline(b, qty) ==
  [status |-> "PENDIENTE", pay |-> "PENDIENTE", source |-> "WEB", branch |-> b, lines |-> qty, ret |-> NoLines]
SoldAtCounter(b, qty) ==
  [status |-> "ENTREGADO", pay |-> "COMPLETADO", source |-> "POS", branch |-> b, lines |-> qty, ret |-> NoLines]

\* An effectId is derived from the row the effect belongs to, so repeating
\* the request derives it again.  Those derived from a row created in the
\* same transaction (checkout:, pos:, return:) are always new and are not kept.
Effects == [kind : {"give", "take", "expire"}, rid : Rids, rev : Nat]
             \cup [kind : {"cancel"}, order : Orders, line : Lines]

-----------------------------------------------------------------------------
(* Moving the units of a line from what is held to what is wanted *)

Monus(a, b) == IF a > b THEN a - b ELSE 0

\* Units that go back to branch b, and units that branch b must provide.
\* A change of branch returns all of the origin and takes all of the target.
GiveDifferenceOnly(held, want, b) ==
  IF b # held.branch THEN 0 ELSE Monus(held.qty, want.qty)

Give(held, want, b) ==
  IF b # held.branch THEN 0
  ELSE IF held.branch # want.branch THEN held.qty ELSE Monus(held.qty, want.qty)

Take(held, want, b) ==
  IF b # want.branch THEN 0
  ELSE IF held.branch # want.branch THEN want.qty ELSE Monus(want.qty, held.qty)

\* recordMovement: an effect that is already in the ledger moves nothing.
Once(effect, n) == IF effect \in claimed THEN 0 ELSE n

\* decrement: the row must have what is taken, counting what the same
\* transaction has already put back.
EnoughOffByOne(v, back, n) == stock[v] + back + 1 >= n

Enough(v, back, n) == stock[v] + back >= n

Effect(kind, rid, rev) == [kind |-> kind, rid |-> rid, rev |-> rev]

-----------------------------------------------------------------------------
(* Cart of a user *)

InCart(u, l) == item[u][l].gen # 0
Rid(u, l)    == <<u, l, item[u][l].gen>>
Held(u, l)   == IF InCart(u, l) THEN [branch |-> res[Rid(u, l)].branch, qty |-> res[Rid(u, l)].qty]
                                ELSE [branch |-> NoBranch, qty |-> 0]

\* expireLocked: lines whose reservation is past its time give everything back.
Overdue(u) == {l \in Lines : late[u] /\ InCart(u, l)}

ExpireEffect(u, l) == Effect("expire", Rid(u, l), res[Rid(u, l)].rev)

Expired(u, l, b) ==
  IF l \in Overdue(u) /\ b = res[Rid(u, l)].branch
  THEN Once(ExpireEffect(u, l), res[Rid(u, l)].qty) ELSE 0

\* Lines of the cart after its overdue reservations were given back.
StillInCart(u, l) == InCart(u, l) /\ l \notin Overdue(u)
Kept(u, l)        == IF StillInCart(u, l) THEN Held(u, l) ELSE [branch |-> NoBranch, qty |-> 0]

\* The reservation that a wanted line uses, and its next revision.
GenForReusingRow(u, l) == IF gen[u][l] > 0 THEN gen[u][l] ELSE 1

GenFor(u, l) == IF StillInCart(u, l) THEN item[u][l].gen ELSE gen[u][l] + 1
RidFor(u, l) == <<u, l, GenFor(u, l)>>

RevFor(u, l) == IF StillInCart(u, l) THEN res[Rid(u, l)].rev + 1 ELSE 0

CartGive(u, l, want, b) == Once(Effect("give", RidFor(u, l), RevFor(u, l)), Give(Kept(u, l), want, b))
CartTake(u, l, want, b) == Once(Effect("take", RidFor(u, l), RevFor(u, l)), Take(Kept(u, l), want, b))

CartEffects(u, l, want) ==
  {Effect("give", RidFor(u, l), RevFor(u, l)) : b \in {c \in Branches : Give(Kept(u, l), want, c) > 0}}
    \cup {Effect("take", RidFor(u, l), RevFor(u, l)) : b \in {c \in Branches : Take(Kept(u, l), want, c) > 0}}

\* The cart of u without the rows of D.
WithEveryRow(u, D)  == item

WithoutRows(u, D) == [item EXCEPT ![u] = [l \in Lines |-> IF l \in D THEN NoItem ELSE item[u][l]]]

\* applyLines, row by row, for the lines of D that are to become want[l].
StockAfter(u, D, want, v) ==
  stock[v] + Expired(u, v[1], v[2])
    + (IF v[1] \in D THEN CartGive(u, v[1], want[v[1]], v[2]) - CartTake(u, v[1], want[v[1]], v[2])
                     ELSE 0)

ResAfter(u, D, want, r) ==
  LET l == r[2]
  IN  IF r[1] # u THEN res[r]
      ELSE IF l \in D /\ want[l].qty > 0 /\ r = RidFor(u, l)
           THEN [res[r] EXCEPT !.status = "ACTIVE", !.branch = want[l].branch,
                               !.qty = want[l].qty, !.rev = RevFor(u, l)]
      ELSE IF l \in Overdue(u) /\ r = Rid(u, l)
           THEN [res[r] EXCEPT !.status = "EXPIRED"]
      ELSE IF l \in D /\ StillInCart(u, l) /\ r = Rid(u, l)
           THEN [res[r] EXCEPT !.status = "RELEASED", !.rev = RevFor(u, l)]
      ELSE res[r]

ItemAfterKeepingOverdue(u, D, want, l) ==
  IF l \in D /\ want[l].qty > 0
  THEN [gen |-> GenFor(u, l), branch |-> want[l].branch, qty |-> want[l].qty]
  ELSE IF l \in D THEN NoItem ELSE item[u][l]

ItemAfter(u, D, want, l) ==
  IF l \in D /\ want[l].qty > 0
  THEN [gen |-> GenFor(u, l), branch |-> want[l].branch, qty |-> want[l].qty]
  ELSE IF l \in D \cup Overdue(u) THEN NoItem ELSE item[u][l]

GenAfter(u, D, want, l) ==
  IF l \in D /\ want[l].qty > 0 /\ ~StillInCart(u, l) THEN gen[u][l] + 1 ELSE gen[u][l]

\* mutate: overdue lines are released, then each line of D is brought to
\* want[l], and the time of the whole cart starts again.
Mutate(u, D, want) ==
  /\ \A l \in D : /\ want[l].qty > 0 => GenFor(u, l) \in Gens
                  /\ RevFor(u, l) <= MaxRev
                  /\ \A b \in Branches : Enough(<<l, b>>, Expired(u, l, b), CartTake(u, l, want[l], b))
  /\ stock' = [v \in Variants |-> StockAfter(u, D, want, v)]
  /\ res'   = [r \in Rids |-> ResAfter(u, D, want, r)]
  /\ item'  = [item EXCEPT ![u] = [l \in Lines |-> ItemAfter(u, D, want, l)]]
  /\ gen'   = [gen  EXCEPT ![u] = [l \in Lines |-> GenAfter(u, D, want, l)]]
  /\ late'  = [late EXCEPT ![u] = FALSE]
  /\ claimed' = claimed \cup {ExpireEffect(u, l) : l \in Overdue(u)}
                        \cup UNION {CartEffects(u, l, want[l]) : l \in D}
  /\ UNCHANGED <<damaged, inflow, order>>

Want(b, n) == [branch |-> b, qty |-> n]

AddItem(u, l, b, n) ==
  /\ n > 0 /\ Kept(u, l).qty + n <= MaxQty
  /\ Mutate(u, {l}, [x \in {l} |-> Want(b, Kept(u, l).qty + n)])

UpdateItemQuantity(u, l, b, n) ==
  /\ n > 0 /\ StillInCart(u, l)
  /\ Mutate(u, {l}, [x \in {l} |-> Want(b, n)])

RemoveItem(u, l) ==
  /\ StillInCart(u, l)
  /\ Mutate(u, {l}, [x \in {l} |-> Want(item[u][l].branch, 0)])

ClearCart(u) ==
  LET D == {l \in Lines : StillInCart(u, l)}
  IN  Mutate(u, D, [l \in D |-> Want(item[u][l].branch, 0)])

\* The cart of the server becomes the cart of the device: what the device
\* does not have is removed.
SyncCart(u, b, qty) ==
  LET D == {l \in Lines : qty[l] > 0 \/ StillInCart(u, l)}
  IN  Mutate(u, D, [l \in D |-> IF qty[l] > 0 THEN Want(b, qty[l]) ELSE Want(item[u][l].branch, 0)])

\* getOrCreateCart and the sweep of cart-cleanup: expireLocked and nothing else.
ExpireCart(u) ==
  /\ Overdue(u) # {}
  /\ stock' = [v \in Variants |-> stock[v] + Expired(u, v[1], v[2])]
  /\ res' = [r \in Rids |-> IF r[1] = u /\ r[2] \in Overdue(u) /\ r = Rid(u, r[2])
                            THEN [res[r] EXCEPT !.status = "EXPIRED"] ELSE res[r]]
  /\ item' = WithoutRows(u, Overdue(u))
  /\ claimed' = claimed \cup {ExpireEffect(u, l) : l \in Overdue(u)}
  /\ UNCHANGED <<damaged, inflow, gen, late, order>>

\* The clock passes the expiresAt that every reservation of the cart shares.
TimePasses(u) ==
  /\ ~late[u]
  /\ \E l \in Lines : InCart(u, l)
  /\ late' = [late EXCEPT ![u] = TRUE]
  /\ UNCHANGED <<stock, damaged, inflow, item, gen, res, order, claimed>>

-----------------------------------------------------------------------------
(* Orders *)

\* OrdersService.create.  The reservation of a bought line goes over to the
\* order and only the difference moves; the other lines of the cart stay.
\* Its effects carry the identifier of the new order, so none is in the ledger.
CheckoutGen(u, l) == IF InCart(u, l) THEN item[u][l].gen ELSE gen[u][l] + 1
CheckoutRid(u, l) == <<u, l, CheckoutGen(u, l)>>

Checkout(u, o, b, qty) ==
  LET D == {l \in Lines : qty[l] > 0}
  IN
  /\ order[o].status = "NONE"
  /\ D # {}
  /\ \A l \in D : /\ InCart(u, l) => ~late[u]
                  /\ CheckoutGen(u, l) \in Gens
                  /\ \A c \in Branches : Enough(<<l, c>>, 0, Take(Held(u, l), Want(b, qty[l]), c))
  /\ stock' = [v \in Variants |->
       stock[v] + (IF v[1] \in D THEN Give(Held(u, v[1]), Want(b, qty[v[1]]), v[2])
                                      - Take(Held(u, v[1]), Want(b, qty[v[1]]), v[2]) ELSE 0)]
  /\ res' = [r \in Rids |->
       IF r[1] = u /\ r[2] \in D /\ r = CheckoutRid(u, r[2])
       THEN [status |-> "CONSUMED", branch |-> b, qty |-> qty[r[2]], order |-> o,
             rev |-> IF InCart(u, r[2]) THEN res[r].rev + 1 ELSE 0]
       ELSE res[r]]
  /\ item' = WithoutRows(u, D)
  /\ gen' = [gen EXCEPT ![u] = [l \in Lines |->
       IF l \in D /\ ~InCart(u, l) THEN gen[u][l] + 1 ELSE gen[u][l]]]
  /\ order' = [order EXCEPT ![o] = BoughtOnline(b, qty)]
  /\ UNCHANGED <<damaged, inflow, late, claimed>>

\* settleInTx: the payment of a live order is recorded.
Settle(o) ==
  /\ order[o].status \notin {"NONE", "CANCELADO"}
  /\ order[o].pay = "PENDIENTE"
  /\ order' = [order EXCEPT ![o] = [@ EXCEPT !.pay = "COMPLETADO", !.status = "PROCESANDO"]]
  /\ UNCHANGED <<stock, damaged, inflow, item, gen, res, late, claimed>>

\* cancelInTx: customer, staff and the expiry sweep all end here.
CancelEffect(o, l) == [kind |-> "cancel", order |-> o, line |-> l]

Cancel(o) ==
  /\ order[o].status = "PENDIENTE"
  /\ order[o].pay # "COMPLETADO"
  /\ stock' = [v \in Variants |->
       stock[v] + (IF v[2] = order[o].branch THEN Once(CancelEffect(o, v[1]), order[o].lines[v[1]]) ELSE 0)]
  /\ res' = [r \in Rids |-> IF res[r].order = o /\ res[r].status = "CONSUMED"
                            THEN [res[r] EXCEPT !.status = "RELEASED"] ELSE res[r]]
  /\ inflow' = [v \in Variants |->
       inflow[v] + (IF v[2] = order[o].branch /\ order[o].source = "POS"
                    THEN Once(CancelEffect(o, v[1]), order[o].lines[v[1]]) ELSE 0)]
  /\ order' = [order EXCEPT ![o].status = "CANCELADO"]
  /\ claimed' = claimed \cup {CancelEffect(o, l) : l \in {x \in Lines : order[o].lines[x] > 0}}
  /\ UNCHANGED <<damaged, item, gen, late>>

\* OrdersService.update by staff; CANCELADO goes through Cancel instead.
StaffStatusRevives(o, s) ==
  /\ order[o].status # "NONE"
  /\ s \in OrderStatus \ {"NONE", "CANCELADO"}
  /\ order' = [order EXCEPT ![o].status = s]
  /\ UNCHANGED <<stock, damaged, inflow, item, gen, res, late, claimed>>

StaffStatus(o, s) ==
  /\ order[o].status \notin {"NONE", "CANCELADO"}
  /\ s \in OrderStatus \ {"NONE", "CANCELADO"}
  /\ order' = [order EXCEPT ![o].status = s]
  /\ UNCHANGED <<stock, damaged, inflow, item, gen, res, late, claimed>>

\* ReturnsService.process at branch b: good units can be sold again there,
\* the others are damaged; a sale with nothing left to return is refunded.
Return(o, b, good, bad) ==
  LET row == order[o]
  IN
  /\ row.status \notin {"NONE", "CANCELADO"}
  /\ row.pay = "COMPLETADO"
  /\ \E l \in Lines : good[l] + bad[l] > 0
  /\ \A l \in Lines : row.ret[l] + good[l] + bad[l] <= row.lines[l]
  /\ stock'   = [v \in Variants |-> stock[v]   + (IF v[2] = b THEN good[v[1]] ELSE 0)]
  /\ inflow'  = [v \in Variants |-> inflow[v]  + (IF v[2] = b THEN good[v[1]] ELSE 0)]
  /\ damaged' = [v \in Variants |-> damaged[v] + (IF v[2] = b THEN bad[v[1]]  ELSE 0)]
  /\ order' = [order EXCEPT ![o] = [@ EXCEPT
       !.ret = [l \in Lines |-> row.ret[l] + good[l] + bad[l]],
       !.pay = IF \A l \in Lines : row.ret[l] + good[l] + bad[l] = row.lines[l]
               THEN "REEMBOLSADO" ELSE "COMPLETADO"]]
  /\ UNCHANGED <<item, gen, res, late, claimed>>

\* PosService.checkout: a counter sale is delivered and paid at once.
PosSale(o, b, qty) ==
  /\ order[o].status = "NONE"
  /\ \E l \in Lines : qty[l] > 0
  /\ \A l \in Lines : Enough(<<l, b>>, 0, qty[l])
  /\ stock'  = [v \in Variants |-> stock[v]  - (IF v[2] = b THEN qty[v[1]] ELSE 0)]
  /\ inflow' = [v \in Variants |-> inflow[v] - (IF v[2] = b THEN qty[v[1]] ELSE 0)]
  /\ order' = [order EXCEPT ![o] = SoldAtCounter(b, qty)]
  /\ UNCHANGED <<damaged, item, gen, res, late, claimed>>

\* InventoryService.setStock with the version the row still has: the count
\* replaces the stock and the movement records the difference.
SetStock(v, n) ==
  /\ stock[v] # n
  /\ stock'  = [stock EXCEPT ![v] = n]
  /\ inflow' = [inflow EXCEPT ![v] = @ + n - stock[v]]
  /\ UNCHANGED <<damaged, item, gen, res, late, order, claimed>>

-----------------------------------------------------------------------------

Init ==
  /\ stock   = Seed
  /\ damaged = [v \in Variants |-> 0]
  /\ inflow  = [v \in Variants |-> 0]
  /\ item    = [u \in Users |-> [l \in Lines |-> NoItem]]
  /\ gen     = [u \in Users |-> [l \in Lines |-> 0]]
  /\ res     = [r \in Rids |-> NoRes]
  /\ late    = [u \in Users |-> FALSE]
  /\ order   = [o \in Orders |-> NoRow]
  /\ claimed = {}

Quantities == [Lines -> 0..MaxQty]

CartNext(u) ==
  \/ \E l \in Lines, b \in Branches, n \in 1..MaxQty : AddItem(u, l, b, n)
  \/ \E l \in Lines, b \in Branches, n \in 1..MaxQty : UpdateItemQuantity(u, l, b, n)
  \/ \E l \in Lines : RemoveItem(u, l)
  \/ ClearCart(u)
  \/ \E b \in Branches, qty \in Quantities : SyncCart(u, b, qty)
  \/ ExpireCart(u)
  \/ TimePasses(u)

OrderNext(o) ==
  \/ \E u \in Users, b \in Branches, qty \in Quantities : Checkout(u, o, b, qty)
  \/ Settle(o)
  \/ Cancel(o)
  \/ \E s \in OrderStatus : StaffStatus(o, s)
  \/ \E b \in Branches, good \in Quantities, bad \in Quantities : Return(o, b, good, bad)
  \/ \E b \in Branches, qty \in Quantities : PosSale(o, b, qty)

Next ==
  \/ \E u \in Users : CartNext(u)
  \/ \E o \in Orders : OrderNext(o)
  \/ \E v \in Variants, n \in 0..MaxStock : SetStock(v, n)

Spec == Init /\ [][Next]_vars

\* The sweep of cart-cleanup.service.ts runs every 15 minutes.
StockFairness == \A u \in Users : WF_vars(ExpireCart(u))

FairSpec == Spec /\ StockFairness

-----------------------------------------------------------------------------
(* Properties *)

\* Every row has the columns of its table; stock never goes below zero (the
\* CHECK of product_inventories), whatever mix of sales and counts is run.
TypeOK ==
  /\ stock   \in [Variants -> Nat]
  /\ damaged \in [Variants -> Nat]
  /\ inflow  \in [Variants -> Int]
  /\ item    \in [Users -> [Lines -> Items]]
  /\ gen     \in [Users -> [Lines -> 0..MaxGen]]
  /\ res     \in [Rids -> ResRows]
  /\ late    \in [Users -> BOOLEAN]
  /\ order   \in [Orders -> OrderRows]
  /\ claimed \in SUBSET Effects

\* A cart row and the ACTIVE reservation behind it always agree on branch and
\* quantity, and no ACTIVE reservation is left without its cart row: what a
\* customer sees in the cart is what is set aside, and nothing else is.
ReservedIffInCart ==
  /\ \A u \in Users, l \in Lines : InCart(u, l) =>
       /\ Rid(u, l) \in Rids
       /\ res[Rid(u, l)].status = "ACTIVE"
       /\ res[Rid(u, l)].branch = item[u][l].branch
       /\ res[Rid(u, l)].qty    = item[u][l].qty
  /\ \A r \in Rids : res[r].status = "ACTIVE" => item[r[1]][r[2]].gen = r[3]

\* Reservations are numbered in the order of their creation.
FreshRids == \A r \in Rids : res[r].status # "NONE" => r[3] <= gen[r[1]][r[2]]

\* A web order that is not cancelled holds, for each line it sold, exactly one
\* CONSUMED reservation of that quantity in its branch; a CONSUMED reservation
\* belongs to such an order.  Cancelling, reviving and buying again from the
\* same cart cannot part the two.
OwnedBy(r, o) == res[r].status = "CONSUMED" /\ res[r].order = o

OrderOwnsItsUnits ==
  /\ \A o \in Orders, l \in Lines :
       /\ order[o].source = "WEB"
       /\ order[o].status \notin {"NONE", "CANCELADO"}
       /\ order[o].lines[l] > 0
       => \E r \in Rids : r[2] = l /\ OwnedBy(r, o)
  /\ \A r \in Rids : res[r].status = "CONSUMED" =>
       /\ res[r].order \in Orders
       /\ LET row == order[res[r].order] IN
            /\ row.source = "WEB" /\ row.status \notin {"NONE", "CANCELADO"}
            /\ row.branch = res[r].branch /\ row.lines[r[2]] = res[r].qty
       /\ \A q \in Rids : OwnedBy(q, res[r].order) /\ q[2] = r[2] => q = r

\* Units of a variant that carts and live orders hold, one token for each.
HeldUnits(l, b) ==
  {t \in Rids \X (1..MaxQty) :
     /\ t[1][2] = l
     /\ res[t[1]].status \in {"ACTIVE", "CONSUMED"}
     /\ res[t[1]].branch = b
     /\ t[2] <= res[t[1]].qty}

\* docs/checkout-resiliente.md: initial stock = stock on sale + ACTIVE + live
\* CONSUMED, up to counts, returns and counter sales.  No sequence of cart
\* changes, expirations, purchases and cancellations creates or loses a unit.
LedgerBalance ==
  \A l \in Lines, b \in Branches :
    stock[<<l, b>>] + Cardinality(HeldUnits(l, b)) = Seed[<<l, b>>] + inflow[<<l, b>>]

\* What a reservation became is final: EXPIRED and RELEASED stay as they are,
\* and CONSUMED leaves that state only when its order is cancelled.
EndsOnce(r) ==
  /\ res[r].status \in {"EXPIRED", "RELEASED"} => res'[r] = res[r]
  /\ res[r].status = "CONSUMED" =>
       \/ res'[r] = res[r]
       \/ /\ res'[r].status = "RELEASED"
          /\ order'[res[r].order].status = "CANCELADO"

ReservationsEndOnce == [][\A r \in Rids : EndsOnce(r)]_vars

\* A cart past its time is given back: by the sweep, or because the customer
\* came back and every overdue line was returned before the change.
OverdueCartsEmptied ==
  \A u \in Users : late[u] ~> (~late[u] \/ \A l \in Lines : ~InCart(u, l))

\* docs/checkout-resiliente.md:7: a physical unit is available, reserved or
\* sold only once; so a cancelled order, which restocks all of its lines, has
\* no unit that a return already put back.
NoUnitRestockedTwice ==
  \A o \in Orders, l \in Lines : order[o].status = "CANCELADO" => order[o].ret[l] = 0

=============================================================================
