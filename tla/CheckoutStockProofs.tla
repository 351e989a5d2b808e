------------------------ MODULE CheckoutStockProofs ------------------------
(***************************************************************************)
(* Proofs about CheckoutStock: type correctness, the agreement of carts    *)
(* with their reservations, that a reservation ends once, and that no unit *)
(* is created or lost.                                                     *)
(***************************************************************************)
EXTENDS CheckoutStock, FiniteSetTheorems, TLAPS

Wanted == [branch : Branches \cup {NoBranch}, qty : 0..MaxQty]

-----------------------------------------------------------------------------
(* Operators *)

\* Moving units never needs nor returns a negative number of them.
LEMMA GiveTakeType ==
  ASSUME NEW held \in Wanted, NEW want \in Wanted, NEW b
  PROVE  Give(held, want, b) \in Nat /\ Take(held, want, b) \in Nat
  BY StockAssumption DEF Give, Take, Monus, Wanted

\* The reservation of a cart row is a row of stock_reservations.
LEMMA CartRid ==
  ASSUME TypeOK, NEW u \in Users, NEW l \in Lines, InCart(u, l)
  PROVE  /\ item[u][l].gen \in Gens
         /\ Rid(u, l) \in Rids
         /\ Rid(u, l)[1] = u /\ Rid(u, l)[2] = l /\ Rid(u, l)[3] = item[u][l].gen
         /\ res[Rid(u, l)] \in ResRows
  <1>1. item[u][l] \in Items
    BY DEF TypeOK
  <1>2. item[u][l].gen \in Gens
    BY <1>1, StockAssumption DEF Items, InCart, Gens
  <1> QED
    BY <1>2 DEF TypeOK, Rid, Rids

\* What a customer holds of a line is a quantity in a branch.
LEMMA HeldType ==
  ASSUME TypeOK, NEW u \in Users, NEW l \in Lines
  PROVE  Held(u, l) \in Wanted /\ Kept(u, l) \in Wanted
  BY CartRid, StockAssumption DEF Held, Kept, StillInCart, Wanted, ResRows

\* The units that expiry gives back to a branch are a number.
LEMMA ExpiredType ==
  ASSUME TypeOK, NEW u \in Users, NEW l \in Lines, NEW b
  PROVE  Expired(u, l, b) \in Nat
  BY CartRid, StockAssumption DEF Expired, Overdue, Once, ResRows

\* The reservation and the revision a line takes next are among those there are.
LEMMA NextRid ==
  ASSUME TypeOK, NEW u \in Users, NEW l \in Lines, GenFor(u, l) \in Gens
  PROVE  RidFor(u, l) \in Rids /\ RevFor(u, l) \in Nat
  <1>1. RidFor(u, l) \in Rids
    BY DEF RidFor, Rids
  <1>2. RevFor(u, l) \in Nat
    BY CartRid DEF RevFor, StillInCart, ResRows
  <1> QED
    BY <1>1, <1>2

-----------------------------------------------------------------------------
(* Types *)

\* What every caller of Mutate asks for: a line is only removed when the cart
\* still has it.
Asked(u, D, want) ==
  /\ D \in SUBSET Lines
  /\ want \in [D -> Wanted]
  /\ \A l \in D : want[l].qty = 0 => StillInCart(u, l)

\* The same for each line that a request may ask for.
LEMMA AskedRid ==
  ASSUME TypeOK, NEW u \in Users, NEW D, NEW want, Asked(u, D, want), Mutate(u, D, want),
         NEW l \in D
  PROVE  /\ GenFor(u, l) \in Gens
         /\ RidFor(u, l) \in Rids /\ RevFor(u, l) \in Nat
         /\ want[l] \in Wanted
  <1>1. l \in Lines /\ want[l] \in Wanted
    BY DEF Asked
  <1>2. GenFor(u, l) \in Gens
    <2>1. CASE want[l].qty = 0
      BY <1>1, <2>1, CartRid DEF Asked, GenFor, StillInCart
    <2>2. CASE want[l].qty # 0
      BY <1>1, <2>2, StockAssumption DEF Mutate, Wanted
    <2> QED
      BY <2>1, <2>2
  <1> QED
    BY <1>1, <1>2, NextRid

\* A mutation of a cart keeps every type.
LEMMA MutateType ==
  ASSUME TypeOK, NEW u \in Users, NEW D, NEW want, Asked(u, D, want), Mutate(u, D, want)
  PROVE  TypeOK'
  <1>1. stock' \in [Variants -> Nat]
    <2> SUFFICES ASSUME NEW v \in Variants
                 PROVE  StockAfter(u, D, want, v) \in Nat
      BY DEF Mutate
    <2>1. /\ v[1] \in Lines /\ v[2] \in Branches /\ v = <<v[1], v[2]>>
          /\ stock[v] \in Nat
          /\ Expired(u, v[1], v[2]) \in Nat
      BY ExpiredType DEF TypeOK, Variants
    <2>2. CASE v[1] \notin D
      BY <2>1, <2>2 DEF StockAfter
    <2>3. CASE v[1] \in D
      <3>1. want[v[1]] \in Wanted
        BY <2>3 DEF Asked
      <3>2. CartGive(u, v[1], want[v[1]], v[2]) \in Nat /\ CartTake(u, v[1], want[v[1]], v[2]) \in Nat
        BY <2>1, <3>1, HeldType, GiveTakeType DEF CartGive, CartTake, Once
      <3>3. stock[v] + Expired(u, v[1], v[2]) >= CartTake(u, v[1], want[v[1]], v[2])
        BY <2>1, <2>3 DEF Mutate, Enough
      <3> QED
        BY <2>1, <2>3, <3>2, <3>3 DEF StockAfter
    <2> QED
      BY <2>2, <2>3
  <1>2. res' \in [Rids -> ResRows]
    <2> SUFFICES ASSUME NEW r \in Rids
                 PROVE  ResAfter(u, D, want, r) \in ResRows
      BY DEF Mutate
    <2>1. res[r] \in ResRows
      BY DEF TypeOK
    <2>2. r[2] \in D => want[r[2]] \in Wanted /\ RevFor(u, r[2]) \in Nat
      BY AskedRid
    <2> QED
      BY <2>1, <2>2 DEF ResAfter, ResRows, Wanted, ResStatus
  <1>3. item' \in [Users -> [Lines -> Items]]
    <2>1. ASSUME NEW l \in Lines
          PROVE  ItemAfter(u, D, want, l) \in Items
      <3>1. item[u][l] \in Items /\ NoItem \in Items
        BY StockAssumption DEF TypeOK, Items, NoItem
      <3>2. l \in D => want[l] \in Wanted /\ GenFor(u, l) \in Gens
        BY AskedRid
      <3> QED
        BY <3>1, <3>2, StockAssumption DEF ItemAfter, Items, Wanted, Gens
    <2> QED
      BY <2>1 DEF Mutate, TypeOK
  <1>4. gen' \in [Users -> [Lines -> 0..MaxGen]]
    <2>1. ASSUME NEW l \in Lines
          PROVE  GenAfter(u, D, want, l) \in 0..MaxGen
      <3>1. gen[u][l] \in 0..MaxGen
        BY DEF TypeOK
      <3>2. l \in D /\ ~StillInCart(u, l) => gen[u][l] + 1 \in Gens
        BY AskedRid DEF GenFor
      <3> QED
        BY <3>1, <3>2, StockAssumption DEF GenAfter, Gens
    <2> QED
      BY <2>1 DEF Mutate, TypeOK
  <1>5. late' \in [Users -> BOOLEAN]
    BY DEF Mutate, TypeOK
  <1>6. claimed' \in SUBSET Effects
    <2>1. ASSUME NEW l \in Overdue(u)
          PROVE  ExpireEffect(u, l) \in Effects
      BY <2>1, CartRid DEF Overdue, ExpireEffect, Effect, Effects, ResRows
    <2>2. ASSUME NEW l \in D
          PROVE  CartEffects(u, l, want[l]) \subseteq Effects
      BY <2>2, AskedRid DEF CartEffects, Effect, Effects
    <2>3. claimed' = claimed \cup {ExpireEffect(u, l) : l \in Overdue(u)}
                             \cup UNION {CartEffects(u, l, want[l]) : l \in D}
      BY DEF Mutate
    <2> QED
      BY <2>1, <2>2, <2>3 DEF TypeOK
  <1> QED
    BY <1>1, <1>2, <1>3, <1>4, <1>5, <1>6 DEF Mutate, TypeOK

\* The shop starts well formed.
LEMMA InitType == Init => TypeOK
  BY StockAssumption DEF Init, TypeOK, NoItem, NoRes, NoRow, NoLines, Items, ResRows, OrderRows,
     ResStatus, OrderStatus, PayStatus

\* A cart that lost some of its lines is well formed.
LEMMA ClearedType ==
  ASSUME TypeOK, NEW u \in Users, NEW D
  PROVE  WithoutRows(u, D) \in [Users -> [Lines -> Items]]
  BY StockAssumption DEF TypeOK, WithoutRows, NoItem, Items

\* Every request of a customer is a Mutate of lines it may ask for.
LEMMA CartNextCases ==
  ASSUME TypeOK, NEW u \in Users, CartNext(u)
  PROVE  \/ \E D, want : Asked(u, D, want) /\ Mutate(u, D, want)
         \/ ExpireCart(u)
         \/ TimePasses(u)
  <1>1. ASSUME NEW l \in Lines, NEW b \in Branches, NEW n \in 1..MaxQty, AddItem(u, l, b, n)
        PROVE  \E D, want : Asked(u, D, want) /\ Mutate(u, D, want)
    <2>1. Kept(u, l) \in Wanted
      BY HeldType
    <2>2. Asked(u, {l}, [x \in {l} |-> Want(b, Kept(u, l).qty + n)])
      BY <1>1, <2>1, StockAssumption DEF AddItem, Asked, Want, Wanted
    <2> QED
      BY <1>1, <2>2 DEF AddItem
  <1>2. ASSUME NEW l \in Lines, NEW b \in Branches, NEW n \in 1..MaxQty, UpdateItemQuantity(u, l, b, n)
        PROVE  \E D, want : Asked(u, D, want) /\ Mutate(u, D, want)
    <2>1. Asked(u, {l}, [x \in {l} |-> Want(b, n)])
      BY <1>2, StockAssumption DEF UpdateItemQuantity, Asked, Want, Wanted
    <2> QED
      BY <1>2, <2>1 DEF UpdateItemQuantity
  <1>3. ASSUME NEW l \in Lines
        PROVE  Want(item[u][l].branch, 0) \in Wanted /\ Want(item[u][l].branch, 0).qty = 0
    BY StockAssumption DEF TypeOK, Items, Want, Wanted
  <1>4. ASSUME NEW l \in Lines, RemoveItem(u, l)
        PROVE  \E D, want : Asked(u, D, want) /\ Mutate(u, D, want)
    <2>1. Asked(u, {l}, [x \in {l} |-> Want(item[u][l].branch, 0)])
      BY <1>3, <1>4 DEF RemoveItem, Asked
    <2> QED
      BY <1>4, <2>1 DEF RemoveItem
  <1>5. ASSUME ClearCart(u)
        PROVE  \E D, want : Asked(u, D, want) /\ Mutate(u, D, want)
    <2> DEFINE D == {l \in Lines : StillInCart(u, l)}
    <2>1. Asked(u, D, [l \in D |-> Want(item[u][l].branch, 0)])
      BY <1>3 DEF Asked
    <2> QED
      BY <1>5, <2>1 DEF ClearCart
  <1>6. ASSUME NEW b \in Branches, NEW qty \in Quantities, SyncCart(u, b, qty)
        PROVE  \E D, want : Asked(u, D, want) /\ Mutate(u, D, want)
    <2> DEFINE D == {l \in Lines : qty[l] > 0 \/ StillInCart(u, l)}
               want == [l \in D |-> IF qty[l] > 0 THEN Want(b, qty[l]) ELSE Want(item[u][l].branch, 0)]
    <2>1. ASSUME NEW l \in D
          PROVE  want[l] \in Wanted /\ (want[l].qty = 0 => StillInCart(u, l))
      BY <1>3, StockAssumption DEF Quantities, Want, Wanted
    <2>2. Asked(u, D, want)
      BY <2>1 DEF Asked
    <2> QED
      BY <1>6, <2>2 DEF SyncCart
  <1> QED
    BY <1>1, <1>2, <1>4, <1>5, <1>6 DEF CartNext

\* Changing only the status of a reservation or of an order keeps its type.
LEMMA ResRowStatus ==
  ASSUME NEW row \in ResRows, NEW s \in ResStatus
  PROVE  [row EXCEPT !.status = s] \in ResRows
  BY DEF ResRows

\* An order with another status is well formed.
LEMMA OrderRowStatus ==
  ASSUME NEW row \in OrderRows, NEW s \in OrderStatus
  PROVE  [row EXCEPT !.status = s] \in OrderRows
  BY DEF OrderRows

\* Every request of a customer keeps the types.
LEMMA CartNextType ==
  ASSUME TypeOK, NEW u \in Users, CartNext(u)
  PROVE  TypeOK'
  <1>1. ASSUME ExpireCart(u)
        PROVE  TypeOK'
    <2>1. stock' \in [Variants -> Nat]
      BY <1>1, ExpiredType DEF ExpireCart, TypeOK, Variants
    <2>2. res' \in [Rids -> ResRows]
      <3>1. "EXPIRED" \in ResStatus
        BY DEF ResStatus
      <3>2. \A r \in Rids : res[r] \in ResRows /\ [res[r] EXCEPT !.status = "EXPIRED"] \in ResRows
        BY <3>1, ResRowStatus DEF TypeOK
      <3> QED
        BY <1>1, <3>2 DEF ExpireCart
    <2>3. \A l \in Overdue(u) : ExpireEffect(u, l) \in Effects
      BY CartRid DEF Overdue, ExpireEffect, Effect, Effects, ResRows
    <2> QED
      BY <1>1, <2>1, <2>2, <2>3, ClearedType DEF ExpireCart, TypeOK
  <1>2. ASSUME TimePasses(u)
        PROVE  TypeOK'
    BY <1>2 DEF TimePasses, TypeOK
  <1> QED
    BY <1>1, <1>2, CartNextCases, MutateType

\* Buying a cart keeps the types.
LEMMA CheckoutType ==
  ASSUME TypeOK, NEW u \in Users, NEW o \in Orders, NEW b \in Branches, NEW qty \in Quantities,
         Checkout(u, o, b, qty)
  PROVE  TypeOK'
  <1>0. \A l \in Lines : qty[l] \in 0..MaxQty /\ Want(b, qty[l]) \in Wanted
    BY DEF Quantities, Want, Wanted
  <1>1. stock' \in [Variants -> Nat]
    <2>1. ASSUME NEW v \in Variants, qty[v[1]] > 0
          PROVE  /\ Give(Held(u, v[1]), Want(b, qty[v[1]]), v[2]) \in Nat
                 /\ Take(Held(u, v[1]), Want(b, qty[v[1]]), v[2]) \in Nat
                 /\ stock[v] >= Take(Held(u, v[1]), Want(b, qty[v[1]]), v[2])
      <3>1. v[1] \in Lines /\ v[2] \in Branches /\ v = <<v[1], v[2]>> /\ stock[v] \in Nat
        BY DEF Variants, TypeOK
      <3>2. Enough(v, 0, Take(Held(u, v[1]), Want(b, qty[v[1]]), v[2]))
        BY <2>1, <3>1 DEF Checkout
      <3> QED
        BY <1>0, <3>1, <3>2, HeldType, GiveTakeType DEF Enough
    <2>2. \A v \in Variants : v[1] \in Lines /\ stock[v] \in Nat
      BY DEF Variants, TypeOK
    <2> QED
      BY <2>1, <2>2 DEF Checkout
  <1>2. res' \in [Rids -> ResRows]
    <2> SUFFICES ASSUME NEW r \in Rids
                 PROVE  res'[r] \in ResRows
      BY DEF Checkout
    <2>1. res[r] \in ResRows /\ r[2] \in Lines
      BY DEF TypeOK, Rids
    <2> QED
      BY <1>0, <2>1 DEF Checkout, ResRows, ResStatus
  <1>3. gen' \in [Users -> [Lines -> 0..MaxGen]]
    <2>1. ASSUME NEW l \in Lines, qty[l] > 0, ~InCart(u, l)
          PROVE  gen[u][l] + 1 \in 0..MaxGen
      BY <2>1, StockAssumption DEF Checkout, CheckoutGen, Gens
    <2> QED
      BY <2>1 DEF Checkout, TypeOK
  <1>4. order' \in [Orders -> OrderRows]
    <2>1. BoughtOnline(b, qty) \in OrderRows
      BY StockAssumption DEF BoughtOnline, OrderRows, NoLines, Quantities, OrderStatus, PayStatus
    <2> QED
      BY <2>1 DEF Checkout, TypeOK
  <1> QED
    BY <1>1, <1>2, <1>3, <1>4, ClearedType DEF Checkout, TypeOK

\* Every step of an order, the counter and the staff keeps the types.
LEMMA OrderNextType ==
  ASSUME TypeOK, NEW o \in Orders, OrderNext(o)
  PROVE  TypeOK'
  <1>0. order[o] \in OrderRows /\ \A v \in Variants : v[1] \in Lines /\ v[2] \in Branches
    BY DEF TypeOK, Variants
  <1>1. CASE Settle(o)
    <2>1. [order[o] EXCEPT !.pay = "COMPLETADO", !.status = "PROCESANDO"] \in OrderRows
      BY <1>0 DEF OrderRows, OrderStatus, PayStatus
    <2> QED
      BY <1>1, <2>1 DEF Settle, TypeOK
  <1>2. CASE Cancel(o)
    <2>1. \A l \in Lines : Once(CancelEffect(o, l), order[o].lines[l]) \in Nat
      BY <1>0 DEF Once, OrderRows
    <2>2. stock' \in [Variants -> Nat] /\ inflow' \in [Variants -> Int]
      BY <1>0, <1>2, <2>1 DEF Cancel, TypeOK
    <2>3. res' \in [Rids -> ResRows]
      <3>1. "RELEASED" \in ResStatus
        BY DEF ResStatus
      <3>2. \A r \in Rids : res[r] \in ResRows /\ [res[r] EXCEPT !.status = "RELEASED"] \in ResRows
        BY <3>1, ResRowStatus DEF TypeOK
      <3> QED
        BY <1>2, <3>2 DEF Cancel
    <2>4. order' \in [Orders -> OrderRows]
      <3>1. "CANCELADO" \in OrderStatus
        BY DEF OrderStatus
      <3>2. [order[o] EXCEPT !.status = "CANCELADO"] \in OrderRows
        BY <1>0, <3>1, OrderRowStatus
      <3> QED
        BY <1>2, <3>2 DEF Cancel, TypeOK
    <2>5. claimed' \in SUBSET Effects
      BY <1>2 DEF Cancel, TypeOK, CancelEffect, Effects
    <2> QED
      BY <1>2, <2>2, <2>3, <2>4, <2>5 DEF Cancel, TypeOK
  <1>3. ASSUME NEW s \in OrderStatus, StaffStatus(o, s)
        PROVE  TypeOK'
    <2>1. [order[o] EXCEPT !.status = s] \in OrderRows
      BY <1>0, OrderRowStatus
    <2> QED
      BY <1>3, <2>1 DEF StaffStatus, TypeOK
  <1>4. ASSUME NEW b \in Branches, NEW good \in Quantities, NEW bad \in Quantities, Return(o, b, good, bad)
        PROVE  TypeOK'
    <2>1. \A l \in Lines : good[l] \in Nat /\ bad[l] \in Nat
      BY DEF Quantities
    <2>2. stock' \in [Variants -> Nat] /\ inflow' \in [Variants -> Int] /\ damaged' \in [Variants -> Nat]
      BY <1>0, <1>4, <2>1 DEF Return, TypeOK
    <2>3. [l \in Lines |-> order[o].ret[l] + good[l] + bad[l]] \in [Lines -> 0..MaxQty]
      BY <1>0, <1>4, <2>1, StockAssumption DEF Return, OrderRows
    <2>4. ASSUME NEW ret \in [Lines -> 0..MaxQty], NEW pay \in PayStatus
          PROVE  [order[o] EXCEPT !.ret = ret, !.pay = pay] \in OrderRows
      BY <1>0 DEF OrderRows
    <2>5. order' \in [Orders -> OrderRows]
      BY ZenonT(60), <1>4, <2>3, <2>4 DEF Return, TypeOK, PayStatus
    <2> QED
      BY <1>4, <2>2, <2>5 DEF Return, TypeOK
  <1>5. ASSUME NEW b \in Branches, NEW qty \in Quantities, PosSale(o, b, qty)
        PROVE  TypeOK'
    <2>1. \A l \in Lines : qty[l] \in Nat
      BY DEF Quantities
    <2>2. \A v \in Variants : v = <<v[1], v[2]>>
      BY DEF Variants
    <2>3. stock' \in [Variants -> Nat] /\ inflow' \in [Variants -> Int]
      BY <1>0, <1>5, <2>1, <2>2 DEF PosSale, Enough, TypeOK
    <2>4. order' \in [Orders -> OrderRows]
      <3>1. SoldAtCounter(b, qty) \in OrderRows
        BY StockAssumption DEF SoldAtCounter, OrderRows, NoLines, Quantities, OrderStatus, PayStatus
      <3> QED
        BY <1>5, <3>1 DEF PosSale, TypeOK
    <2> QED
      BY <1>5, <2>3, <2>4 DEF PosSale, TypeOK
  <1> QED
    BY <1>1, <1>2, <1>3, <1>4, <1>5, CheckoutType DEF OrderNext

\* Every step keeps the types.
LEMMA NextType == TypeOK /\ [Next]_vars => TypeOK'
  <1> SUFFICES ASSUME TypeOK, [Next]_vars
               PROVE  TypeOK'
    OBVIOUS
  <1>1. ASSUME NEW v \in Variants, NEW n \in 0..MaxStock, SetStock(v, n)
        PROVE  TypeOK'
    BY <1>1, StockAssumption DEF SetStock, TypeOK
  <1>2. CASE UNCHANGED vars
    BY <1>2 DEF vars, TypeOK
  <1> QED
    BY <1>1, <1>2, CartNextType, OrderNextType DEF Next

\* Every reachable state has well-formed rows and no negative stock, for any
\* number of customers, lines, branches and orders and any starting stock.
THEOREM TypeCorrect == Spec => []TypeOK
  BY InitType, NextType, PTL DEF Spec

-----------------------------------------------------------------------------
(* Reservations: the inductive invariant *)

\* ReservedIffInCart is not inductive alone: that a new reservation gets a
\* number no other row has comes from FreshRids.
SafeInv == TypeOK /\ ReservedIffInCart /\ FreshRids /\ OrderOwnsItsUnits

\* The row a cart change writes is the line's own reservation or a new one.
LEMMA RidForFree ==
  ASSUME SafeInv, NEW u \in Users, NEW l \in Lines, GenFor(u, l) \in Gens
  PROVE  /\ RidFor(u, l) \in Rids
         /\ res[RidFor(u, l)].status \in {"NONE", "ACTIVE"}
         /\ StillInCart(u, l) => RidFor(u, l) = Rid(u, l)
         /\ InCart(u, l) => item[u][l].gen <= gen[u][l]
         /\ gen[u][l] \in Nat /\ gen[u][l] <= MaxGen
  <1>1. RidFor(u, l) \in Rids
    BY DEF RidFor, Rids
  <1>2. gen[u][l] \in Nat /\ gen[u][l] <= MaxGen
    BY StockAssumption DEF SafeInv, TypeOK
  <1>3. InCart(u, l) => item[u][l].gen <= gen[u][l]
    BY CartRid DEF SafeInv, ReservedIffInCart, FreshRids
  <1>4. CASE StillInCart(u, l)
    BY <1>1, <1>2, <1>3, <1>4 DEF SafeInv, ReservedIffInCart, StillInCart, GenFor, RidFor, Rid
  <1>5. CASE ~StillInCart(u, l)
    <2>1. ~(gen[u][l] + 1 <= gen[u][l])
      BY <1>2
    <2> QED
      BY <1>1, <1>2, <1>3, <1>5, <2>1 DEF SafeInv, FreshRids, GenFor, RidFor
  <1> QED
    BY <1>4, <1>5

\* Nothing that happens to a cart touches the reservations that have ended or
\* that an order owns.
LEMMA MutateKeeps ==
  ASSUME SafeInv, NEW u \in Users, NEW D, NEW want, Asked(u, D, want), Mutate(u, D, want),
         NEW r \in Rids
  PROVE  /\ res[r].status \in {"EXPIRED", "RELEASED", "CONSUMED"} => res'[r] = res[r]
         /\ res'[r].status = "CONSUMED" => res[r].status = "CONSUMED"
  <1>1. res'[r] = ResAfter(u, D, want, r) /\ r[2] \in Lines /\ res[r] \in ResRows
    BY DEF Mutate, Rids, SafeInv, TypeOK
  <1>2. r[2] \in D => res[RidFor(u, r[2])].status \in {"NONE", "ACTIVE"}
    BY AskedRid, RidForFree, <1>1 DEF SafeInv
  <1>3. InCart(u, r[2]) => res[Rid(u, r[2])].status = "ACTIVE"
    BY <1>1 DEF SafeInv, ReservedIffInCart
  <1> QED
    BY <1>1, <1>2, <1>3 DEF ResAfter, ResRows, Overdue, StillInCart

\* The agreement of orders with reservations survives a step that keeps which
\* reservations are CONSUMED and what the live web orders sold.
LEMMA OwnedStays ==
  ASSUME SafeInv, TypeOK',
         \A r \in Rids : /\ res[r].status = "CONSUMED" => res'[r] = res[r]
                         /\ res'[r].status = "CONSUMED" => res[r].status = "CONSUMED",
         \A o \in Orders : /\ order'[o].source = order[o].source
                           /\ order'[o].branch = order[o].branch
                           /\ order'[o].lines  = order[o].lines
                           /\ order'[o].status \in {"NONE", "CANCELADO"} <=>
                              order[o].status \in {"NONE", "CANCELADO"}
  PROVE  OrderOwnsItsUnits'
  <1>1. \A r \in Rids : res'[r].status = "CONSUMED" => res[r].status = "CONSUMED" /\ res'[r] = res[r]
    OBVIOUS
  <1>2. ASSUME NEW o \in Orders, NEW l \in Lines,
               order'[o].source = "WEB", order'[o].status \notin {"NONE", "CANCELADO"}, order'[o].lines[l] > 0
        PROVE  \E r \in Rids : r[2] = l /\ OwnedBy(r, o)'
    <2>1. PICK r \in Rids : r[2] = l /\ OwnedBy(r, o)
      BY <1>2 DEF SafeInv, OrderOwnsItsUnits
    <2> QED
      BY <2>1 DEF OwnedBy
  <1>3. ASSUME NEW r \in Rids, res'[r].status = "CONSUMED"
        PROVE  /\ res'[r].order \in Orders
               /\ LET row == order'[res'[r].order] IN
                    /\ row.source = "WEB" /\ row.status \notin {"NONE", "CANCELADO"}
                    /\ row.branch = res'[r].branch /\ row.lines[r[2]] = res'[r].qty
               /\ \A q \in Rids : OwnedBy(q, res[r].order)' /\ q[2] = r[2] => q = r
    BY SMTT(30), <1>1, <1>3 DEF SafeInv, OrderOwnsItsUnits, OwnedBy
  <1>4. \A r \in Rids : res'[r].status = "CONSUMED" => res'[r].order = res[r].order
    BY <1>1
  <1> QED
    BY <1>2, <1>3, <1>4 DEF OrderOwnsItsUnits, OwnedBy

\* A mutation of a cart keeps lines and reservations in agreement.
LEMMA MutateSafe ==
  ASSUME SafeInv, NEW u \in Users, NEW D, NEW want, Asked(u, D, want), Mutate(u, D, want)
  PROVE  SafeInv'
  <1>0. TypeOK' /\ TypeOK
    BY MutateType DEF SafeInv
  <1>1. ASSUME NEW x \in Users, x # u
        PROVE  item'[x] = item[x] /\ gen'[x] = gen[x]
    BY <1>0, <1>1 DEF Mutate, TypeOK
  <1> DEFINE Put(l) == l \in D /\ want[l].qty > 0
  <1>2. /\ \A l \in Lines : item'[u][l] = ItemAfter(u, D, want, l) /\ gen'[u][l] = GenAfter(u, D, want, l)
        /\ \A r \in Rids : res'[r] = ResAfter(u, D, want, r)
    BY <1>0 DEF Mutate, TypeOK
  <1>3. ASSUME NEW l \in D
        PROVE  /\ l \in Lines /\ GenFor(u, l) \in Gens /\ want[l] \in Wanted
               /\ RidFor(u, l) \in Rids
               /\ RidFor(u, l)[1] = u /\ RidFor(u, l)[2] = l /\ RidFor(u, l)[3] = GenFor(u, l)
    BY <1>3, <1>0, AskedRid DEF Asked, RidFor
  <1>4. ASSUME NEW l \in Lines
        PROVE  /\ Put(l) => item'[u][l] = [gen |-> GenFor(u, l), branch |-> want[l].branch, qty |-> want[l].qty]
               /\ ~Put(l) /\ l \in D \cup Overdue(u) => item'[u][l] = NoItem
               /\ l \notin D \cup Overdue(u) => item'[u][l] = item[u][l]
    BY <1>2 DEF ItemAfter
  <1>5. ASSUME NEW r \in Rids
        PROVE  /\ r[1] # u => res'[r] = res[r]
               /\ r[1] = u /\ Put(r[2]) /\ r = RidFor(u, r[2]) =>
                    res'[r].status = "ACTIVE" /\ res'[r].branch = want[r[2]].branch /\ res'[r].qty = want[r[2]].qty
               /\ r[1] = u /\ r[2] \notin D \cup Overdue(u) => res'[r] = res[r]
               /\ r[1] = u /\ ~(Put(r[2]) /\ r = RidFor(u, r[2])) /\ res'[r].status = "ACTIVE" =>
                    /\ res[r].status = "ACTIVE"
                    /\ r = Rid(u, r[2]) => r[2] \notin Overdue(u) /\ (r[2] \in D => ~StillInCart(u, r[2]))
    <2>1. res[r] \in ResRows /\ res'[r] = ResAfter(u, D, want, r)
      BY <1>0, <1>2 DEF TypeOK
    <2> QED
      BY <2>1 DEF ResAfter, ResRows
  <1> HIDE DEF Put
  <1>6. ReservedIffInCart'
    <2>1. ASSUME NEW x \in Users, NEW l \in Lines, item'[x][l].gen # 0
          PROVE  LET r == <<x, l, item'[x][l].gen>> IN
                   /\ r \in Rids
                   /\ res'[r].status = "ACTIVE"
                   /\ res'[r].branch = item'[x][l].branch
                   /\ res'[r].qty    = item'[x][l].qty
      <3>1. CASE x # u
        <4>1. InCart(x, l) /\ item'[x] = item[x]
          BY <1>1, <2>1, <3>1 DEF InCart
        <4>2. Rid(x, l) \in Rids /\ Rid(x, l)[1] = x /\ Rid(x, l) = <<x, l, item'[x][l].gen>>
          BY <1>0, <4>1, CartRid DEF Rid
        <4> QED
          BY <1>5, <3>1, <4>1, <4>2 DEF SafeInv, ReservedIffInCart
      <3>2. CASE x = u /\ Put(l)
        <4>1. item'[u][l] = [gen |-> GenFor(u, l), branch |-> want[l].branch, qty |-> want[l].qty]
          BY <1>4, <3>2
        <4>2. RidFor(u, l) = <<u, l, item'[u][l].gen>> /\ l \in D
          BY <3>2, <4>1 DEF RidFor, Put
        <4>3. RidFor(u, l) \in Rids /\ RidFor(u, l)[1] = u /\ RidFor(u, l)[2] = l
          BY <1>3, <4>2
        <4> QED
          BY <1>5, <3>2, <4>1, <4>2, <4>3
      <3>3. CASE x = u /\ ~Put(l)
        <4>1. NoItem.gen = 0
          BY DEF NoItem
        <4>2. l \notin D \cup Overdue(u) /\ item'[u][l] = item[u][l] /\ InCart(u, l)
          BY <1>4, <2>1, <3>3, <4>1 DEF InCart
        <4>3. Rid(u, l) \in Rids /\ Rid(u, l)[1] = u /\ Rid(u, l)[2] = l /\ Rid(u, l) = <<u, l, item'[u][l].gen>>
          BY <1>0, <4>2, CartRid DEF Rid
        <4> QED
          BY <1>5, <3>3, <4>2, <4>3 DEF SafeInv, ReservedIffInCart
      <3> QED
        BY <3>1, <3>2, <3>3
    <2>2. ASSUME NEW r \in Rids, res'[r].status = "ACTIVE"
          PROVE  item'[r[1]][r[2]].gen = r[3]
      <3>0. r[1] \in Users /\ r[2] \in Lines /\ r[3] \in Gens /\ r = <<r[1], r[2], r[3]>>
        BY DEF Rids
      <3>1. CASE r[1] # u
        BY <1>1, <1>5, <2>2, <3>0, <3>1 DEF SafeInv, ReservedIffInCart
      <3>2. CASE r[1] = u /\ Put(r[2]) /\ r = RidFor(u, r[2])
        <4>1. r[2] \in D
          BY <3>2 DEF Put
        <4>2. RidFor(u, r[2])[3] = GenFor(u, r[2])
          BY <1>3, <4>1
        <4>3. item'[u][r[2]] = [gen |-> GenFor(u, r[2]), branch |-> want[r[2]].branch, qty |-> want[r[2]].qty]
          BY <1>4, <3>0, <3>2
        <4> QED
          BY <3>2, <4>2, <4>3
      <3>3. CASE r[1] = u /\ ~(Put(r[2]) /\ r = RidFor(u, r[2]))
        <4>1. res[r].status = "ACTIVE"
          BY <1>5, <2>2, <3>3
        <4>2. item[u][r[2]].gen = r[3] /\ r = Rid(u, r[2]) /\ InCart(u, r[2])
          BY <3>0, <3>3, <4>1, StockAssumption DEF SafeInv, ReservedIffInCart, Rid, InCart, Gens
        <4>3. r[2] \notin Overdue(u) /\ (r[2] \in D => ~StillInCart(u, r[2]))
          BY <1>5, <2>2, <3>3, <4>2
        <4>4. r[2] \notin D \cup Overdue(u)
          BY <4>2, <4>3 DEF StillInCart
        <4> QED
          BY <1>4, <3>0, <3>3, <4>2, <4>4
      <3> QED
        BY <3>1, <3>2, <3>3
    <2> QED
      BY <2>1, <2>2 DEF ReservedIffInCart, InCart, Rid
  <1>7. FreshRids'
    <2> USE DEF Put
    <2> SUFFICES ASSUME NEW r \in Rids, res'[r].status # "NONE"
                 PROVE  r[3] <= gen'[r[1]][r[2]]
      BY DEF FreshRids
    <2>0. r[1] \in Users /\ r[2] \in Lines /\ r[3] \in Gens /\ res[r] \in ResRows
      BY SMTT(60), <1>0 DEF Rids, TypeOK
    <2>1. CASE r[1] # u
      BY ZenonT(60), <1>1, <1>2, <2>0, <2>1 DEF SafeInv, FreshRids, ResAfter
    <2>2. CASE r[1] = u /\ r[2] \in D /\ want[r[2]].qty > 0 /\ r = RidFor(u, r[2])
      <3>1. GenFor(u, r[2]) <= GenAfter(u, D, want, r[2])
        BY <1>3, <2>0, <2>2, RidForFree DEF GenFor, GenAfter, StillInCart
      <3> QED
        BY <1>2, <1>3, <2>0, <2>2, <3>1
    <2>3. CASE r[1] = u /\ ~(r[2] \in D /\ want[r[2]].qty > 0 /\ r = RidFor(u, r[2]))
      <3>1. res[r].status # "NONE"
        BY ZenonT(60), <1>2, <2>0, <2>3 DEF ResAfter, ResRows, Overdue, StillInCart, SafeInv, ReservedIffInCart
      <3>2. gen[u][r[2]] \in Nat /\ gen[u][r[2]] <= GenAfter(u, D, want, r[2])
        BY <1>0, <2>0, StockAssumption DEF TypeOK, GenAfter
      <3>3. r[3] <= gen[u][r[2]] /\ r[3] \in Nat
        BY <2>0, <2>3, <3>1 DEF SafeInv, FreshRids, Gens
      <3>4. GenAfter(u, D, want, r[2]) \in Nat
        BY <1>2, <1>0, <2>0, StockAssumption DEF TypeOK
      <3> QED
        BY SMTT(30), <1>2, <2>0, <2>3, <3>2, <3>3, <3>4
    <2> QED
      BY <2>1, <2>2, <2>3
  <1>8. OrderOwnsItsUnits'
    <2>1. order' = order
      BY DEF Mutate
    <2>2. \A r \in Rids : /\ res[r].status = "CONSUMED" => res'[r] = res[r]
                          /\ res'[r].status = "CONSUMED" => res[r].status = "CONSUMED"
      BY MutateKeeps
    <2> QED
      BY <1>0, <2>1, <2>2, OwnedStays
  <1> QED
    BY <1>0, <1>6, <1>7, <1>8 DEF SafeInv

\* Reservations that a step leaves alone, with the rows they are linked to.
LEMMA CartsStay ==
  ASSUME SafeInv, UNCHANGED <<item, gen>>,
         \A r \in Rids : \/ res'[r] = res[r]
                         \/ res[r].status = "CONSUMED" /\ res'[r].status = "RELEASED"
  PROVE  ReservedIffInCart' /\ FreshRids'
  <1>1. \A u \in Users, l \in Lines : InCart(u, l) => Rid(u, l) \in Rids /\ res'[Rid(u, l)] = res[Rid(u, l)]
    BY CartRid DEF SafeInv, ReservedIffInCart
  <1>2. \A r \in Rids : /\ res'[r].status = "ACTIVE" => res[r].status = "ACTIVE"
                        /\ res'[r].status # "NONE" => res[r].status # "NONE"
    OBVIOUS
  <1> QED
    BY <1>1, <1>2 DEF SafeInv, ReservedIffInCart, FreshRids, InCart, Rid

\* Expiry ends ACTIVE reservations of the cart and leaves every other one alone.
LEMMA ExpireKeeps ==
  ASSUME SafeInv, NEW u \in Users, ExpireCart(u), NEW r \in Rids
  PROVE  /\ res[r].status \in {"EXPIRED", "RELEASED", "CONSUMED"} => res'[r] = res[r]
         /\ res'[r].status = "CONSUMED" => res[r].status = "CONSUMED"
         /\ res'[r].status = "ACTIVE" => /\ res[r].status = "ACTIVE"
                                         /\ res'[r] = res[r]
                                         /\ r[1] = u => r[2] \notin Overdue(u)
         /\ res'[r].status # "NONE" => res[r].status # "NONE"
  <1>1. /\ res[r] \in ResRows /\ r[1] \in Users /\ r[2] \in Lines /\ r[3] \in Gens
        /\ r = <<r[1], r[2], r[3]>>
    BY DEF SafeInv, TypeOK, Rids
  <1>2. res[r].status = "ACTIVE" => r = Rid(r[1], r[2])
    BY <1>1 DEF SafeInv, ReservedIffInCart, Rid
  <1>3. r[2] \in Overdue(u) /\ r = Rid(u, r[2]) => res[r].status = "ACTIVE"
    BY <1>1 DEF SafeInv, ReservedIffInCart, Overdue
  <1>4. \/ r[1] = u /\ r[2] \in Overdue(u) /\ r = Rid(u, r[2]) /\ res'[r] = [res[r] EXCEPT !.status = "EXPIRED"]
        \/ ~(r[1] = u /\ r[2] \in Overdue(u) /\ r = Rid(u, r[2])) /\ res'[r] = res[r]
    BY DEF ExpireCart
  <1>5. [res[r] EXCEPT !.status = "EXPIRED"].status = "EXPIRED"
    BY <1>1 DEF ResRows
  <1> QED
    BY <1>2, <1>3, <1>4, <1>5

\* Expiry of a cart keeps lines and reservations in agreement.
LEMMA ExpireSafe ==
  ASSUME SafeInv, NEW u \in Users, ExpireCart(u), TypeOK'
  PROVE  SafeInv'
  <1>1. /\ \A x \in Users, l \in Lines :
             item'[x][l] = IF x = u /\ l \in Overdue(u) THEN NoItem ELSE item[x][l]
        /\ UNCHANGED <<gen, order>>
    BY DEF ExpireCart, WithoutRows, SafeInv, TypeOK
  <1>2. NoItem.gen = 0
    BY DEF NoItem
  <1>3. ReservedIffInCart'
    <2>1. ASSUME NEW x \in Users, NEW l \in Lines, item'[x][l].gen # 0
          PROVE  LET r == <<x, l, item'[x][l].gen>> IN
                   /\ r \in Rids
                   /\ res'[r].status = "ACTIVE"
                   /\ res'[r].branch = item'[x][l].branch
                   /\ res'[r].qty    = item'[x][l].qty
      <3>1. ~(x = u /\ l \in Overdue(u)) /\ item'[x][l] = item[x][l] /\ InCart(x, l)
        BY <1>1, <1>2, <2>1 DEF InCart
      <3>2. Rid(x, l) \in Rids /\ Rid(x, l)[1] = x /\ Rid(x, l)[2] = l /\ Rid(x, l) = <<x, l, item'[x][l].gen>>
        BY <3>1, CartRid DEF Rid, SafeInv
      <3>3. res'[Rid(x, l)] = res[Rid(x, l)]
        BY <3>1, <3>2 DEF ExpireCart
      <3> QED
        BY <3>1, <3>2, <3>3 DEF SafeInv, ReservedIffInCart
    <2>2. ASSUME NEW r \in Rids, res'[r].status = "ACTIVE"
          PROVE  item'[r[1]][r[2]].gen = r[3]
      <3>1. r[1] \in Users /\ r[2] \in Lines
        BY DEF Rids
      <3> QED
        BY <1>1, <2>2, <3>1, ExpireKeeps DEF SafeInv, ReservedIffInCart
    <2> QED
      BY <2>1, <2>2 DEF ReservedIffInCart, InCart, Rid
  <1>4. FreshRids'
    BY <1>1, ExpireKeeps DEF SafeInv, FreshRids
  <1>5. OrderOwnsItsUnits'
    <2>1. \A r \in Rids : /\ res[r].status = "CONSUMED" => res'[r] = res[r]
                          /\ res'[r].status = "CONSUMED" => res[r].status = "CONSUMED"
      BY ExpireKeeps
    <2> QED
      BY <1>1, <2>1, OwnedStays
  <1> QED
    BY <1>3, <1>4, <1>5 DEF SafeInv

\* Every request of a customer keeps that agreement.
LEMMA CartNextSafe ==
  ASSUME SafeInv, NEW u \in Users, CartNext(u)
  PROVE  SafeInv'
  <1>1. TypeOK /\ TypeOK'
    BY CartNextType DEF SafeInv
  <1>2. CASE TimePasses(u)
    BY <1>1, <1>2, CartsStay, OwnedStays DEF TimePasses, SafeInv
  <1> QED
    BY <1>1, <1>2, CartNextCases, MutateSafe, ExpireSafe

\* The reservation an order takes over, field by field.
LEMMA CheckoutRow ==
  ASSUME SafeInv, NEW u \in Users, NEW o \in Orders, NEW b \in Branches, NEW qty \in Quantities,
         Checkout(u, o, b, qty), NEW r \in Rids
  PROVE  /\ r[1] = u /\ qty[r[2]] > 0 /\ r = CheckoutRid(u, r[2]) =>
              /\ res[r].status \in {"NONE", "ACTIVE"}
              /\ res'[r].status = "CONSUMED" /\ res'[r].branch = b
              /\ res'[r].qty = qty[r[2]] /\ res'[r].order = o
              /\ r[3] <= gen'[u][r[2]]
         /\ ~(r[1] = u /\ qty[r[2]] > 0 /\ r = CheckoutRid(u, r[2])) => res'[r] = res[r]
  <1>1. r[1] \in Users /\ r[2] \in Lines /\ r[3] \in Gens /\ res[r] \in ResRows
    BY DEF SafeInv, TypeOK, Rids
  <1>2. ASSUME r[1] = u, qty[r[2]] > 0, r = CheckoutRid(u, r[2])
        PROVE  res[r].status \in {"NONE", "ACTIVE"} /\ r[3] <= gen'[u][r[2]]
    <2>1. /\ gen[u][r[2]] \in Nat
          /\ gen'[u][r[2]] = IF ~InCart(u, r[2]) THEN gen[u][r[2]] + 1 ELSE gen[u][r[2]]
      BY <1>1, <1>2, StockAssumption DEF SafeInv, TypeOK, Checkout
    <2>2. r[3] = CheckoutGen(u, r[2])
      BY <1>2 DEF CheckoutRid
    <2>3. CASE InCart(u, r[2])
      <3>1. r = Rid(u, r[2]) /\ res[r].status = "ACTIVE"
        BY <1>1, <1>2, <2>3 DEF CheckoutRid, CheckoutGen, Rid, SafeInv, ReservedIffInCart
      <3>2. r[3] <= gen[u][r[2]]
        BY <1>2, <3>1 DEF SafeInv, FreshRids
      <3> QED
        BY <2>1, <2>3, <3>1, <3>2
    <2>4. CASE ~InCart(u, r[2])
      <3>1. r[3] = gen[u][r[2]] + 1
        BY <2>2, <2>4 DEF CheckoutGen
      <3>2. ~(r[3] <= gen[u][r[2]]) /\ r[3] <= gen'[u][r[2]]
        BY <2>1, <2>4, <3>1
      <3> QED
        BY <1>2, <3>2 DEF SafeInv, FreshRids
    <2> QED
      BY <2>3, <2>4
  <1>3. res'[r] = IF r[1] = u /\ qty[r[2]] > 0 /\ r = CheckoutRid(u, r[2])
                  THEN [status |-> "CONSUMED", branch |-> b, qty |-> qty[r[2]], order |-> o,
                        rev |-> IF InCart(u, r[2]) THEN res[r].rev + 1 ELSE 0]
                  ELSE res[r]
    BY <1>1 DEF Checkout
  <1> QED
    BY <1>2, <1>3

\* Buying a cart turns its reservations into those of the order.
LEMMA CheckoutSafe ==
  ASSUME SafeInv, NEW u \in Users, NEW o \in Orders, NEW b \in Branches, NEW qty \in Quantities,
         Checkout(u, o, b, qty), TypeOK'
  PROVE  SafeInv'
  <1> DEFINE Bought(r) == r[1] = u /\ qty[r[2]] > 0 /\ r = CheckoutRid(u, r[2])
  <1>0. TypeOK /\ \A l \in Lines : qty[l] \in Nat
    BY DEF SafeInv, Quantities
  <1>1. /\ \A x \in Users, l \in Lines : item'[x][l] = IF x = u /\ qty[l] > 0 THEN NoItem ELSE item[x][l]
        /\ order[o].status = "NONE"
        /\ order' = [order EXCEPT ![o] = BoughtOnline(b, qty)]
    BY <1>0 DEF Checkout, WithoutRows, TypeOK
  <1>2. NoItem.gen = 0
    BY DEF NoItem
  <1>3. \A x \in Users, l \in Lines : gen[x][l] \in Nat /\ gen'[x][l] \in Nat /\ gen[x][l] <= gen'[x][l]
    BY <1>0, StockAssumption DEF Checkout, TypeOK
  <1>4. \A r \in Rids : /\ Bought(r) => /\ res[r].status \in {"NONE", "ACTIVE"}
                                        /\ res'[r].status = "CONSUMED" /\ res'[r].branch = b
                                        /\ res'[r].qty = qty[r[2]] /\ res'[r].order = o
                                        /\ r[3] <= gen'[u][r[2]]
                        /\ ~Bought(r) => res'[r] = res[r]
    BY CheckoutRow
  <1> HIDE DEF Bought
  <1>5. ReservedIffInCart'
    <2>1. ASSUME NEW x \in Users, NEW l \in Lines, item'[x][l].gen # 0
          PROVE  LET r == <<x, l, item'[x][l].gen>> IN
                   /\ r \in Rids
                   /\ res'[r].status = "ACTIVE"
                   /\ res'[r].branch = item'[x][l].branch
                   /\ res'[r].qty    = item'[x][l].qty
      <3>1. ~(x = u /\ qty[l] > 0) /\ item'[x][l] = item[x][l] /\ InCart(x, l)
        BY <1>1, <1>2, <2>1 DEF InCart
      <3>2. Rid(x, l) \in Rids /\ Rid(x, l)[1] = x /\ Rid(x, l)[2] = l /\ Rid(x, l) = <<x, l, item'[x][l].gen>>
        BY <1>0, <3>1, CartRid DEF Rid
      <3>3. res'[Rid(x, l)] = res[Rid(x, l)]
        BY <1>4, <3>1, <3>2 DEF Bought
      <3> QED
        BY <3>1, <3>2, <3>3 DEF SafeInv, ReservedIffInCart
    <2>2. ASSUME NEW r \in Rids, res'[r].status = "ACTIVE"
          PROVE  item'[r[1]][r[2]].gen = r[3]
      <3>1. r[1] \in Users /\ r[2] \in Lines /\ r[3] \in Gens /\ r = <<r[1], r[2], r[3]>>
        BY DEF Rids
      <3>2. ~Bought(r) /\ res[r].status = "ACTIVE"
        BY <1>4, <2>2
      <3>3. item[r[1]][r[2]].gen = r[3] /\ InCart(r[1], r[2])
        BY <3>1, <3>2, StockAssumption DEF SafeInv, ReservedIffInCart, InCart, Gens
      <3>4. ~(r[1] = u /\ qty[r[2]] > 0)
        BY <3>1, <3>2, <3>3 DEF Bought, CheckoutRid, CheckoutGen
      <3> QED
        BY <1>1, <3>1, <3>3, <3>4
    <2> QED
      BY <2>1, <2>2 DEF ReservedIffInCart, InCart, Rid
  <1>6. FreshRids'
    <2> SUFFICES ASSUME NEW r \in Rids, res'[r].status # "NONE"
                 PROVE  r[3] <= gen'[r[1]][r[2]]
      BY DEF FreshRids
    <2>1. r[1] \in Users /\ r[2] \in Lines /\ r[3] \in Nat
      BY StockAssumption DEF Rids, Gens
    <2>2. CASE Bought(r)
      BY <1>4, <2>2 DEF Bought
    <2>3. CASE ~Bought(r)
      <3>1. r[3] <= gen[r[1]][r[2]]
        BY <1>4, <2>3 DEF SafeInv, FreshRids
      <3> QED
        BY <1>3, <2>1, <3>1
    <2> QED
      BY <2>2, <2>3
  <1>7. OrderOwnsItsUnits'
    <2>0. /\ \A x \in Orders : x # o => order'[x] = order[x]
          /\ order'[o].source = "WEB" /\ order'[o].status = "PENDIENTE"
          /\ order'[o].branch = b /\ order'[o].lines = qty
      BY <1>0, <1>1 DEF TypeOK, BoughtOnline
    <2>1. \A r \in Rids : res[r].status = "CONSUMED" => res[r].order \in Orders /\ res[r].order # o
      BY <1>1 DEF SafeInv, OrderOwnsItsUnits
    <2>2. \A r \in Rids : OwnedBy(r, o)' <=> Bought(r)
      BY <1>4, <2>1 DEF OwnedBy
    <2>3. \A r \in Rids, x \in Orders : x # o => (OwnedBy(r, x)' <=> OwnedBy(r, x))
      BY <1>4 DEF OwnedBy
    <2>4. ASSUME NEW x \in Orders, NEW l \in Lines,
                 order'[x].source = "WEB", order'[x].status \notin {"NONE", "CANCELADO"}, order'[x].lines[l] > 0
          PROVE  \E r \in Rids : r[2] = l /\ OwnedBy(r, x)'
      <3>1. CASE x = o
        <4>1. CheckoutRid(u, l) \in Rids
          BY <2>0, <2>4, <3>1 DEF Checkout, CheckoutRid, Rids
        <4>2. CheckoutRid(u, l)[1] = u /\ CheckoutRid(u, l)[2] = l
          BY DEF CheckoutRid
        <4>3. Bought(CheckoutRid(u, l))
          BY <2>0, <2>4, <3>1, <4>2 DEF Bought
        <4> QED
          BY <2>2, <3>1, <4>1, <4>2, <4>3
      <3>2. CASE x # o
        BY <2>0, <2>3, <2>4, <3>2 DEF SafeInv, OrderOwnsItsUnits
      <3> QED
        BY <3>1, <3>2
    <2>5. ASSUME NEW r \in Rids, res'[r].status = "CONSUMED"
          PROVE  /\ res'[r].order \in Orders
                 /\ LET row == order'[res'[r].order] IN
                      /\ row.source = "WEB" /\ row.status \notin {"NONE", "CANCELADO"}
                      /\ row.branch = res'[r].branch /\ row.lines[r[2]] = res'[r].qty
                 /\ \A q \in Rids : res'[q].status = "CONSUMED" /\ res'[q].order = res'[r].order /\ q[2] = r[2] => q = r
      <3>1. CASE Bought(r)
        <4>1. \A q \in Rids : Bought(q) /\ q[2] = r[2] => q = r
          BY <3>1 DEF Bought
        <4> QED
          BY <1>4, <2>0, <2>2, <3>1, <4>1 DEF OwnedBy
      <3>2. CASE ~Bought(r)
        <4>1. res'[r] = res[r] /\ res[r].status = "CONSUMED" /\ res[r].order \in Orders /\ res[r].order # o
          BY <1>4, <2>1, <2>5, <3>2
        <4>2. \A q \in Rids : res'[q].status = "CONSUMED" /\ res'[q].order = res[r].order => OwnedBy(q, res[r].order)
          BY <2>3, <4>1 DEF OwnedBy
        <4> QED
          BY <2>0, <4>1, <4>2 DEF SafeInv, OrderOwnsItsUnits
      <3> QED
        BY <3>1, <3>2
    <2> QED
      BY <2>4, <2>5 DEF OrderOwnsItsUnits, OwnedBy
  <1> QED
    BY <1>5, <1>6, <1>7 DEF SafeInv

\* Cancelling an order releases what it owned, and nothing else.
LEMMA CancelSafe ==
  ASSUME SafeInv, NEW o \in Orders, Cancel(o), TypeOK'
  PROVE  SafeInv'
  <1>1. \A r \in Rids :
          /\ OwnedBy(r, o) => res'[r].status = "RELEASED"
          /\ ~OwnedBy(r, o) => res'[r] = res[r]
    BY DEF Cancel, OwnedBy, SafeInv, TypeOK, ResRows
  <1>2. /\ \A x \in Orders : x # o => order'[x] = order[x]
        /\ order'[o].status = "CANCELADO"
        /\ UNCHANGED <<item, gen>>
    BY DEF Cancel, SafeInv, TypeOK, OrderRows
  <1>3. ReservedIffInCart' /\ FreshRids'
    BY <1>1, <1>2, CartsStay DEF OwnedBy
  <1>4. \A r \in Rids : res'[r].status = "CONSUMED" =>
          res[r].status = "CONSUMED" /\ res'[r] = res[r] /\ res[r].order # o
    BY <1>1 DEF OwnedBy
  <1>5. OrderOwnsItsUnits'
    <2>1. ASSUME NEW x \in Orders, NEW l \in Lines,
                 order'[x].source = "WEB", order'[x].status \notin {"NONE", "CANCELADO"}, order'[x].lines[l] > 0
          PROVE  \E r \in Rids : r[2] = l /\ OwnedBy(r, x)'
      <3>1. PICK r \in Rids : r[2] = l /\ OwnedBy(r, x)
        BY <1>2, <2>1 DEF SafeInv, OrderOwnsItsUnits
      <3> QED
        BY <1>1, <1>2, <2>1, <3>1 DEF OwnedBy
    <2>2. ASSUME NEW r \in Rids, res'[r].status = "CONSUMED"
          PROVE  /\ res'[r].order \in Orders
                 /\ LET row == order'[res'[r].order] IN
                      /\ row.source = "WEB" /\ row.status \notin {"NONE", "CANCELADO"}
                      /\ row.branch = res'[r].branch /\ row.lines[r[2]] = res'[r].qty
                 /\ \A q \in Rids : res'[q].status = "CONSUMED" /\ res'[q].order = res'[r].order /\ q[2] = r[2] => q = r
      BY <1>2, <1>4, <2>2 DEF SafeInv, OrderOwnsItsUnits, OwnedBy
    <2> QED
      BY <2>1, <2>2 DEF OrderOwnsItsUnits, OwnedBy
  <1> QED
    BY <1>3, <1>5 DEF SafeInv

\* A sale at the counter owns units without reservations.
LEMMA PosSaleSafe ==
  ASSUME SafeInv, NEW o \in Orders, NEW b \in Branches, NEW qty \in Quantities, PosSale(o, b, qty), TypeOK'
  PROVE  SafeInv'
  <1>1. /\ \A x \in Orders : x # o => order'[x] = order[x]
        /\ order'[o].source = "POS" /\ order[o].status = "NONE"
        /\ UNCHANGED <<item, gen, res>>
    BY DEF PosSale, SafeInv, TypeOK, SoldAtCounter
  <1>2. ReservedIffInCart' /\ FreshRids'
    BY <1>1, CartsStay
  <1>3. \A r \in Rids : res[r].status = "CONSUMED" => res[r].order # o
    BY <1>1 DEF SafeInv, OrderOwnsItsUnits
  <1>4. OrderOwnsItsUnits'
    <2>1. ASSUME NEW x \in Orders, NEW l \in Lines,
                 order'[x].source = "WEB", order'[x].status \notin {"NONE", "CANCELADO"}, order'[x].lines[l] > 0
          PROVE  \E r \in Rids : r[2] = l /\ OwnedBy(r, x)'
      BY <1>1, <2>1 DEF SafeInv, OrderOwnsItsUnits, OwnedBy
    <2>2. ASSUME NEW r \in Rids, res[r].status = "CONSUMED"
          PROVE  /\ res[r].order \in Orders
                 /\ LET row == order'[res[r].order] IN
                      /\ row.source = "WEB" /\ row.status \notin {"NONE", "CANCELADO"}
                      /\ row.branch = res[r].branch /\ row.lines[r[2]] = res[r].qty
                 /\ \A q \in Rids : res[q].status = "CONSUMED" /\ res[q].order = res[r].order /\ q[2] = r[2] => q = r
      BY <1>1, <1>3, <2>2 DEF SafeInv, OrderOwnsItsUnits, OwnedBy
    <2> QED
      BY <1>1, <2>1, <2>2 DEF OrderOwnsItsUnits, OwnedBy
  <1> QED
    BY <1>2, <1>4 DEF SafeInv

\* Every step of an order, the counter and the staff keeps the agreement.
LEMMA OrderNextSafe ==
  ASSUME SafeInv, NEW o \in Orders, OrderNext(o)
  PROVE  SafeInv'
  <1>0. TypeOK' /\ order \in [Orders -> OrderRows] /\ order[o] \in OrderRows
    BY OrderNextType DEF SafeInv, TypeOK
  <1>1. ASSUME UNCHANGED <<item, gen, res>>, order[o].status \notin {"NONE", "CANCELADO"},
               NEW row, order' = [order EXCEPT ![o] = row],
               row.source = order[o].source, row.branch = order[o].branch, row.lines = order[o].lines,
               row.status \notin {"NONE", "CANCELADO"}
        PROVE  SafeInv'
    <2>1. order'[o] = row /\ \A x \in Orders : x # o => order'[x] = order[x]
      BY <1>0, <1>1
    <2>2. \A x \in Orders : /\ order'[x].source = order[x].source
                            /\ order'[x].branch = order[x].branch
                            /\ order'[x].lines  = order[x].lines
                            /\ order'[x].status \in {"NONE", "CANCELADO"} <=>
                               order[x].status \in {"NONE", "CANCELADO"}
      BY <1>1, <2>1
    <2>3. ReservedIffInCart' /\ FreshRids'
      BY <1>1, CartsStay
    <2>4. OrderOwnsItsUnits'
      BY <1>0, <1>1, <2>2, OwnedStays
    <2> QED
      BY <1>0, <2>3, <2>4 DEF SafeInv
  <1>2. CASE Settle(o)
    <2> DEFINE row == [order[o] EXCEPT !.pay = "COMPLETADO", !.status = "PROCESANDO"]
    <2>1. row.source = order[o].source /\ row.branch = order[o].branch /\ row.lines = order[o].lines
          /\ row.status = "PROCESANDO"
      BY <1>0 DEF OrderRows
    <2>2. order' = [order EXCEPT ![o] = row] /\ UNCHANGED <<item, gen, res>>
          /\ order[o].status \notin {"NONE", "CANCELADO"}
      BY <1>2 DEF Settle
    <2> HIDE DEF row
    <2> QED
      BY <1>1, <2>1, <2>2
  <1>3. ASSUME NEW s \in OrderStatus, StaffStatus(o, s)
        PROVE  SafeInv'
    <2> DEFINE row == [order[o] EXCEPT !.status = s]
    <2>1. row.source = order[o].source /\ row.branch = order[o].branch /\ row.lines = order[o].lines
          /\ row.status = s
      BY <1>0 DEF OrderRows
    <2>2. order' = [order EXCEPT ![o] = row] /\ UNCHANGED <<item, gen, res>>
          /\ order[o].status \notin {"NONE", "CANCELADO"} /\ s \notin {"NONE", "CANCELADO"}
      BY <1>0, <1>3 DEF StaffStatus
    <2> HIDE DEF row
    <2> QED
      BY <1>1, <2>1, <2>2
  <1>4. ASSUME NEW b \in Branches, NEW good \in Quantities, NEW bad \in Quantities, Return(o, b, good, bad)
        PROVE  SafeInv'
    <2> DEFINE ret == [l \in Lines |-> order[o].ret[l] + good[l] + bad[l]]
               pay == IF \A l \in Lines : order[o].ret[l] + good[l] + bad[l] = order[o].lines[l]
                      THEN "REEMBOLSADO" ELSE "COMPLETADO"
               row == [order[o] EXCEPT !.ret = ret, !.pay = pay]
    <2>1. order' = [order EXCEPT ![o] = row] /\ UNCHANGED <<item, gen, res>>
          /\ order[o].status \notin {"NONE", "CANCELADO"}
      BY <1>4 DEF Return
    <2> HIDE DEF ret, pay
    <2>2. row.source = order[o].source /\ row.branch = order[o].branch /\ row.lines = order[o].lines
          /\ row.status = order[o].status
      BY <1>0 DEF OrderRows
    <2> HIDE DEF row
    <2> QED
      BY <1>1, <2>1, <2>2
  <1> QED
    BY <1>0, <1>2, <1>3, <1>4, CheckoutSafe, CancelSafe, PosSaleSafe DEF OrderNext

\* An empty shop is in agreement.
LEMMA InitSafe == Init => SafeInv
  BY InitType DEF Init, SafeInv, ReservedIffInCart, FreshRids, OrderOwnsItsUnits, InCart, NoItem, NoRes, NoRow, Rids

\* Every step keeps the agreement.
LEMMA NextSafe == SafeInv /\ [Next]_vars => SafeInv'
  <1> SUFFICES ASSUME SafeInv, [Next]_vars
               PROVE  SafeInv'
    OBVIOUS
  <1>0. TypeOK'
    BY NextType DEF SafeInv
  <1>1. ASSUME UNCHANGED <<item, gen, res, order>>
        PROVE  SafeInv'
    BY <1>0, <1>1, CartsStay, OwnedStays DEF SafeInv
  <1>2. ASSUME NEW v \in Variants, NEW n \in 0..MaxStock, SetStock(v, n)
        PROVE  SafeInv'
    BY <1>1, <1>2 DEF SetStock
  <1>3. CASE UNCHANGED vars
    BY <1>1, <1>3 DEF vars
  <1> QED
    BY <1>2, <1>3, CartNextSafe, OrderNextSafe DEF Next

\* Every reachable state satisfies the inductive invariant: rows are well formed,
\* carts agree with their reservations, reservations are numbered in order and
\* live web orders own their units.
THEOREM Safe == Spec => []SafeInv
  BY InitSafe, NextSafe, PTL DEF Spec

\* What a cart shows is what is set aside for it: rows and ACTIVE reservations
\* agree in every reachable state, for any number of customers.
THEOREM ReservedIffInCartHolds == Spec => []ReservedIffInCart
  <1>1. SafeInv => ReservedIffInCart
    BY DEF SafeInv
  <1> QED
    BY <1>1, Safe, PTL

\* A live web order and its CONSUMED reservations never part.
THEOREM OrderOwnsItsUnitsHolds == Spec => []OrderOwnsItsUnits
  <1>1. SafeInv => OrderOwnsItsUnits
    BY DEF SafeInv
  <1> QED
    BY <1>1, Safe, PTL

\* No step revives a reservation that ended.
LEMMA NextEndsOnce == SafeInv /\ [Next]_vars => [\A r \in Rids : EndsOnce(r)]_vars
  <1> SUFFICES ASSUME SafeInv, Next, NEW r \in Rids
               PROVE  EndsOnce(r)
    BY DEF vars, EndsOnce
  <1>1. CASE res' = res
    BY <1>1 DEF EndsOnce
  <1>2. ASSUME NEW u \in Users, CartNext(u)
        PROVE  EndsOnce(r)
    <2>1. res[r].status \in {"EXPIRED", "RELEASED", "CONSUMED"} => res'[r] = res[r]
      BY <1>2, CartNextCases, MutateKeeps, ExpireKeeps DEF TimePasses, SafeInv
    <2> QED
      BY <2>1 DEF EndsOnce
  <1>3. ASSUME NEW o \in Orders, NEW u \in Users, NEW b \in Branches, NEW qty \in Quantities, Checkout(u, o, b, qty)
        PROVE  EndsOnce(r)
    <2>1. res[r].status \in {"EXPIRED", "RELEASED", "CONSUMED"} => res'[r] = res[r]
      BY <1>3, CheckoutRow
    <2> QED
      BY <2>1 DEF EndsOnce
  <1>4. ASSUME NEW o \in Orders, Cancel(o)
        PROVE  EndsOnce(r)
    <2>1. /\ OwnedBy(r, o) => res'[r].status = "RELEASED"
          /\ ~OwnedBy(r, o) => res'[r] = res[r]
          /\ order'[o].status = "CANCELADO"
      BY <1>4 DEF Cancel, OwnedBy, SafeInv, TypeOK, ResRows, OrderRows
    <2> QED
      BY <2>1 DEF EndsOnce, OwnedBy
  <1>5. ASSUME NEW o \in Orders, OrderNext(o)
        PROVE  EndsOnce(r)
    <2>1. ASSUME \/ Settle(o)
                 \/ \E s \in OrderStatus : StaffStatus(o, s)
                 \/ \E b \in Branches, good \in Quantities, bad \in Quantities : Return(o, b, good, bad)
                 \/ \E b \in Branches, qty \in Quantities : PosSale(o, b, qty)
          PROVE  res' = res
      BY ZenonT(60), <2>1 DEF Settle, StaffStatus, Return, PosSale
    <2> QED
      BY SMTT(60), <1>1, <1>3, <1>4, <1>5, <2>1 DEF OrderNext
  <1>6. ASSUME NEW v \in Variants, NEW n \in 0..MaxStock, SetStock(v, n)
        PROVE  EndsOnce(r)
    BY <1>1, <1>6 DEF SetStock
  <1> QED
    BY <1>2, <1>5, <1>6 DEF Next

\* No step brings back a reservation that ended, and only the cancellation of
\* its order releases a CONSUMED one.
THEOREM ReservationsEndOnceHolds == Spec => ReservationsEndOnce
  BY NextEndsOnce, Safe, PTL DEF Spec, ReservationsEndOnce

-----------------------------------------------------------------------------
(* Counting units *)

\* One token for each unit that the reservations of a line hold, if r holds h[r].
Tokens(h, l) == {t \in Rids \X (1..MaxQty) : t[1][2] = l /\ t[2] <= h[t[1]]}

Holdings == [Rids -> 0..MaxQty]

\* The reservations that there can be are finitely many, and so are their units.
LEMMA FiniteTokens ==
  ASSUME NEW h, NEW l
  PROVE  IsFiniteSet(Tokens(h, l)) /\ Cardinality(Tokens(h, l)) \in Nat
  <1> DEFINE Nested == (Users \X Lines) \X Gens
             f == [p \in Nested |-> <<p[1][1], p[1][2], p[2]>>]
  <1>1. IsFiniteSet(Gens) /\ IsFiniteSet(1..MaxQty) /\ IsFiniteSet(Users) /\ IsFiniteSet(Lines)
    BY StockAssumption, FS_Interval DEF Gens
  <1>2. IsFiniteSet(Nested)
    <2>1. IsFiniteSet(Users \X Lines)
      BY <1>1, FS_Product
    <2> QED
      BY <1>1, <2>1, FS_Product
  <1>3. f \in Surjection(Nested, Rids)
    <2>1. \A p \in Nested : f[p] \in Rids
      BY DEF Rids
    <2>2. ASSUME NEW r \in Rids PROVE \E p \in Nested : f[p] = r
      <3>1. r[1] \in Users /\ r[2] \in Lines /\ r[3] \in Gens /\ r = <<r[1], r[2], r[3]>>
        BY DEF Rids
      <3>2. <<<<r[1], r[2]>>, r[3]>> \in Nested
        BY <3>1
      <3>3. f[<<<<r[1], r[2]>>, r[3]>>] = <<r[1], r[2], r[3]>>
        BY <3>2
      <3> QED
        BY <3>1, <3>2, <3>3
    <2> HIDE DEF f
    <2>3. f \in [Nested -> Rids]
      BY <2>1 DEF f
    <2> QED
      BY <2>2, <2>3 DEF Surjection
  <1>4. IsFiniteSet(Rids)
    <2> HIDE DEF f, Nested
    <2> QED
      BY <1>2, <1>3, FS_Surjection
  <1>5. IsFiniteSet(Rids \X (1..MaxQty))
    BY <1>1, <1>4, FS_Product
  <1>6. Tokens(h, l) \in SUBSET (Rids \X (1..MaxQty))
    BY DEF Tokens
  <1>7. IsFiniteSet(Tokens(h, l))
    BY <1>5, <1>6, FS_Subset
  <1> QED
    BY <1>7, FS_CardinalityType

\* A reservation holds as many tokens as units.
LEMMA OwnTokens ==
  ASSUME NEW r, NEW n \in Nat
  PROVE  IsFiniteSet({r} \X (1..n)) /\ Cardinality({r} \X (1..n)) = n
  <1>1. IsFiniteSet({r}) /\ Cardinality({r}) = 1
    BY FS_Singleton
  <1>2. IsFiniteSet(1..n) /\ Cardinality(1..n) = n
    BY FS_Interval
  <1>3. /\ IsFiniteSet({r} \X (1..n))
        /\ Cardinality({r} \X (1..n)) = Cardinality({r}) * Cardinality(1..n)
    BY <1>1, <1>2, FS_Product, Zenon
  <1>4. Cardinality({r}) * Cardinality(1..n) = 1 * n
    BY <1>1, <1>2, Zenon
  <1>5. 1 * n = n
    OBVIOUS
  <1> QED
    BY <1>3, <1>4, <1>5, Zenon

\* The units of a line: those of one reservation and those of the others.
LEMMA TokensSplit ==
  ASSUME NEW l, NEW r \in Rids, r[2] = l, NEW h \in Holdings
  PROVE  LET rest == {t \in Tokens(h, l) : t[1] # r}
         IN  Cardinality(rest) \in Nat /\ Cardinality(Tokens(h, l)) = Cardinality(rest) + h[r]
  <1> DEFINE rest == {t \in Tokens(h, l) : t[1] # r}
             own  == {r} \X (1..h[r])
  <1>1. h[r] \in Nat /\ h[r] <= MaxQty /\ MaxQty \in Nat
    BY StockAssumption DEF Holdings
  <1>2. Tokens(h, l) = rest \cup own
    <2>1. own \subseteq Tokens(h, l)
      BY <1>1 DEF Tokens
    <2>2. ASSUME NEW t \in Tokens(h, l), t[1] = r PROVE t \in own
      BY <1>1, <2>2 DEF Tokens
    <2> QED
      BY <2>1, <2>2
  <1>3. rest \cap own = {}
    OBVIOUS
  <1>4. IsFiniteSet(rest)
    <2>1. rest \in SUBSET Tokens(h, l)
      OBVIOUS
    <2> QED
      BY <2>1, FiniteTokens, FS_Subset
  <1>5. IsFiniteSet(own) /\ Cardinality(own) = h[r]
    BY <1>1, OwnTokens
  <1>6. Cardinality(rest) \in Nat /\ Cardinality({}) = 0
    BY <1>4, FS_CardinalityType, FS_EmptySet
  <1> HIDE DEF rest, own
  <1>7. Cardinality(rest \cup own) = Cardinality(rest) + Cardinality(own) - Cardinality(rest \cap own)
    BY <1>4, <1>5, FS_Union
  <1>8. Cardinality(Tokens(h, l)) = Cardinality(rest) + h[r]
    <2>1. Cardinality(rest \cap own) = 0
      BY <1>3, <1>6
    <2>2. PICK c \in Nat : c = Cardinality(rest)
      BY <1>6
    <2>3. PICK n \in Nat : n = h[r]
      BY <1>1
    <2>4. Cardinality(rest \cup own) = c + n - 0
      BY <1>5, <1>7, <2>1, <2>2, <2>3
    <2> QED
      BY <1>2, <2>2, <2>3, <2>4
  <1> QED
    BY <1>6, <1>8 DEF rest

\* What one reservation gains or loses, its line gains or loses.
LEMMA OneReservation ==
  ASSUME NEW l, NEW r \in Rids, r[2] = l, NEW h \in Holdings, NEW k \in Holdings,
         \A q \in Rids : q # r /\ q[2] = l => k[q] = h[q]
  PROVE  Cardinality(Tokens(k, l)) + h[r] = Cardinality(Tokens(h, l)) + k[r]
  <1> DEFINE resth == {t \in Tokens(h, l) : t[1] # r}
             restk == {t \in Tokens(k, l) : t[1] # r}
  <1>1. resth = restk
    BY DEF Tokens
  <1>2. Cardinality(resth) \in Nat /\ Cardinality(Tokens(h, l)) = Cardinality(resth) + h[r]
    BY TokensSplit
  <1>3. Cardinality(Tokens(k, l)) = Cardinality(restk) + k[r]
    BY TokensSplit
  <1>4. h[r] \in Nat /\ k[r] \in Nat
    BY StockAssumption DEF Holdings
  <1> HIDE DEF resth, restk
  <1> QED
    BY <1>1, <1>2, <1>3, <1>4

\* The same for two reservations of the line.
LEMMA TwoReservations ==
  ASSUME NEW l, NEW r \in Rids, r[2] = l, NEW s \in Rids, s[2] = l, r # s, NEW h \in Holdings, NEW k \in Holdings,
         \A q \in Rids : q # r /\ q # s /\ q[2] = l => k[q] = h[q]
  PROVE  Cardinality(Tokens(k, l)) + h[r] + h[s] = Cardinality(Tokens(h, l)) + k[r] + k[s]
  <1>1. PICK j \in Holdings : j = [h EXCEPT ![r] = k[r]]
    BY DEF Holdings
  <1>2. /\ j[r] = k[r] /\ j[s] = h[s] /\ \A q \in Rids : q # r => j[q] = h[q]
        /\ \A q \in Rids : q # s /\ q[2] = l => k[q] = j[q]
    BY <1>1 DEF Holdings
  <1>3. Cardinality(Tokens(j, l)) + h[r] = Cardinality(Tokens(h, l)) + j[r]
    BY <1>2, OneReservation
  <1>4. Cardinality(Tokens(k, l)) + j[s] = Cardinality(Tokens(j, l)) + k[s]
    BY <1>2, OneReservation
  <1>5. /\ h[r] \in Nat /\ h[s] \in Nat /\ k[r] \in Nat /\ k[s] \in Nat
        /\ Cardinality(Tokens(h, l)) \in Nat /\ Cardinality(Tokens(j, l)) \in Nat /\ Cardinality(Tokens(k, l)) \in Nat
    BY FiniteTokens, StockAssumption DEF Holdings
  <1> QED
    BY <1>2, <1>3, <1>4, <1>5

\* The units of branch b that a reservation holds.
Units(row, b) == IF row.status \in {"ACTIVE", "CONSUMED"} /\ row.branch = b THEN row.qty ELSE 0
UnitsAt(rows, b) == [r \in Rids |-> Units(rows[r], b)]

\* A reservation holds no more units than a line may have.
LEMMA UnitsType ==
  ASSUME NEW row \in ResRows, NEW b
  PROVE  Units(row, b) \in Nat /\ Units(row, b) \in 0..MaxQty
  BY StockAssumption DEF Units, ResRows

\* The units that carts and live orders hold, as tokens of one table of reservations.
LEMMA HeldTokens ==
  ASSUME NEW rows \in [Rids -> ResRows], NEW l, NEW b
  PROVE  /\ UnitsAt(rows, b) \in Holdings
         /\ {t \in Rids \X (1..MaxQty) :
               /\ t[1][2] = l
               /\ rows[t[1]].status \in {"ACTIVE", "CONSUMED"}
               /\ rows[t[1]].branch = b
               /\ t[2] <= rows[t[1]].qty} = Tokens(UnitsAt(rows, b), l)
  <1>1. ASSUME NEW r \in Rids PROVE Units(rows[r], b) \in 0..MaxQty /\ rows[r].qty \in 0..MaxQty
    BY UnitsType DEF ResRows
  <1>2. UnitsAt(rows, b) \in Holdings /\ \A r \in Rids : UnitsAt(rows, b)[r] = Units(rows[r], b)
    BY <1>1 DEF UnitsAt, Holdings
  <1>3. ASSUME NEW t \in Rids \X (1..MaxQty)
        PROVE  (/\ rows[t[1]].status \in {"ACTIVE", "CONSUMED"} /\ rows[t[1]].branch = b /\ t[2] <= rows[t[1]].qty)
               <=> t[2] <= Units(rows[t[1]], b)
    BY <1>1, StockAssumption DEF Units
  <1> QED
    BY <1>2, <1>3 DEF Tokens

\* The same, before and after a step.
LEMMA HeldBeforeAndAfter ==
  ASSUME TypeOK, TypeOK', NEW l, NEW b
  PROVE  /\ UnitsAt(res, b) \in Holdings /\ HeldUnits(l, b) = Tokens(UnitsAt(res, b), l)
         /\ UnitsAt(res', b) \in Holdings /\ HeldUnits(l, b)' = Tokens(UnitsAt(res', b), l)
         /\ \A q \in Rids : UnitsAt(res, b)[q] = Units(res[q], b) /\ UnitsAt(res', b)[q] = Units(res'[q], b)
  <1>1. res \in [Rids -> ResRows] /\ res' \in [Rids -> ResRows]
    BY DEF TypeOK
  <1>2. HeldUnits(l, b) = Tokens(UnitsAt(res, b), l)
    BY <1>1, HeldTokens DEF HeldUnits
  <1>3. HeldUnits(l, b)' = Tokens(UnitsAt(res', b), l)
    BY <1>1, HeldTokens DEF HeldUnits
  <1> QED
    BY <1>1, <1>2, <1>3, HeldTokens DEF UnitsAt

Balanced(l, b) == stock[<<l, b>>] + Cardinality(HeldUnits(l, b)) = Seed[<<l, b>>] + inflow[<<l, b>>]

\* The balance of a shelf as numbers: units in stock and held against the seed and
\* what came in, before and after none, one or two reservations move.
LEMMA NumbersOfNone ==
  ASSUME NEW x \in Int, NEW y \in Int, NEW i \in Int, NEW j \in Int, NEW c \in Int, NEW n \in Nat,
         x + n = c + i, y + i = x + j
  PROVE  y + n = c + j
  OBVIOUS

LEMMA NumbersOfOne ==
  ASSUME NEW x \in Int, NEW y \in Int, NEW i \in Int, NEW c \in Int,
         NEW m \in Nat, NEW n \in Nat, NEW ch \in Nat, NEW ck \in Nat,
         ck + m = ch + n, x + ch = c + i, y + n = x + m
  PROVE  y + ck = c + i
  OBVIOUS

LEMMA NumbersOfTwo ==
  ASSUME NEW x \in Int, NEW y \in Int, NEW i \in Int, NEW c \in Int,
         NEW m \in Nat, NEW n \in Nat, NEW m2 \in Nat, NEW n2 \in Nat, NEW ch \in Nat, NEW ck \in Nat,
         ck + m + m2 = ch + n + n2, x + ch = c + i, y + n + n2 = x + m + m2
  PROVE  y + ck = c + i
  OBVIOUS

\* The ledger stays balanced when stock, ledger and one reservation move together.
LEMMA BalancedByOne ==
  ASSUME TypeOK, TypeOK', NEW l \in Lines, NEW b \in Branches, Balanced(l, b),
         NEW r \in Rids, r[2] = l,
         \A q \in Rids : q # r /\ q[2] = l => Units(res'[q], b) = Units(res[q], b),
         inflow'[<<l, b>>] = inflow[<<l, b>>],
         stock'[<<l, b>>] + Units(res'[r], b) = stock[<<l, b>>] + Units(res[r], b)
  PROVE  Balanced(l, b)'
  <1>1. PICK h \in Holdings, k \in Holdings :
          /\ HeldUnits(l, b) = Tokens(h, l) /\ HeldUnits(l, b)' = Tokens(k, l)
          /\ \A q \in Rids : h[q] = Units(res[q], b) /\ k[q] = Units(res'[q], b)
    BY HeldBeforeAndAfter
  <1>2. Cardinality(Tokens(k, l)) + h[r] = Cardinality(Tokens(h, l)) + k[r]
    BY <1>1, OneReservation
  <1>3. PICK m \in Nat, n \in Nat, ch \in Nat, ck \in Nat :
          m = h[r] /\ n = k[r] /\ ch = Cardinality(Tokens(h, l)) /\ ck = Cardinality(Tokens(k, l))
    BY FiniteTokens, StockAssumption DEF Holdings
  <1>4. PICK x \in Int, y \in Int, i \in Int, c \in Int :
          /\ x = stock[<<l, b>>] /\ y = stock'[<<l, b>>] /\ i = inflow[<<l, b>>] /\ c = Seed[<<l, b>>]
    BY StockAssumption DEF TypeOK, Variants
  <1>5. ck + m = ch + n /\ x + ch = c + i /\ y + n = x + m
    BY <1>1, <1>2, <1>3, <1>4 DEF Balanced
  <1>6. y + ck = c + i
    BY <1>5, NumbersOfOne, SMTT(60)
  <1> QED
    BY <1>1, <1>3, <1>4, <1>6 DEF Balanced

\* So it does when two reservations of the line move, as when one is past its time and a new one takes its place.
LEMMA BalancedByTwo ==
  ASSUME TypeOK, TypeOK', NEW l \in Lines, NEW b \in Branches, Balanced(l, b),
         NEW r \in Rids, r[2] = l, NEW s \in Rids, s[2] = l, r # s,
         \A q \in Rids : q # r /\ q # s /\ q[2] = l => Units(res'[q], b) = Units(res[q], b),
         inflow'[<<l, b>>] = inflow[<<l, b>>],
         stock'[<<l, b>>] + Units(res'[r], b) + Units(res'[s], b)
           = stock[<<l, b>>] + Units(res[r], b) + Units(res[s], b)
  PROVE  Balanced(l, b)'
  <1>1. PICK h \in Holdings, k \in Holdings :
          /\ HeldUnits(l, b) = Tokens(h, l) /\ HeldUnits(l, b)' = Tokens(k, l)
          /\ \A q \in Rids : h[q] = Units(res[q], b) /\ k[q] = Units(res'[q], b)
    BY HeldBeforeAndAfter
  <1>2. Cardinality(Tokens(k, l)) + h[r] + h[s] = Cardinality(Tokens(h, l)) + k[r] + k[s]
    BY <1>1, TwoReservations
  <1>3. PICK m \in Nat, n \in Nat, m2 \in Nat, n2 \in Nat, ch \in Nat, ck \in Nat :
          /\ m = h[r] /\ n = k[r] /\ m2 = h[s] /\ n2 = k[s]
          /\ ch = Cardinality(Tokens(h, l)) /\ ck = Cardinality(Tokens(k, l))
    <2>1. h[r] \in Nat /\ k[r] \in Nat /\ h[s] \in Nat /\ k[s] \in Nat
      BY StockAssumption DEF Holdings
    <2>2. Cardinality(Tokens(h, l)) \in Nat /\ Cardinality(Tokens(k, l)) \in Nat
      BY FiniteTokens
    <2> QED
      BY <2>1, <2>2
  <1>4. PICK x \in Int, y \in Int, i \in Int, c \in Int :
          /\ x = stock[<<l, b>>] /\ y = stock'[<<l, b>>] /\ i = inflow[<<l, b>>] /\ c = Seed[<<l, b>>]
    BY StockAssumption DEF TypeOK, Variants
  <1>5. ck + m + m2 = ch + n + n2 /\ x + ch = c + i /\ y + n + n2 = x + m + m2
    BY <1>1, <1>2, <1>3, <1>4 DEF Balanced
  <1>6. y + ck = c + i
    BY <1>5, NumbersOfTwo, SMTT(60)
  <1> QED
    BY <1>1, <1>3, <1>4, <1>6 DEF Balanced

\* So it does when no reservation moves.
LEMMA BalancedByNone ==
  ASSUME TypeOK, TypeOK', NEW l \in Lines, NEW b \in Branches, Balanced(l, b),
         \A q \in Rids : q[2] = l => Units(res'[q], b) = Units(res[q], b),
         stock'[<<l, b>>] + inflow[<<l, b>>] = stock[<<l, b>>] + inflow'[<<l, b>>]
  PROVE  Balanced(l, b)'
  <1>1. PICK h \in Holdings, k \in Holdings :
          /\ HeldUnits(l, b) = Tokens(h, l) /\ HeldUnits(l, b)' = Tokens(k, l)
          /\ \A q \in Rids : h[q] = Units(res[q], b) /\ k[q] = Units(res'[q], b)
    BY HeldBeforeAndAfter
  <1>2. Tokens(k, l) = Tokens(h, l)
    BY <1>1 DEF Tokens
  <1>3. PICK n \in Nat : n = Cardinality(Tokens(h, l))
    BY FiniteTokens
  <1>4. PICK x \in Int, y \in Int, i \in Int, j \in Int, c \in Int :
          /\ x = stock[<<l, b>>] /\ y = stock'[<<l, b>>] /\ i = inflow[<<l, b>>] /\ j = inflow'[<<l, b>>]
          /\ c = Seed[<<l, b>>]
    <2>1. <<l, b>> \in Variants
      BY DEF Variants
    <2>2. stock[<<l, b>>] \in Int /\ stock'[<<l, b>>] \in Int /\ Seed[<<l, b>>] \in Int
      BY <2>1, StockAssumption DEF TypeOK
    <2>3. inflow[<<l, b>>] \in Int /\ inflow'[<<l, b>>] \in Int
      BY <2>1 DEF TypeOK
    <2> QED
      BY <2>2, <2>3
  <1>5. x + n = c + i /\ y + i = x + j
    BY <1>1, <1>3, <1>4 DEF Balanced
  <1>6. y + n = c + j
    BY <1>5, NumbersOfNone, SMTT(60)
  <1> QED
    BY <1>1, <1>2, <1>3, <1>4, <1>6 DEF Balanced

-----------------------------------------------------------------------------
(* Effects that are already in the ledger *)

\* An effect is in the ledger because its row has been through it.
Justified(e) ==
  /\ e.kind \in {"give", "take"} => res[e.rid].status # "NONE" /\ e.rev <= res[e.rid].rev
  /\ e.kind = "expire" => res[e.rid].status = "EXPIRED"
  /\ e.kind = "cancel" => order[e.order].status = "CANCELADO"

ClaimInv == \A e \in claimed : Justified(e)

\* The columns of an effect.
LEMMA EffectColumns ==
  ASSUME NEW e \in Effects
  PROVE  \/ e.kind \in {"give", "take", "expire"} /\ e.rid \in Rids /\ e.rev \in Nat
         \/ e.kind = "cancel" /\ e.order \in Orders
  BY DEF Effects

\* Rows only go forward, so what is in the ledger stays justified.
LEMMA ClaimsStay ==
  ASSUME TypeOK, TypeOK', ClaimInv,
         \A r \in Rids : /\ res[r].status # "NONE" => res'[r].status # "NONE" /\ res[r].rev <= res'[r].rev
                         /\ res[r].status = "EXPIRED" => res'[r].status = "EXPIRED",
         \A o \in Orders : order[o].status = "CANCELADO" => order'[o].status = "CANCELADO",
         \A e \in claimed' : e \in claimed \/ Justified(e)'
  PROVE  ClaimInv'
  <1> SUFFICES ASSUME NEW e \in claimed PROVE Justified(e)'
    BY DEF ClaimInv
  <1>1. Justified(e) /\ e \in Effects
    BY DEF ClaimInv, TypeOK
  <1>2. CASE e.kind \in {"give", "take", "expire"} /\ e.rid \in Rids /\ e.rev \in Nat
    <2>1. res[e.rid].rev \in Nat /\ res'[e.rid].rev \in Nat
      BY <1>2 DEF TypeOK, ResRows
    <2> QED
      BY <1>1, <1>2, <2>1 DEF Justified
  <1>3. CASE e.kind = "cancel" /\ e.order \in Orders
    BY <1>1, <1>3 DEF Justified
  <1> QED
    BY <1>1, <1>2, <1>3, EffectColumns

\* The effects a cart change derives are new, so it moves what it asks for.
LEMMA CartEffectsAreNew ==
  ASSUME SafeInv, ClaimInv, NEW u \in Users, NEW l \in Lines, GenFor(u, l) \in Gens
  PROVE  /\ Effect("give", RidFor(u, l), RevFor(u, l)) \notin claimed
         /\ Effect("take", RidFor(u, l), RevFor(u, l)) \notin claimed
  <1>1. RidFor(u, l) \in Rids /\ RidFor(u, l)[1] = u /\ RidFor(u, l)[2] = l /\ RidFor(u, l)[3] = GenFor(u, l)
    BY RidForFree DEF RidFor
  <1>2. CASE StillInCart(u, l)
    <2>1. RidFor(u, l) = Rid(u, l) /\ res[Rid(u, l)].rev \in Nat /\ RevFor(u, l) = res[Rid(u, l)].rev + 1
      BY <1>2, RidForFree, CartRid DEF StillInCart, RevFor, SafeInv, ResRows
    <2>2. ~(RevFor(u, l) <= res[RidFor(u, l)].rev)
      BY <2>1
    <2> QED
      BY <2>2 DEF ClaimInv, Justified, Effect
  <1>3. CASE ~StillInCart(u, l)
    <2>1. RidFor(u, l)[3] = gen[u][l] + 1 /\ gen[u][l] \in Nat
      BY <1>1, <1>3, RidForFree DEF GenFor
    <2>2. ~(RidFor(u, l)[3] <= gen[u][l])
      BY <2>1
    <2>3. res[RidFor(u, l)].status = "NONE"
      BY <1>1, <2>2 DEF SafeInv, FreshRids
    <2> QED
      BY <2>3 DEF ClaimInv, Justified, Effect
  <1> QED
    BY <1>2, <1>3

\* So is the effect of an expiration: the reservation of a cart row is ACTIVE.
LEMMA ExpireEffectIsNew ==
  ASSUME SafeInv, ClaimInv, NEW u \in Users, NEW l \in Overdue(u)
  PROVE  /\ ExpireEffect(u, l) \notin claimed
         /\ l \in Lines /\ Rid(u, l) \in Rids /\ Rid(u, l)[1] = u /\ Rid(u, l)[2] = l
         /\ res[Rid(u, l)].status = "ACTIVE"
  <1>1. l \in Lines /\ InCart(u, l)
    BY DEF Overdue
  <1>2. res[Rid(u, l)].status = "ACTIVE"
    BY <1>1 DEF SafeInv, ReservedIffInCart
  <1> QED
    BY <1>1, <1>2, CartRid DEF ClaimInv, Justified, ExpireEffect, Effect, SafeInv

-----------------------------------------------------------------------------
(* Cart changes *)

\* The units of a branch in what is held or wanted.
At(x, b) == IF x.branch = b THEN x.qty ELSE 0

\* What is held and what is taken for it is what is wanted and what is given back.
LEMMA GiveTakeBalance ==
  ASSUME NEW held \in Wanted, NEW want \in Wanted, NEW b
  PROVE  /\ At(held, b) + Take(held, want, b) = At(want, b) + Give(held, want, b)
         /\ At(held, b) \in Nat /\ At(want, b) \in Nat
  <1>1. held.qty \in Nat /\ want.qty \in Nat
    BY StockAssumption DEF Wanted
  <1> QED
    BY <1>1 DEF At, Give, Take, Monus

\* What a Mutate does to the reservations of a line.
LEMMA MutateRow ==
  ASSUME SafeInv, NEW u \in Users, NEW D, NEW want, Asked(u, D, want), Mutate(u, D, want),
         NEW q \in Rids, NEW l \in Lines, l = q[2]
  PROVE  /\ l \in D /\ q = RidFor(u, l) =>
              /\ res'[q].rev = RevFor(u, l)
              /\ \/ /\ want[l].qty # 0 /\ res'[q].status = "ACTIVE"
                    /\ res'[q].branch = want[l].branch /\ res'[q].qty = want[l].qty
                 \/ want[l].qty = 0 /\ res'[q].status = "RELEASED"
         /\ l \in Overdue(u) /\ q = Rid(u, l) =>
              res'[q].status = "EXPIRED" /\ res'[q].rev = res[q].rev /\ q # RidFor(u, l)
         /\ ~(l \in D /\ q = RidFor(u, l)) /\ ~(l \in Overdue(u) /\ q = Rid(u, l)) => res'[q] = res[q]
  <1>0. res[q] \in ResRows
    BY DEF SafeInv, TypeOK
  <1>1. res'[q] = ResAfter(u, D, want, q) /\ RidFor(u, l)[1] = u /\ Rid(u, l)[1] = u
    BY DEF Mutate, RidFor, Rid
  <1>2. l \in D => /\ want[l].qty \in Nat /\ (want[l].qty = 0 => StillInCart(u, l))
                   /\ (StillInCart(u, l) => RidFor(u, l) = Rid(u, l))
    BY AskedRid, RidForFree, StockAssumption DEF Asked, Wanted, SafeInv
  <1>3. l \in Overdue(u) => Rid(u, l) # RidFor(u, l) /\ ~StillInCart(u, l)
    <2> SUFFICES ASSUME l \in Overdue(u) PROVE Rid(u, l) # RidFor(u, l) /\ ~StillInCart(u, l)
      OBVIOUS
    <2>1. InCart(u, l) /\ ~StillInCart(u, l)
      BY DEF Overdue, StillInCart
    <2>2. GenFor(u, l) = gen[u][l] + 1
      BY <2>1 DEF GenFor
    <2>3. Rid(u, l) \in Rids /\ res[Rid(u, l)].status = "ACTIVE" /\ Rid(u, l)[1] = u /\ Rid(u, l)[2] = l
          /\ Rid(u, l)[3] = item[u][l].gen
      BY <2>1, CartRid DEF SafeInv, ReservedIffInCart
    <2>4. item[u][l].gen <= gen[u][l]
      BY <2>3 DEF SafeInv, FreshRids
    <2>5. item[u][l].gen \in Int /\ gen[u][l] \in Int
      BY <2>1, CartRid, StockAssumption DEF Gens, SafeInv, TypeOK
    <2>6. Rid(u, l)[3] # RidFor(u, l)[3]
      BY <2>2, <2>3, <2>4, <2>5 DEF RidFor
    <2> QED
      BY <2>1, <2>6
  <1>4. want[l].qty \in Nat => (want[l].qty > 0 <=> want[l].qty # 0)
    OBVIOUS
  <1>5. CASE l \in D /\ q = RidFor(u, l) /\ want[l].qty # 0
    <2>1. res'[q] = [res[q] EXCEPT !.status = "ACTIVE", !.branch = want[l].branch,
                                   !.qty = want[l].qty, !.rev = RevFor(u, l)]
      BY <1>1, <1>2, <1>4, <1>5 DEF ResAfter
    <2>2. /\ res'[q].rev = RevFor(u, l) /\ res'[q].status = "ACTIVE"
          /\ res'[q].branch = want[l].branch /\ res'[q].qty = want[l].qty
      BY <1>0, <2>1 DEF ResRows
    <2> QED
      BY <1>3, <1>5, <2>2
  <1>6. CASE l \in D /\ q = RidFor(u, l) /\ want[l].qty = 0
    <2>1. StillInCart(u, l) /\ q = Rid(u, l) /\ l \notin Overdue(u)
      BY <1>2, <1>3, <1>6
    <2>2. res'[q] = [res[q] EXCEPT !.status = "RELEASED", !.rev = RevFor(u, l)]
      BY <1>1, <1>6, <2>1 DEF ResAfter
    <2>3. res'[q].rev = RevFor(u, l) /\ res'[q].status = "RELEASED"
      BY <1>0, <2>2 DEF ResRows
    <2> QED
      BY <1>6, <2>1, <2>3
  <1>7. CASE ~(l \in D /\ q = RidFor(u, l)) /\ l \in Overdue(u) /\ q = Rid(u, l)
    <2>1. res'[q] = [res[q] EXCEPT !.status = "EXPIRED"]
      BY <1>1, <1>7 DEF ResAfter
    <2>2. res'[q].status = "EXPIRED" /\ res'[q].rev = res[q].rev
      BY <1>0, <2>1 DEF ResRows
    <2> QED
      BY <1>3, <1>7, <2>2
  <1>8. CASE ~(l \in D /\ q = RidFor(u, l)) /\ ~(l \in Overdue(u) /\ q = Rid(u, l))
    <2>1. res'[q] = res[q]
      BY <1>1, <1>2, <1>8 DEF ResAfter
    <2> QED
      BY <1>8, <2>1
  <1> QED
    BY <1>5, <1>6, <1>7, <1>8

\* What a Mutate does to the stock of a variant.
LEMMA MutateStock ==
  ASSUME SafeInv, ClaimInv, NEW u \in Users, NEW D, NEW want, Asked(u, D, want), Mutate(u, D, want),
         NEW l \in Lines, NEW b \in Branches
  PROVE  /\ inflow'[<<l, b>>] = inflow[<<l, b>>]
         /\ stock'[<<l, b>>] = stock[<<l, b>>]
              + (IF l \in Overdue(u) THEN At(res[Rid(u, l)], b) ELSE 0)
              + (IF l \in D THEN Give(Kept(u, l), want[l], b) - Take(Kept(u, l), want[l], b) ELSE 0)
  <1>1. <<l, b>> \in Variants
    BY DEF Variants
  <1>2. stock'[<<l, b>>] = StockAfter(u, D, want, <<l, b>>) /\ inflow' = inflow
    BY <1>1 DEF Mutate
  <1>3. Expired(u, l, b) = IF l \in Overdue(u) THEN At(res[Rid(u, l)], b) ELSE 0
    BY ExpireEffectIsNew DEF Expired, Once, At
  <1>4. l \in D => /\ CartGive(u, l, want[l], b) = Give(Kept(u, l), want[l], b)
                   /\ CartTake(u, l, want[l], b) = Take(Kept(u, l), want[l], b)
    BY AskedRid, CartEffectsAreNew DEF CartGive, CartTake, Once, SafeInv
  <1>5. StockAfter(u, D, want, <<l, b>>) = stock[<<l, b>>] + Expired(u, l, b)
          + (IF l \in D THEN CartGive(u, l, want[l], b) - CartTake(u, l, want[l], b) ELSE 0)
    BY DEF StockAfter
  <1> QED
    BY <1>2, <1>3, <1>4, <1>5

\* The same, column by column, for the reservation that a wanted line uses,
LEMMA MutatePuts ==
  ASSUME SafeInv, NEW u \in Users, NEW D, NEW want, Asked(u, D, want), Mutate(u, D, want), NEW l \in D
  PROVE  /\ l \in Lines /\ RidFor(u, l) \in Rids /\ RidFor(u, l)[2] = l
         /\ res'[RidFor(u, l)].rev = RevFor(u, l)
         /\ \/ /\ want[l].qty # 0 /\ res'[RidFor(u, l)].status = "ACTIVE"
               /\ res'[RidFor(u, l)].branch = want[l].branch /\ res'[RidFor(u, l)].qty = want[l].qty
            \/ want[l].qty = 0 /\ res'[RidFor(u, l)].status = "RELEASED"
  <1>1. l \in Lines
    BY DEF Asked
  <1>2. PICK q \in Rids : q = RidFor(u, l)
    BY AskedRid DEF SafeInv
  <1>3. q[2] = l
    BY <1>2 DEF RidFor
  <1>4. /\ res'[q].rev = RevFor(u, l)
        /\ \/ /\ want[l].qty # 0 /\ res'[q].status = "ACTIVE"
              /\ res'[q].branch = want[l].branch /\ res'[q].qty = want[l].qty
           \/ want[l].qty = 0 /\ res'[q].status = "RELEASED"
    BY <1>1, <1>2, <1>3, MutateRow
  <1> QED
    BY <1>1, <1>2, <1>3, <1>4

\* for one that is past its time,
LEMMA MutateExpires ==
  ASSUME SafeInv, ClaimInv, NEW u \in Users, NEW D, NEW want, Asked(u, D, want), Mutate(u, D, want),
         NEW l \in Overdue(u)
  PROVE  /\ res'[Rid(u, l)].status = "EXPIRED" /\ res'[Rid(u, l)].rev = res[Rid(u, l)].rev
         /\ Rid(u, l) # RidFor(u, l)
  <1>1. PICK q \in Rids : q = Rid(u, l) /\ q[2] = l /\ l \in Lines
    BY ExpireEffectIsNew
  <1>2. res'[q].status = "EXPIRED" /\ res'[q].rev = res[q].rev /\ q # RidFor(u, l)
    BY <1>1, MutateRow
  <1> QED
    BY <1>1, <1>2

\* and for the others.
LEMMA MutateLeaves ==
  ASSUME SafeInv, NEW u \in Users, NEW D, NEW want, Asked(u, D, want), Mutate(u, D, want),
         NEW q \in Rids, ~(q[2] \in D /\ q = RidFor(u, q[2])), ~(q[2] \in Overdue(u) /\ q = Rid(u, q[2]))
  PROVE  res'[q] = res[q]
  <1>1. PICK l \in Lines : l = q[2]
    BY DEF Rids
  <1> QED
    BY <1>1, MutateRow

\* A cart change moves between the shelf and the reservations of a line what it
\* takes from the one and gives to the other.
LEMMA MutateBalance ==
  ASSUME SafeInv, ClaimInv, NEW u \in Users, NEW D, NEW want, Asked(u, D, want), Mutate(u, D, want), TypeOK',
         NEW l \in Lines, NEW b \in Branches, Balanced(l, b)
  PROVE  Balanced(l, b)'
  <1>0. /\ TypeOK /\ inflow'[<<l, b>>] = inflow[<<l, b>>]
        /\ stock[<<l, b>>] \in Nat /\ inflow[<<l, b>>] \in Int
    BY MutateStock DEF SafeInv, TypeOK, Variants
  <1> DEFINE OnShelf(gone, back) == stock'[<<l, b>>] = stock[<<l, b>>] + gone + back
  <1>1. OnShelf(IF l \in Overdue(u) THEN At(res[Rid(u, l)], b) ELSE 0,
                IF l \in D THEN Give(Kept(u, l), want[l], b) - Take(Kept(u, l), want[l], b) ELSE 0)
    BY MutateStock
  <1>2. ASSUME NEW q \in Rids, q[2] = l, ~(l \in D /\ q = RidFor(u, l)), ~(l \in Overdue(u) /\ q = Rid(u, l))
        PROVE  res'[q] = res[q]
    BY <1>2, MutateRow
  <1>3. ASSUME l \in Overdue(u)
        PROVE  /\ Rid(u, l) \in Rids /\ Rid(u, l)[2] = l
               /\ Units(res[Rid(u, l)], b) = At(res[Rid(u, l)], b)
               /\ At(res[Rid(u, l)], b) \in Nat
               /\ Units(res'[Rid(u, l)], b) = 0
    <2>1. Rid(u, l) \in Rids /\ Rid(u, l)[2] = l /\ res[Rid(u, l)].status = "ACTIVE"
      BY <1>3, ExpireEffectIsNew
    <2>2. res[Rid(u, l)] \in ResRows
      BY <1>0, <2>1 DEF TypeOK
    <2>3. res'[Rid(u, l)].status = "EXPIRED"
      BY <1>3, MutateExpires
    <2>4. Units(res[Rid(u, l)], b) = At(res[Rid(u, l)], b)
      BY <2>1 DEF Units, At
    <2> QED
      BY <2>1, <2>2, <2>3, <2>4, UnitsType DEF Units
  <1>4. ASSUME l \in D
        PROVE  /\ RidFor(u, l) \in Rids /\ RidFor(u, l)[2] = l
               /\ Units(res[RidFor(u, l)], b) = At(Kept(u, l), b)
               /\ Units(res'[RidFor(u, l)], b) = At(want[l], b)
               /\ At(Kept(u, l), b) \in Nat /\ At(want[l], b) \in Nat
               /\ Give(Kept(u, l), want[l], b) \in Nat /\ Take(Kept(u, l), want[l], b) \in Nat
               /\ At(Kept(u, l), b) + Take(Kept(u, l), want[l], b) = At(want[l], b) + Give(Kept(u, l), want[l], b)
    <2>1. /\ RidFor(u, l) \in Rids /\ RidFor(u, l)[2] = l /\ want[l] \in Wanted /\ Kept(u, l) \in Wanted
          /\ GenFor(u, l) \in Gens
      BY <1>0, <1>4, AskedRid, HeldType DEF RidFor
    <2>2. /\ res[RidFor(u, l)] \in ResRows
      BY <1>0, <2>1 DEF TypeOK
    <2>3. Units(res[RidFor(u, l)], b) = At(Kept(u, l), b)
      <3>1. CASE StillInCart(u, l)
        <4>1. RidFor(u, l) = Rid(u, l) /\ InCart(u, l)
          BY <2>1, <3>1, RidForFree DEF StillInCart
        <4>2. res[Rid(u, l)].status = "ACTIVE"
          BY <4>1 DEF SafeInv, ReservedIffInCart
        <4>3. Kept(u, l).branch = res[Rid(u, l)].branch /\ Kept(u, l).qty = res[Rid(u, l)].qty
          BY <3>1, <4>1 DEF Kept, Held
        <4> QED
          BY <4>1, <4>2, <4>3 DEF Units, At
      <3>2. CASE ~StillInCart(u, l)
        <4>1. res[RidFor(u, l)].status = "NONE"
          <5>1. RidFor(u, l)[3] = gen[u][l] + 1 /\ gen[u][l] \in Nat /\ RidFor(u, l)[1] = u
            BY <2>1, <3>2, RidForFree DEF GenFor, RidFor
          <5>2. ~(RidFor(u, l)[3] <= gen[u][l])
            BY <5>1
          <5> QED
            BY <2>1, <5>1, <5>2 DEF SafeInv, FreshRids
        <4>2. Kept(u, l) = [branch |-> NoBranch, qty |-> 0]
          BY <3>2 DEF Kept
        <4> QED
          BY <4>1, <4>2 DEF Units, At
      <3> QED
        BY <3>1, <3>2
    <2>4. Units(res'[RidFor(u, l)], b) = At(want[l], b)
      BY <1>4, MutatePuts DEF Units, At
    <2> QED
      BY <2>1, <2>3, <2>4, GiveTakeBalance, GiveTakeType
  <1> HIDE DEF OnShelf
  <1>5. CASE l \notin D /\ l \notin Overdue(u)
    <2>1. stock'[<<l, b>>] = stock[<<l, b>>]
      BY <1>0, <1>1, <1>5 DEF OnShelf
    <2> QED
      BY <1>0, <1>2, <1>5, <2>1, BalancedByNone
  <1>6. CASE l \notin D /\ l \in Overdue(u)
    <2>1. stock'[<<l, b>>] + Units(res'[Rid(u, l)], b) = stock[<<l, b>>] + Units(res[Rid(u, l)], b)
      BY <1>0, <1>1, <1>3, <1>6 DEF OnShelf
    <2>2. \A q \in Rids : q # Rid(u, l) /\ q[2] = l => Units(res'[q], b) = Units(res[q], b)
      BY <1>2, <1>6
    <2> QED
      BY <1>0, <1>3, <1>6, <2>1, <2>2, BalancedByOne
  <1>7. CASE l \in D /\ l \notin Overdue(u)
    <2>1. PICK g \in Nat, t \in Nat, k \in Nat, w \in Nat, s \in Nat :
            /\ g = Give(Kept(u, l), want[l], b) /\ t = Take(Kept(u, l), want[l], b)
            /\ k = At(Kept(u, l), b) /\ w = At(want[l], b) /\ s = stock[<<l, b>>]
      BY <1>0, <1>4, <1>7
    <2>2. k + t = w + g /\ stock'[<<l, b>>] = s + 0 + (g - t)
      BY <1>1, <1>4, <1>7, <2>1 DEF OnShelf
    <2>3. stock'[<<l, b>>] + w = s + k
      BY <2>2
    <2>4. \A q \in Rids : q # RidFor(u, l) /\ q[2] = l => Units(res'[q], b) = Units(res[q], b)
      BY <1>2, <1>7
    <2> QED
      BY <1>0, <1>4, <1>7, <2>1, <2>3, <2>4, BalancedByOne
  <1>8. CASE l \in D /\ l \in Overdue(u)
    <2>1. PICK g \in Nat, t \in Nat, k \in Nat, w \in Nat, s \in Nat, x \in Nat :
            /\ g = Give(Kept(u, l), want[l], b) /\ t = Take(Kept(u, l), want[l], b)
            /\ k = At(Kept(u, l), b) /\ w = At(want[l], b) /\ s = stock[<<l, b>>]
            /\ x = At(res[Rid(u, l)], b)
      <3>1. Give(Kept(u, l), want[l], b) \in Nat /\ Take(Kept(u, l), want[l], b) \in Nat
        BY <1>4, <1>8
      <3>2. At(Kept(u, l), b) \in Nat /\ At(want[l], b) \in Nat /\ At(res[Rid(u, l)], b) \in Nat
        BY <1>3, <1>4, <1>8
      <3> QED
        BY <1>0, <3>1, <3>2
    <2>2. k + t = w + g /\ stock'[<<l, b>>] = s + x + (g - t)
      BY <1>1, <1>4, <1>8, <2>1 DEF OnShelf
    <2>3. stock'[<<l, b>>] + 0 + w = s + x + k
      <3>1. stock'[<<l, b>>] = s + x + g - t
        BY <2>2
      <3> QED
        BY <2>2, <3>1
    <2>4. Rid(u, l) # RidFor(u, l)
      BY <1>8, MutateExpires
    <2>5. stock'[<<l, b>>] + Units(res'[Rid(u, l)], b) + Units(res'[RidFor(u, l)], b)
            = stock[<<l, b>>] + Units(res[Rid(u, l)], b) + Units(res[RidFor(u, l)], b)
      BY <1>3, <1>4, <1>8, <2>1, <2>3
    <2>6. \A q \in Rids : q # Rid(u, l) /\ q # RidFor(u, l) /\ q[2] = l => Units(res'[q], b) = Units(res[q], b)
      BY <1>2
    <2> QED
      BY <1>0, <1>3, <1>4, <1>8, <2>4, <2>5, <2>6, BalancedByTwo
  <1> QED
    BY <1>5, <1>6, <1>7, <1>8

\* Its effects are in the ledger once its rows have been through them.
LEMMA MutateClaims ==
  ASSUME SafeInv, ClaimInv, NEW u \in Users, NEW D, NEW want, Asked(u, D, want), Mutate(u, D, want), TypeOK'
  PROVE  ClaimInv'
  <1>0. TypeOK /\ order' = order
    BY DEF SafeInv, Mutate
  <1>1. ASSUME NEW r \in Rids
        PROVE  /\ res[r].status # "NONE" => res'[r].status # "NONE" /\ res[r].rev <= res'[r].rev
               /\ res[r].status = "EXPIRED" => res'[r].status = "EXPIRED"
    <2>1. r[1] \in Users /\ r[2] \in Lines /\ res[r] \in ResRows /\ res[r].rev \in Nat
      BY <1>0 DEF Rids, TypeOK, ResRows
    <2>2. res[r].status = "EXPIRED" => res'[r].status = "EXPIRED"
      BY MutateKeeps
    <2>3. ASSUME r[2] \in D, r = RidFor(u, r[2]), res[r].status # "NONE"
          PROVE  res[r].rev <= RevFor(u, r[2]) /\ RevFor(u, r[2]) \in Nat
      <3>1. GenFor(u, r[2]) \in Gens /\ RevFor(u, r[2]) \in Nat
        BY <1>0, <2>3, AskedRid
      <3>2. StillInCart(u, r[2])
        <4> SUFFICES ASSUME ~StillInCart(u, r[2]) PROVE FALSE
          OBVIOUS
        <4>1. r[3] = gen[u][r[2]] + 1 /\ r[1] = u /\ gen[u][r[2]] \in Nat
          BY <2>1, <2>3, <3>1, RidForFree DEF GenFor, RidFor
        <4>2. ~(r[3] <= gen[u][r[2]])
          BY <4>1
        <4> QED
          BY <2>3, <4>1, <4>2 DEF SafeInv, FreshRids
      <3>3. r = Rid(u, r[2])
        BY <2>1, <2>3, <3>1, <3>2, RidForFree
      <3> QED
        BY <2>1, <3>1, <3>2, <3>3 DEF RevFor
    <2>4. \/ r[2] \in D /\ r = RidFor(u, r[2]) /\ res'[r].status \in {"ACTIVE", "RELEASED"}
               /\ res'[r].rev = RevFor(u, r[2])
          \/ res'[r].status = "EXPIRED" /\ res'[r].rev = res[r].rev
          \/ res'[r] = res[r]
      BY MutatePuts, MutateExpires, MutateLeaves
    <2> QED
      BY <2>1, <2>2, <2>3, <2>4
  <1>2. ASSUME NEW l \in D, NEW e \in CartEffects(u, l, want[l])
        PROVE  Justified(e)'
    <2>1. /\ l \in Lines /\ RidFor(u, l) \in Rids /\ RidFor(u, l)[2] = l /\ RevFor(u, l) \in Nat
          /\ res[RidFor(u, l)] \in ResRows
      BY <1>0, <1>2, AskedRid DEF Asked, RidFor, TypeOK
    <2>2. e.kind \in {"give", "take"} /\ e.rid = RidFor(u, l) /\ e.rev = RevFor(u, l)
      BY <1>2 DEF CartEffects, Effect
    <2>3. res'[RidFor(u, l)].status \in {"ACTIVE", "RELEASED"} /\ res'[RidFor(u, l)].rev = RevFor(u, l)
      BY <1>2, MutatePuts
    <2> QED
      BY <2>1, <2>2, <2>3 DEF Justified
  <1>3. claimed' = claimed \cup {ExpireEffect(u, l) : l \in Overdue(u)}
                           \cup UNION {CartEffects(u, l, want[l]) : l \in D}
    BY DEF Mutate
  <1>4. ASSUME NEW e \in claimed', e \notin claimed
        PROVE  Justified(e)'
    <2>1. CASE e \in {ExpireEffect(u, l) : l \in Overdue(u)}
      <3>1. PICK l \in Overdue(u) : e = ExpireEffect(u, l)
        BY <2>1
      <3>2. e.kind = "expire" /\ e.rid = Rid(u, l) /\ l \in Lines /\ Rid(u, l) \in Rids /\ Rid(u, l)[2] = l
        BY <3>1, ExpireEffectIsNew DEF ExpireEffect, Effect
      <3>3. res'[e.rid].status = "EXPIRED"
        BY <3>1, <3>2, MutateExpires
      <3> QED
        BY <3>2, <3>3 DEF Justified
    <2>2. CASE \E l \in D : e \in CartEffects(u, l, want[l])
      BY <1>2, <2>2
    <2> QED
      BY <1>3, <1>4, <2>1, <2>2
  <1>5. \A e \in claimed' : e \in claimed \/ Justified(e)'
    BY <1>4
  <1> QED
    BY <1>0, <1>1, <1>5, ClaimsStay

\* The sweep gives back exactly what the overdue reservations held.
LEMMA ExpireBalance ==
  ASSUME SafeInv, ClaimInv, NEW u \in Users, ExpireCart(u), TypeOK',
         NEW l \in Lines, NEW b \in Branches, Balanced(l, b)
  PROVE  Balanced(l, b)'
  <1>0. TypeOK /\ <<l, b>> \in Variants /\ stock[<<l, b>>] \in Nat
    BY DEF SafeInv, TypeOK, Variants
  <1>1. inflow' = inflow /\ stock'[<<l, b>>] = stock[<<l, b>>] + Expired(u, l, b)
    BY <1>0 DEF ExpireCart
  <1>2. ASSUME NEW q \in Rids, q[2] = l, l \notin Overdue(u) \/ q # Rid(u, l)
        PROVE  res'[q] = res[q]
    BY <1>2 DEF ExpireCart
  <1>3. CASE l \notin Overdue(u)
    <2>1. stock'[<<l, b>>] = stock[<<l, b>>]
      BY <1>0, <1>1, <1>3 DEF Expired
    <2> QED
      BY <1>0, <1>1, <1>2, <1>3, <2>1, BalancedByNone
  <1>4. CASE l \in Overdue(u)
    <2>1. /\ Rid(u, l) \in Rids /\ Rid(u, l)[2] = l /\ Rid(u, l)[1] = u
          /\ res[Rid(u, l)].status = "ACTIVE" /\ ExpireEffect(u, l) \notin claimed
      BY <1>4, ExpireEffectIsNew
    <2>2. res[Rid(u, l)] \in ResRows
      BY <1>0, <2>1 DEF TypeOK
    <2>3. res'[Rid(u, l)] = [res[Rid(u, l)] EXCEPT !.status = "EXPIRED"]
      BY <1>4, <2>1 DEF ExpireCart
    <2>4. res'[Rid(u, l)].status = "EXPIRED"
      BY <2>2, <2>3 DEF ResRows
    <2>5. Units(res'[Rid(u, l)], b) = 0 /\ Units(res[Rid(u, l)], b) = Expired(u, l, b)
      BY <1>4, <2>1, <2>4 DEF Units, Expired, Once
    <2>6. Expired(u, l, b) \in Nat
      BY <1>0, ExpiredType
    <2>7. stock'[<<l, b>>] + Units(res'[Rid(u, l)], b) = stock[<<l, b>>] + Units(res[Rid(u, l)], b)
      BY <1>0, <1>1, <2>5, <2>6
    <2>8. \A q \in Rids : q # Rid(u, l) /\ q[2] = l => Units(res'[q], b) = Units(res[q], b)
      BY <1>2
    <2> QED
      BY <1>0, <1>1, <2>1, <2>7, <2>8, BalancedByOne
  <1> QED
    BY <1>3, <1>4

\* An expiration enters the ledger with its reservation EXPIRED.
LEMMA ExpireClaims ==
  ASSUME SafeInv, ClaimInv, NEW u \in Users, ExpireCart(u), TypeOK'
  PROVE  ClaimInv'
  <1>0. TypeOK /\ order' = order
    BY DEF SafeInv, ExpireCart
  <1>1. ASSUME NEW r \in Rids
        PROVE  \/ /\ r[1] = u /\ r[2] \in Overdue(u) /\ r = Rid(u, r[2])
                  /\ res'[r].status = "EXPIRED" /\ res'[r].rev = res[r].rev
               \/ ~(r[1] = u /\ r[2] \in Overdue(u) /\ r = Rid(u, r[2])) /\ res'[r] = res[r]
    <2>1. \/ /\ r[1] = u /\ r[2] \in Overdue(u) /\ r = Rid(u, r[2])
             /\ res'[r] = [res[r] EXCEPT !.status = "EXPIRED"]
          \/ ~(r[1] = u /\ r[2] \in Overdue(u) /\ r = Rid(u, r[2])) /\ res'[r] = res[r]
      BY DEF ExpireCart
    <2>2. res[r] \in ResRows
      BY <1>0 DEF TypeOK
    <2> QED
      BY <2>1, <2>2 DEF ResRows
  <1>2. \A r \in Rids : /\ res[r].status # "NONE" => res'[r].status # "NONE" /\ res[r].rev <= res'[r].rev
                        /\ res[r].status = "EXPIRED" => res'[r].status = "EXPIRED"
    <2>1. \A r \in Rids : res[r].rev \in Nat
      BY <1>0 DEF TypeOK, ResRows
    <2> QED
      BY <1>1, <2>1
  <1>3. ASSUME NEW e \in claimed', e \notin claimed
        PROVE  Justified(e)'
    <2>1. PICK l \in Overdue(u) : e = ExpireEffect(u, l)
      BY <1>3 DEF ExpireCart
    <2>2. e.kind = "expire" /\ e.rid = Rid(u, l) /\ Rid(u, l) \in Rids /\ Rid(u, l)[1] = u /\ Rid(u, l)[2] = l
      BY <2>1, ExpireEffectIsNew DEF ExpireEffect, Effect
    <2>3. res'[e.rid].status = "EXPIRED"
      BY <1>1, <2>2
    <2> QED
      BY <2>2, <2>3 DEF Justified
  <1>4. \A e \in claimed' : e \in claimed \/ Justified(e)'
    BY <1>3
  <1> QED
    BY <1>0, <1>2, <1>4, ClaimsStay

-----------------------------------------------------------------------------
(* Orders *)

\* The reservation that an order takes over is the one behind the cart row, or
\* a new one.
LEMMA CheckoutTakesOver ==
  ASSUME SafeInv, NEW u \in Users, NEW o \in Orders, NEW b \in Branches, NEW qty \in Quantities,
         Checkout(u, o, b, qty), NEW l \in Lines, qty[l] > 0
  PROVE  /\ CheckoutRid(u, l) \in Rids /\ CheckoutRid(u, l)[1] = u /\ CheckoutRid(u, l)[2] = l
         /\ InCart(u, l) => CheckoutRid(u, l) = Rid(u, l) /\ res[CheckoutRid(u, l)].status = "ACTIVE"
         /\ ~InCart(u, l) => res[CheckoutRid(u, l)].status = "NONE"
         /\ res'[CheckoutRid(u, l)].rev = IF InCart(u, l) THEN res[CheckoutRid(u, l)].rev + 1 ELSE 0
  <1>1. CheckoutGen(u, l) \in Gens
    BY DEF Checkout
  <1>2. CheckoutRid(u, l) \in Rids /\ CheckoutRid(u, l)[1] = u /\ CheckoutRid(u, l)[2] = l
        /\ CheckoutRid(u, l)[3] = CheckoutGen(u, l)
    BY <1>1 DEF CheckoutRid, Rids
  <1>3. InCart(u, l) => CheckoutRid(u, l) = Rid(u, l) /\ res[CheckoutRid(u, l)].status = "ACTIVE"
    BY DEF CheckoutRid, CheckoutGen, Rid, SafeInv, ReservedIffInCart
  <1>4. ASSUME ~InCart(u, l) PROVE res[CheckoutRid(u, l)].status = "NONE"
    <2>1. CheckoutGen(u, l) = gen[u][l] + 1 /\ gen[u][l] \in Nat
      BY <1>4, StockAssumption DEF CheckoutGen, SafeInv, TypeOK
    <2>2. ~(CheckoutRid(u, l)[3] <= gen[u][l])
      BY <1>2, <2>1
    <2> QED
      BY <1>2, <2>2 DEF SafeInv, FreshRids
  <1>5. res'[CheckoutRid(u, l)] =
          [status |-> "CONSUMED", branch |-> b, qty |-> qty[l], order |-> o,
           rev |-> IF InCart(u, l) THEN res[CheckoutRid(u, l)].rev + 1 ELSE 0]
    BY <1>2 DEF Checkout
  <1> QED
    BY <1>2, <1>3, <1>4, <1>5

\* A purchase moves only the difference between what the cart held and what is bought.
LEMMA CheckoutBalance ==
  ASSUME SafeInv, NEW u \in Users, NEW o \in Orders, NEW b \in Branches, NEW qty \in Quantities,
         Checkout(u, o, b, qty), TypeOK', NEW l \in Lines, NEW c \in Branches, Balanced(l, c)
  PROVE  Balanced(l, c)'
  <1>0. TypeOK /\ <<l, c>> \in Variants /\ stock[<<l, c>>] \in Nat /\ qty[l] \in 0..MaxQty
    BY DEF SafeInv, TypeOK, Variants, Quantities
  <1>1. /\ inflow' = inflow
        /\ stock'[<<l, c>>] = stock[<<l, c>>]
             + (IF qty[l] > 0 THEN Give(Held(u, l), Want(b, qty[l]), c) - Take(Held(u, l), Want(b, qty[l]), c) ELSE 0)
    BY <1>0 DEF Checkout
  <1>2. CASE ~(qty[l] > 0)
    <2>1. \A q \in Rids : q[2] = l => res'[q] = res[q]
      BY <1>2, CheckoutRow
    <2>2. stock'[<<l, c>>] = stock[<<l, c>>]
      BY <1>0, <1>1, <1>2
    <2> QED
      BY <1>0, <1>1, <2>1, <2>2, BalancedByNone
  <1>3. CASE qty[l] > 0
    <2>1. PICK r \in Rids : r = CheckoutRid(u, l) /\ r[1] = u /\ r[2] = l
      BY <1>3, CheckoutTakesOver
    <2>2. Held(u, l) \in Wanted /\ Want(b, qty[l]) \in Wanted
      BY <1>0, HeldType DEF Want, Wanted
    <2>3. Units(res[r], c) = At(Held(u, l), c)
      <3>1. CASE InCart(u, l)
        <4>1. r = Rid(u, l) /\ res[r].status = "ACTIVE"
          BY <1>3, <2>1, <3>1, CheckoutTakesOver
        <4>2. Held(u, l).branch = res[r].branch /\ Held(u, l).qty = res[r].qty
          BY <3>1, <4>1 DEF Held
        <4> QED
          BY <4>1, <4>2 DEF Units, At
      <3>2. CASE ~InCart(u, l)
        <4>1. res[r].status = "NONE"
          BY <1>3, <2>1, <3>2, CheckoutTakesOver
        <4>2. Held(u, l).qty = 0
          BY <3>2 DEF Held
        <4> QED
          BY <4>1, <4>2 DEF Units, At
      <3> QED
        BY <3>1, <3>2
    <2>4. Units(res'[r], c) = At(Want(b, qty[l]), c)
      <3>1. res'[r].status = "CONSUMED" /\ res'[r].branch = b /\ res'[r].qty = qty[l]
        BY <1>3, <2>1, CheckoutRow
      <3> QED
        BY <3>1 DEF Units, At, Want
    <2>5. PICK g \in Nat, t \in Nat, k \in Nat, w \in Nat, s \in Nat :
            /\ g = Give(Held(u, l), Want(b, qty[l]), c) /\ t = Take(Held(u, l), Want(b, qty[l]), c)
            /\ k = At(Held(u, l), c) /\ w = At(Want(b, qty[l]), c) /\ s = stock[<<l, c>>]
      <3>1. Give(Held(u, l), Want(b, qty[l]), c) \in Nat /\ Take(Held(u, l), Want(b, qty[l]), c) \in Nat
        BY <2>2, GiveTakeType
      <3>2. At(Held(u, l), c) \in Nat /\ At(Want(b, qty[l]), c) \in Nat
        BY <2>2, GiveTakeBalance
      <3> QED
        BY <1>0, <3>1, <3>2
    <2>6. k + t = w + g
      BY <2>2, <2>5, GiveTakeBalance
    <2>7. stock'[<<l, c>>] = s + (g - t)
      BY <1>1, <1>3, <2>5
    <2>8. stock'[<<l, c>>] + Units(res'[r], c) = stock[<<l, c>>] + Units(res[r], c)
      BY <2>3, <2>4, <2>5, <2>6, <2>7
    <2>9. \A q \in Rids : q # r /\ q[2] = l => Units(res'[q], c) = Units(res[q], c)
      BY <2>1, CheckoutRow
    <2> QED
      BY <1>0, <1>1, <2>1, <2>8, <2>9, BalancedByOne
  <1> QED
    BY <1>2, <1>3

\* Its effects carry a new order, so the ledger of repeatable effects stays.
LEMMA CheckoutClaims ==
  ASSUME SafeInv, ClaimInv, NEW u \in Users, NEW o \in Orders, NEW b \in Branches, NEW qty \in Quantities,
         Checkout(u, o, b, qty), TypeOK'
  PROVE  ClaimInv'
  <1>0. TypeOK /\ claimed' = claimed /\ order[o].status = "NONE"
    BY DEF SafeInv, Checkout
  <1>1. ASSUME NEW r \in Rids
        PROVE  /\ res[r].status # "NONE" => res'[r].status # "NONE" /\ res[r].rev <= res'[r].rev
               /\ res[r].status = "EXPIRED" => res'[r].status = "EXPIRED"
    <2>1. res[r].rev \in Nat /\ r[2] \in Lines
      BY <1>0 DEF TypeOK, ResRows, Rids
    <2>2. CASE r[1] = u /\ qty[r[2]] > 0 /\ r = CheckoutRid(u, r[2])
      <3>1. res[r].status \in {"NONE", "ACTIVE"} /\ res'[r].status = "CONSUMED"
        BY <2>2, CheckoutRow
      <3>2. res[r].status # "NONE" => res'[r].rev = res[r].rev + 1
        BY <2>1, <2>2, CheckoutTakesOver
      <3> QED
        BY <2>1, <3>1, <3>2
    <2>3. CASE ~(r[1] = u /\ qty[r[2]] > 0 /\ r = CheckoutRid(u, r[2]))
      <3>1. res'[r] = res[r]
        BY <2>3, CheckoutRow
      <3> QED
        BY <2>1, <3>1
    <2> QED
      BY <2>2, <2>3
  <1>2. \A x \in Orders : order[x].status = "CANCELADO" => order'[x].status = "CANCELADO"
    BY <1>0 DEF Checkout, TypeOK
  <1> QED
    BY <1>0, <1>1, <1>2, ClaimsStay

\* A cancellation puts back what the order's reservations release; that of a
\* counter sale, which reserved nothing, is a movement of its own.
LEMMA CancelBalance ==
  ASSUME SafeInv, ClaimInv, NEW o \in Orders, Cancel(o), TypeOK',
         NEW l \in Lines, NEW c \in Branches, Balanced(l, c)
  PROVE  Balanced(l, c)'
  <1>0. /\ TypeOK /\ <<l, c>> \in Variants /\ stock[<<l, c>>] \in Nat /\ inflow[<<l, c>>] \in Int
        /\ order[o].lines[l] \in 0..MaxQty /\ order[o].source \in {"WEB", "POS"}
        /\ order[o].status = "PENDIENTE"
    BY DEF SafeInv, TypeOK, Variants, OrderRows, Cancel
  <1>1. CancelEffect(o, l) \notin claimed
    BY <1>0 DEF ClaimInv, Justified, CancelEffect
  <1>2. /\ stock'[<<l, c>>] = stock[<<l, c>>] + (IF c = order[o].branch THEN order[o].lines[l] ELSE 0)
        /\ inflow'[<<l, c>>] = inflow[<<l, c>>]
             + (IF c = order[o].branch /\ order[o].source = "POS" THEN order[o].lines[l] ELSE 0)
    BY <1>0, <1>1 DEF Cancel, Once
  <1>3. ASSUME NEW q \in Rids
        PROVE  /\ ~OwnedBy(q, o) => res'[q] = res[q]
               /\ OwnedBy(q, o) => Units(res'[q], c) = 0
    <2>1. /\ ~OwnedBy(q, o) => res'[q] = res[q]
          /\ OwnedBy(q, o) => res'[q] = [res[q] EXCEPT !.status = "RELEASED"]
      BY DEF Cancel, OwnedBy
    <2>2. res[q] \in ResRows
      BY <1>0 DEF TypeOK
    <2>3. OwnedBy(q, o) => res'[q].status = "RELEASED"
      BY <2>1, <2>2 DEF ResRows
    <2> QED
      BY <2>1, <2>3 DEF Units
  <1>4. ASSUME NEW q \in Rids, OwnedBy(q, o), q[2] = l
        PROVE  /\ order[o].source = "WEB"
               /\ Units(res[q], c) = IF c = order[o].branch THEN order[o].lines[l] ELSE 0
               /\ \A p \in Rids : OwnedBy(p, o) /\ p[2] = l => p = q
    <2>1. res[q].status = "CONSUMED" /\ res[q].order = o
      BY <1>4 DEF OwnedBy
    <2>2. order[o].source = "WEB" /\ order[o].branch = res[q].branch /\ order[o].lines[l] = res[q].qty
      BY <1>4, <2>1 DEF SafeInv, OrderOwnsItsUnits
    <2>3. \A p \in Rids : OwnedBy(p, o) /\ p[2] = l => p = q
      BY <1>4, <2>1 DEF SafeInv, OrderOwnsItsUnits
    <2> QED
      BY <2>1, <2>2, <2>3 DEF Units
  <1>5. CASE \E r \in Rids : r[2] = l /\ OwnedBy(r, o)
    <2>1. PICK r \in Rids : r[2] = l /\ OwnedBy(r, o)
      BY <1>5
    <2>2. inflow'[<<l, c>>] = inflow[<<l, c>>]
      BY <1>0, <1>2, <1>4, <2>1
    <2>3. stock'[<<l, c>>] + Units(res'[r], c) = stock[<<l, c>>] + Units(res[r], c)
      BY <1>0, <1>2, <1>3, <1>4, <2>1
    <2>4. \A q \in Rids : q # r /\ q[2] = l => Units(res'[q], c) = Units(res[q], c)
      BY <1>3, <1>4, <2>1
    <2> QED
      BY <1>0, <2>1, <2>2, <2>3, <2>4, BalancedByOne
  <1>6. CASE ~\E r \in Rids : r[2] = l /\ OwnedBy(r, o)
    <2>1. order[o].source = "WEB" => order[o].lines[l] = 0
      BY <1>0, <1>6 DEF SafeInv, OrderOwnsItsUnits
    <2>2. stock'[<<l, c>>] + inflow[<<l, c>>] = stock[<<l, c>>] + inflow'[<<l, c>>]
      BY <1>0, <1>2, <2>1
    <2>3. \A q \in Rids : q[2] = l => Units(res'[q], c) = Units(res[q], c)
      BY <1>3, <1>6
    <2> QED
      BY <1>0, <2>2, <2>3, BalancedByNone
  <1> QED
    BY <1>5, <1>6

\* The effects of a cancellation enter the ledger with the order CANCELADO.
LEMMA CancelClaims ==
  ASSUME SafeInv, ClaimInv, NEW o \in Orders, Cancel(o), TypeOK'
  PROVE  ClaimInv'
  <1>0. TypeOK
    BY DEF SafeInv
  <1>1. ASSUME NEW r \in Rids
        PROVE  /\ res[r].status # "NONE" => res'[r].status # "NONE" /\ res[r].rev <= res'[r].rev
               /\ res[r].status = "EXPIRED" => res'[r].status = "EXPIRED"
    <2>1. res[r] \in ResRows /\ res[r].rev \in Nat
      BY <1>0 DEF TypeOK, ResRows
    <2>2. \/ res[r].status = "CONSUMED" /\ res'[r] = [res[r] EXCEPT !.status = "RELEASED"]
          \/ res'[r] = res[r]
      BY DEF Cancel
    <2>3. \/ res[r].status = "CONSUMED" /\ res'[r].status = "RELEASED" /\ res'[r].rev = res[r].rev
          \/ res'[r] = res[r]
      BY <2>1, <2>2 DEF ResRows
    <2> QED
      BY <2>1, <2>3
  <1>2. /\ \A x \in Orders : order[x].status = "CANCELADO" => order'[x].status = "CANCELADO"
        /\ order'[o].status = "CANCELADO"
    BY <1>0 DEF Cancel, TypeOK, OrderRows
  <1>3. ASSUME NEW e \in claimed', e \notin claimed
        PROVE  Justified(e)'
    <2>1. e.kind = "cancel" /\ e.order = o
      BY <1>3 DEF Cancel, CancelEffect
    <2> QED
      BY <1>2, <2>1 DEF Justified
  <1>4. \A e \in claimed' : e \in claimed \/ Justified(e)'
    BY <1>3
  <1> QED
    BY <1>0, <1>1, <1>2, <1>4, ClaimsStay

\* The rest moves stock and ledger together, if at all, and no reservation.
LEMMA OthersBalance ==
  ASSUME TypeOK, TypeOK', res' = res, NEW l \in Lines, NEW c \in Branches, Balanced(l, c),
         stock'[<<l, c>>] + inflow[<<l, c>>] = stock[<<l, c>>] + inflow'[<<l, c>>]
  PROVE  Balanced(l, c)'
  BY BalancedByNone

\* They claim nothing.
LEMMA OthersClaims ==
  ASSUME TypeOK, TypeOK', ClaimInv, UNCHANGED <<res, claimed>>,
         \A x \in Orders : order[x].status = "CANCELADO" => order'[x].status = "CANCELADO"
  PROVE  ClaimInv'
  <1>1. \A r \in Rids : res[r].rev \in Nat
    BY DEF TypeOK, ResRows
  <1> QED
    BY <1>1, ClaimsStay

\* What the other steps of an order change.
LEMMA OrderFields ==
  ASSUME TypeOK, NEW o \in Orders,
         \/ Settle(o)
         \/ \E s \in OrderStatus : StaffStatus(o, s)
         \/ \E b \in Branches, good \in Quantities, bad \in Quantities : Return(o, b, good, bad)
         \/ \E b \in Branches, qty \in Quantities : PosSale(o, b, qty)
  PROVE  /\ UNCHANGED <<res, claimed>>
         /\ \A x \in Orders : order[x].status = "CANCELADO" => order'[x] = order[x]
         /\ \A v \in Variants : stock'[v] + inflow[v] = stock[v] + inflow'[v]
  <1>0. \A v \in Variants : stock[v] \in Nat /\ inflow[v] \in Int /\ v[1] \in Lines
    BY DEF TypeOK, Variants
  <1>1. CASE Settle(o)
    BY <1>0, <1>1 DEF Settle, TypeOK
  <1>2. ASSUME NEW s \in OrderStatus, StaffStatus(o, s)
        PROVE  /\ UNCHANGED <<res, claimed>>
               /\ \A x \in Orders : order[x].status = "CANCELADO" => order'[x] = order[x]
               /\ \A v \in Variants : stock'[v] + inflow[v] = stock[v] + inflow'[v]
    BY SMTT(60), <1>0, <1>2 DEF StaffStatus, TypeOK
  <1>3. ASSUME NEW b \in Branches, NEW good \in Quantities, NEW bad \in Quantities, Return(o, b, good, bad)
        PROVE  /\ UNCHANGED <<res, claimed>>
               /\ \A x \in Orders : order[x].status = "CANCELADO" => order'[x] = order[x]
               /\ \A v \in Variants : stock'[v] + inflow[v] = stock[v] + inflow'[v]
    <2>1. \A l \in Lines : good[l] \in Nat
      BY DEF Quantities
    <2>2. ASSUME NEW v \in Variants PROVE stock'[v] + inflow[v] = stock[v] + inflow'[v]
      <3>1. /\ stock'[v]  = stock[v]  + (IF v[2] = b THEN good[v[1]] ELSE 0)
            /\ inflow'[v] = inflow[v] + (IF v[2] = b THEN good[v[1]] ELSE 0)
        BY ZenonT(60), <1>3 DEF Return
      <3>2. PICK d \in Nat : d = IF v[2] = b THEN good[v[1]] ELSE 0
        BY <1>0, <2>1
      <3>3. stock[v] \in Nat /\ inflow[v] \in Int /\ stock'[v] = stock[v] + d /\ inflow'[v] = inflow[v] + d
        BY SMTT(60), <1>0, <3>1, <3>2
      <3> QED
        BY SMTT(60), <3>3
    <2>3. \A x \in Orders : order[x].status = "CANCELADO" => order'[x] = order[x]
      BY ZenonT(60), <1>3 DEF Return, TypeOK
    <2> QED
      BY ZenonT(60), <1>3, <2>2, <2>3 DEF Return
  <1>4. ASSUME NEW b \in Branches, NEW qty \in Quantities, PosSale(o, b, qty)
        PROVE  /\ UNCHANGED <<res, claimed>>
               /\ \A x \in Orders : order[x].status = "CANCELADO" => order'[x] = order[x]
               /\ \A v \in Variants : stock'[v] + inflow[v] = stock[v] + inflow'[v]
    <2>1. \A l \in Lines : qty[l] \in Nat
      BY DEF Quantities
    <2>2. ASSUME NEW v \in Variants PROVE stock'[v] + inflow[v] = stock[v] + inflow'[v]
      <3>1. /\ stock'[v]  = stock[v]  - (IF v[2] = b THEN qty[v[1]] ELSE 0)
            /\ inflow'[v] = inflow[v] - (IF v[2] = b THEN qty[v[1]] ELSE 0)
        BY <1>4 DEF PosSale
      <3>2. PICK d \in Nat : d = IF v[2] = b THEN qty[v[1]] ELSE 0
        BY <1>0, <2>1
      <3>3. stock[v] \in Nat /\ inflow[v] \in Int /\ stock'[v] = stock[v] - d /\ inflow'[v] = inflow[v] - d
        BY <1>0, <3>1, <3>2
      <3> QED
        BY <3>3
    <2>3. \A x \in Orders : order[x].status = "CANCELADO" => order'[x] = order[x]
      BY <1>4 DEF PosSale, TypeOK
    <2> QED
      BY <1>4, <2>2, <2>3 DEF PosSale
  <1> QED
    BY <1>1, <1>2, <1>3, <1>4

-----------------------------------------------------------------------------
(* No unit is created or lost *)

\* LedgerBalance needs the agreement of carts, reservations and orders, and
\* that no effect is in the ledger before its time.
LedgerInv == SafeInv /\ ClaimInv /\ LedgerBalance

\* Nothing is held at first.
LEMMA InitLedger == Init => LedgerInv
  <1> SUFFICES ASSUME Init PROVE LedgerInv
    OBVIOUS
  <1>1. SafeInv /\ ClaimInv /\ TypeOK
    BY InitSafe, InitType DEF Init, ClaimInv
  <1>2. ASSUME NEW l \in Lines, NEW b \in Branches
        PROVE  stock[<<l, b>>] + Cardinality(HeldUnits(l, b)) = Seed[<<l, b>>] + inflow[<<l, b>>]
    <2>1. HeldUnits(l, b) = {}
      BY DEF HeldUnits, Init, NoRes
    <2>2. Cardinality(HeldUnits(l, b)) = 0
      BY <2>1, FS_EmptySet
    <2>3. stock[<<l, b>>] = Seed[<<l, b>>] /\ inflow[<<l, b>>] = 0 /\ Seed[<<l, b>>] \in Nat
      BY StockAssumption DEF Init, Variants
    <2> QED
      BY <2>2, <2>3
  <1> QED
    BY <1>1, <1>2 DEF LedgerInv, LedgerBalance

\* Every transaction keeps the ledger balanced.
LEMMA NextLedger == LedgerInv /\ [Next]_vars => LedgerInv'
  <1> SUFFICES ASSUME LedgerInv, [Next]_vars
               PROVE  ClaimInv' /\ \A l \in Lines, b \in Branches : Balanced(l, b)'
    BY NextSafe DEF LedgerInv, LedgerBalance, Balanced
  <1>0. SafeInv /\ ClaimInv /\ TypeOK /\ TypeOK' /\ \A l \in Lines, b \in Branches : Balanced(l, b)
    BY NextType DEF LedgerInv, SafeInv, LedgerBalance, Balanced
  <1> DEFINE StaysBalanced == ClaimInv' /\ \A l \in Lines, b \in Branches : Balanced(l, b)'
  <1>1. ASSUME NEW u \in Users, NEW D, NEW want, Asked(u, D, want), Mutate(u, D, want)
        PROVE  StaysBalanced
    BY <1>0, <1>1, MutateBalance, MutateClaims
  <1>2. ASSUME NEW u \in Users, ExpireCart(u)
        PROVE  StaysBalanced
    BY <1>0, <1>2, ExpireBalance, ExpireClaims
  <1>3. ASSUME NEW u \in Users, NEW o \in Orders, NEW b \in Branches, NEW qty \in Quantities, Checkout(u, o, b, qty)
        PROVE  StaysBalanced
    BY <1>0, <1>3, CheckoutBalance, CheckoutClaims
  <1>4. ASSUME NEW o \in Orders, Cancel(o)
        PROVE  StaysBalanced
    BY <1>0, <1>4, CancelBalance, CancelClaims
  <1>5. ASSUME UNCHANGED <<res, claimed>>,
               \A x \in Orders : order[x].status = "CANCELADO" => order'[x] = order[x],
               \A v \in Variants : stock'[v] + inflow[v] = stock[v] + inflow'[v]
        PROVE  StaysBalanced
    BY <1>0, <1>5, OthersBalance, OthersClaims DEF Variants
  <1>6. ASSUME NEW v \in Variants, NEW n \in 0..MaxStock, SetStock(v, n)
        PROVE  StaysBalanced
    <2>1. \A w \in Variants : stock[w] \in Nat /\ inflow[w] \in Int
      BY <1>0 DEF TypeOK
    <2>2. \A w \in Variants : stock'[w] + inflow[w] = stock[w] + inflow'[w]
      <3>1. /\ \A w \in Variants : w # v => stock'[w] = stock[w] /\ inflow'[w] = inflow[w]
            /\ stock'[v] = n /\ inflow'[v] = inflow[v] + n - stock[v]
        BY <1>0, <1>6 DEF SetStock, TypeOK
      <3> QED
        BY <2>1, <3>1
    <2> QED
      BY <1>5, <1>6, <2>2 DEF SetStock
  <1>7. ASSUME UNCHANGED <<res, claimed, order, stock, inflow>>
        PROVE  StaysBalanced
    BY <1>5, <1>7
  <1> HIDE DEF StaysBalanced
  <1>8. ASSUME NEW u \in Users, CartNext(u)
        PROVE  StaysBalanced
    <2>1. ASSUME TimePasses(u) PROVE StaysBalanced
      BY <1>7, <2>1 DEF TimePasses
    <2> QED
      BY <1>0, <1>1, <1>2, <1>8, <2>1, CartNextCases
  <1>9. ASSUME NEW o \in Orders, OrderNext(o)
        PROVE  StaysBalanced
    <2>1. ASSUME \/ Settle(o)
                 \/ \E s \in OrderStatus : StaffStatus(o, s)
                 \/ \E b \in Branches, good \in Quantities, bad \in Quantities : Return(o, b, good, bad)
                 \/ \E b \in Branches, qty \in Quantities : PosSale(o, b, qty)
          PROVE  StaysBalanced
      BY <1>0, <1>5, <2>1, OrderFields
    <2> QED
      BY <1>3, <1>4, <1>9, <2>1 DEF OrderNext
  <1>10. ASSUME UNCHANGED vars
         PROVE  StaysBalanced
    <2>1. UNCHANGED <<res, claimed, order, stock, inflow>>
      BY <1>10 DEF vars
    <2> QED
      BY <1>7, <2>1
  <1>11. ASSUME Next
         PROVE  StaysBalanced
    BY <1>6, <1>8, <1>9, <1>11 DEF Next
  <1> QED
    BY <1>10, <1>11 DEF StaysBalanced

\* Units on sale and units held by carts and live orders always add up to what
\* the store started with and what counts, returns and counter sales moved, for
\* any number of customers, lines, branches and orders: no sequence of requests
\* creates or loses a unit.
THEOREM LedgerBalanceHolds == Spec => []LedgerBalance
  <1>1. LedgerInv => LedgerBalance
    BY DEF LedgerInv
  <1> QED
    BY <1>1, InitLedger, NextLedger, PTL DEF Spec
=============================================================================
