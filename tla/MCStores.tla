------------------------------ MODULE MCStores ------------------------------
(***************************************************************************)
(* The parts of the control plane side by side: one of them moves in each  *)
(* behaviour, the others stay as they start.                               *)
(***************************************************************************)
EXTENDS StoreSubscription, StoreCatalogue, TenantCache

CONSTANTS h2, t1, t2  \* a handler and two stores that the scenarios single out

VARIABLE part

Symmetry == Permutations(Branches)

vars == <<storeVars, catalogueVars, cacheVars, part>>

\* A visitor becomes a customer; a store that exists subscribes again; and both,
\* with one handler and one store.
Scenarios == {"signup", "billing", "life"}

NoCatalogue == /\ branch = [b \in Branches |-> "absent"] /\ product = [p \in Products |-> "absent"]
               /\ seeded = {} /\ passedOver = {} /\ task = [a \in Admins |-> Free]
StoresAtFirst == {t \in Stores : store[t].status # "absent"} = IF part = "billing" THEN {t1} ELSE {}

Init ==
  /\ part \in Scenarios \cup {"catalogue", "cache"}
  /\ StoreInit /\ StoresAtFirst
  /\ IF part = "catalogue" THEN CatalogueInit ELSE NoCatalogue
  /\ CacheInit

StoreMoves ==
  /\ part \in Scenarios /\ StoreNext
  /\ part = "signup" => UNCHANGED buyer
  /\ part = "billing" => UNCHANGED <<signup, store[t2]>>
  /\ part = "life" => UNCHANGED <<job[h2], store[t2]>>
  /\ UNCHANGED <<catalogueVars, cacheVars, part>>

CatalogueMoves == part = "catalogue" /\ CatalogueNext /\ UNCHANGED <<storeVars, cacheVars, part>>
CacheMoves     == part = "cache" /\ CacheNext /\ UNCHANGED <<storeVars, catalogueVars, part>>

Next == StoreMoves \/ CatalogueMoves \/ CacheMoves

Spec == Init /\ [][Next]_vars
=============================================================================
