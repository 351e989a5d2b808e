--------------------------- MODULE StoreCatalogue ---------------------------
(***************************************************************************)
(* Branches and products of a store as its administration creates them:    *)
(* the limits of the plan, and the inventory rows of every product in      *)
(* every branch.  A request is several statements without a transaction,   *)
(* so two administrators interleave between any two of them.               *)
(***************************************************************************)
EXTENDS Naturals, FiniteSets

CONSTANTS
  Branches, Products,
  Admins,       \* requests that run at once
  MaxBranches,  \* the limits of the plan
  MaxProducts

ASSUME CatalogueAssumption ==
  /\ MaxBranches \in Nat \ {0} /\ MaxProducts \in Nat \ {0}
  /\ IsFiniteSet(Branches) /\ IsFiniteSet(Products) /\ IsFiniteSet(Admins)
  /\ Branches \cap Products = {}

VARIABLES
  branch, product,  \* absent, active or not
  seeded,           \* rows of product_inventories, as pairs of branch and product
  passedOver,       \* pairs left out: the branch was closed, or the statement failed
  task              \* the statement each request is at, and what it read

catalogueVars == <<branch, product, seeded, passedOver, task>>

Presence == {"absent", "active", "inactive"}
Steps == {"idle", "insert", "read", "seed", "open", "close", "delete"}
Free  == [step |-> "idle", on |-> "none", list |-> {}]

\* A store may have more branches and products than its plan allows, after it
\* changed to a smaller plan.
CatalogueInit ==
  /\ branch \in [Branches -> Presence] /\ product \in [Products -> {"absent", "active", "inactive"}]
  /\ seeded = {bp \in Branches \X Products : branch[bp[1]] # "absent" /\ product[bp[2]] # "absent"}
  /\ passedOver = {} /\ task = [a \in Admins |-> Free]

Existing(f) == {x \in DOMAIN f : f[x] # "absent"}
Active(f)   == {x \in DOMAIN f : f[x] = "active"}
Resume(a, step, x, list) == task' = [task EXCEPT ![a] = [step |-> step, on |-> x, list |-> list]]
At(a, step, x) == task[a].step = step /\ task[a].on = x
Release(a)  == task' = [task EXCEPT ![a] = Free]
IdleAdmin(a) == task[a].step = "idle"

-----------------------------------------------------------------------------
(* Branches *)

\* create counts every branch, the inactive ones included.
CreateBranch(a, b) ==
  /\ IdleAdmin(a) /\ branch[b] = "absent"
  /\ \A c \in Admins : task[c].on # b /\ \A bp \in task[c].list : bp[1] # b
  /\ Cardinality(Existing(branch)) < MaxBranches
  /\ Resume(a, "insert", b, {})
  /\ UNCHANGED <<branch, product, seeded, passedOver>>

InsertBranch(a, b) ==
  /\ At(a, "insert", b)
  /\ branch' = [branch EXCEPT ![b] = "active"]
  /\ Resume(a, "read", b, {})
  /\ UNCHANGED <<product, seeded, passedOver>>

ReadProducts(a, b) ==
  /\ At(a, "read", b)
  /\ Resume(a, "seed", b, {b} \X Existing(product))
  /\ UNCHANGED <<branch, product, seeded, passedOver>>

\* update: opening a branch again is counted against the active ones.
ReopenUncounted(a, b) ==
  /\ IdleAdmin(a) /\ branch[b] = "inactive"
  /\ Resume(a, "open", b, {})
  /\ UNCHANGED <<branch, product, seeded, passedOver>>

Reopen(a, b) ==
  /\ IdleAdmin(a) /\ branch[b] = "inactive"
  /\ Cardinality(Active(branch)) < MaxBranches
  /\ Resume(a, "open", b, {})
  /\ UNCHANGED <<branch, product, seeded, passedOver>>

Close(a, b) ==
  /\ IdleAdmin(a) /\ branch[b] = "active"
  /\ Resume(a, "close", b, {})
  /\ UNCHANGED <<branch, product, seeded, passedOver>>

\* The row may have been deleted meanwhile, and the update then fails.
SwitchBranch(a, b) ==
  /\ At(a, "open", b) \/ At(a, "close", b)
  /\ branch' = [branch EXCEPT ![b] = IF @ = "absent" THEN @ ELSE IF task[a].step = "open" THEN "active" ELSE "inactive"]
  /\ Release(a)
  /\ UNCHANGED <<product, seeded, passedOver>>

\* remove: only a branch without inventory, orders or staff.
RemoveBranch(a, b) ==
  /\ IdleAdmin(a) /\ branch[b] # "absent"
  /\ \A p \in Products : <<b, p>> \notin seeded
  /\ Resume(a, "delete", b, {})
  /\ UNCHANGED <<branch, product, seeded, passedOver>>

\* Deleting a branch deletes the inventory it got meanwhile.
DeleteBranch(a, b) ==
  /\ At(a, "delete", b)
  /\ branch' = [branch EXCEPT ![b] = "absent"]
  /\ seeded' = {bp \in seeded : bp[1] # b}
  /\ passedOver' = {bp \in passedOver : bp[1] # b}
  /\ Release(a)
  /\ UNCHANGED product

-----------------------------------------------------------------------------
(* Products *)

CreateProduct(a, p) ==
  /\ IdleAdmin(a) /\ product[p] = "absent" /\ \A c \in Admins : task[c].on # p
  /\ Cardinality(Active(product)) < MaxProducts
  /\ Resume(a, "insert", p, {})
  /\ UNCHANGED <<branch, product, seeded, passedOver>>

InsertProduct(a, p) ==
  /\ At(a, "insert", p)
  /\ product' = [product EXCEPT ![p] = "active"]
  /\ Resume(a, "read", p, {})
  /\ UNCHANGED <<branch, seeded, passedOver>>

\* A new product reaches the branches that are open.
ReadBranches(a, p) ==
  /\ At(a, "read", p)
  /\ passedOver' = passedOver \cup {<<b, p>> : b \in Existing(branch) \ Active(branch)}
  /\ Resume(a, "seed", p, Active(branch) \X {p})
  /\ UNCHANGED <<branch, product, seeded>>

\* createMany of either, which skips duplicates.  A branch that is gone by now
\* fails the whole statement.
SeedWithoutSkip(a) ==
  /\ task[a].step = "seed"
  /\ seeded' = IF task[a].list \cap seeded = {} THEN seeded \cup task[a].list ELSE seeded
  /\ Release(a)
  /\ UNCHANGED <<branch, product, passedOver>>

Seed(a) ==
  /\ task[a].step = "seed"
  /\ IF \A bp \in task[a].list : branch[bp[1]] # "absent"
     THEN seeded' = seeded \cup task[a].list /\ UNCHANGED passedOver
     ELSE /\ passedOver' = passedOver \cup {bp \in task[a].list : branch[bp[1]] # "absent"}
          /\ UNCHANGED seeded
  /\ Release(a)
  /\ UNCHANGED <<branch, product>>

\* remove archives; update may take a product out of the archive.
Archive(a, p) ==
  /\ IdleAdmin(a) /\ product[p] = "active"
  /\ product' = [product EXCEPT ![p] = "inactive"]
  /\ UNCHANGED <<branch, seeded, passedOver, task>>

Unarchive(a, p) ==
  /\ IdleAdmin(a) /\ product[p] = "inactive"
  /\ Cardinality(Active(product)) < MaxProducts
  /\ Resume(a, "open", p, {})
  /\ UNCHANGED <<branch, product, seeded, passedOver>>

SwitchProduct(a, p) ==
  /\ At(a, "open", p)
  /\ product' = [product EXCEPT ![p] = "active"]
  /\ Release(a)
  /\ UNCHANGED <<branch, seeded, passedOver>>

-----------------------------------------------------------------------------

CatalogueNext == \E a \in Admins :
  \/ \E b \in Branches :
       \/ CreateBranch(a, b) \/ InsertBranch(a, b) \/ ReadProducts(a, b)
       \/ Reopen(a, b) \/ Close(a, b) \/ SwitchBranch(a, b) \/ RemoveBranch(a, b) \/ DeleteBranch(a, b)
  \/ \E p \in Products :
       \/ CreateProduct(a, p) \/ InsertProduct(a, p) \/ ReadBranches(a, p)
       \/ Archive(a, p) \/ Unarchive(a, p) \/ SwitchProduct(a, p)
  \/ Seed(a)

CatalogueSpec == CatalogueInit /\ [][CatalogueNext]_catalogueVars

-----------------------------------------------------------------------------
(* Properties *)

\* Every row and every request has the values its type allows.
CatalogueTypeOK ==
  /\ branch \in [Branches -> Presence] /\ product \in [Products -> Presence]
  /\ seeded \subseteq Branches \X Products /\ passedOver \subseteq Branches \X Products
  /\ task \in [Admins -> [step : Steps, on : Branches \cup Products \cup {"none"},
                          list : SUBSET (Branches \X Products)]]

\* A branch and a product that are created at once find each other: each is
\* written before the other kind is listed, so one of the two requests makes
\* the inventory row, and making it twice does no harm.
EveryPairIsSeeded ==
  \A b \in Existing(branch), p \in Existing(product) :
    (\A a \in Admins : task[a].on \notin {b, p}) => <<b, p>> \in seeded \cup passedOver

\* The limit of the plan is a count that is read before the write.  Requests
\* that run at once may pass it, by less than their number and never by more.
NoGrowthPastTheLimit ==
  [][LET Grows(f, max) == Cardinality(Active(f)') > Cardinality(Active(f))
                          => Cardinality(Active(f)') < max + Cardinality(Admins)
     IN Grows(branch, MaxBranches) /\ Grows(product, MaxProducts)]_catalogueVars
=============================================================================
