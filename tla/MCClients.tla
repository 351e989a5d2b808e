------------------------------ MODULE MCClients ------------------------------
(***************************************************************************)
(* What clients keep and send again, a purchase, a change of the profile or *)
(* a count of stock, and the session they share.  One part moves in each   *)
(* behaviour, the others stay as they start.                               *)
(***************************************************************************)
EXTENDS CheckoutAttempt, OfflineProfile, AccountSession, OfflineInventory,
        FiniteSets, TLC

CONSTANTS name, tab2  \* a field and a tab

VARIABLE part

mcVars == <<vars, profileVars, sessionVars, inventoryVars, part>>

Symmetry == Permutations(Values) \cup Permutations(Keys)

\* Two fields that are edited one at a time in one tab; one field sent by two
\* tabs at once, with one late request at a time; and one field, with answers of
\* getProfile that arrive late.
OneField    == /\ form' # NoForm => form'.touched = {name}
               /\ \A f \in Fields \ {name} : server'[f] = server[f]
OneTyped    == /\ form' # NoForm => \E f \in Fields : form'.touched = {f}
               /\ \A f \in Fields \ {name} : server'[f] # server[f] => receipts' # receipts
NoneRefused == \A t \in Tabs : tab'[t].phase = "answered" => tab'[t].kind \in {"ok", "conflict"}
OneTab      == tab'[tab2] = Idle /\ late' = {}
OneLate     == Cardinality(late') <= 1
NoFetch     == fetched' = NoValues
ProfileScene ==
  \/ part = "edits" /\ OneTyped /\ NoneRefused /\ OneTab /\ NoFetch
  \/ part = "tabs" /\ OneField /\ NoneRefused /\ NoFetch /\ OneLate
  \/ part = "fetch" /\ OneField /\ OneTab

MCInit ==
  /\ part \in {"purchase", "edits", "tabs", "fetch", "session", "counts"}
  /\ Init /\ ProfileInit /\ SessionInit /\ InventoryInit /\ shelf.stock = 1

\* Nobody waits for one count under way at a time.
OneStray  == Cardinality(strays') <= 1
Purchases == part = "purchase" /\ Next /\ UNCHANGED <<profileVars, sessionVars, inventoryVars, part>>
Profile   == ProfileNext /\ ProfileScene /\ UNCHANGED <<vars, sessionVars, inventoryVars, part>>
Session   == part = "session" /\ SessionNext /\ UNCHANGED <<vars, profileVars, inventoryVars, part>>
Counts    == part = "counts" /\ InventoryNext /\ OneStray /\ UNCHANGED <<vars, profileVars, sessionVars, part>>

MCNext == Purchases \/ Profile \/ Session \/ Counts

MCSpec == MCInit /\ [][MCNext]_mcVars
=============================================================================
