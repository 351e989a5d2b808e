----------------------------- MODULE MCProgress -----------------------------
(***************************************************************************)
(* What must come to an end, under the fairness of each part: card         *)
(* payments, purchases in doubt, renewals of a session and the baskets     *)
(* that customers leave behind.  One part moves in each behaviour, the     *)
(* others stay as they start.                                              *)
(***************************************************************************)
EXTENDS AccountSession, CheckoutAttempt

CONSTANTS Charges, Desks, Passes, Manual, Actors  \* Desks serve the payment
CONSTANTS Users, Lines, Branches, Orders, NoBranch, NoOrder, SeedUnits  \* the basket
CONSTANTS MaxQty, MaxGen, MaxRev, MaxStock

VARIABLES ord, payment, att, linked, old, comp, proof, pi, refund, known, inbox, handling
VARIABLES stock, damaged, inflow, item, gen, res, overdue, sold, claimed

VARIABLE part

Card == INSTANCE PaymentProtocol WITH Requests <- Desks, work <- handling

Basket == INSTANCE CheckoutStock WITH
  late <- overdue, order <- sold, Seed <- [v \in Lines \X Branches |-> SeedUnits]

cardVars == <<ord, payment, att, linked, old, comp, proof, pi, refund, known, inbox, handling>>
basketVars == <<stock, damaged, inflow, item, gen, res, overdue, sold, claimed>>

mcVars == <<sessionVars, vars, cardVars, basketVars, part>>

\* The orders made of the basket wait for their payment or are cancelled.
NothingPaid == \A o \in Orders : sold[o].pay = "PENDIENTE" /\ sold[o].status \in {"NONE", "PENDIENTE", "CANCELADO"}

\* One client is signed in, a tab or the app.
OnlyTabs == \A c \in Apps : holds[c] = 0
OnlyApps == \A c \in Clients \ Apps : holds[c] = 0

MCInit == /\ part \in {"payment", "purchase", "tab session", "app session", "basket"}
          /\ SessionInit /\ Init /\ Card!Init /\ Basket!Init

MCNext ==
  \/ part = "payment" /\ Card!Next /\ UNCHANGED <<sessionVars, vars, basketVars, part>>
  \/ part = "purchase" /\ Next /\ UNCHANGED <<sessionVars, cardVars, basketVars, part>>
  \/ /\ part \in {"tab session", "app session"} /\ SessionNext
     /\ IF part = "tab session" THEN OnlyTabs' ELSE OnlyApps'
     /\ UNCHANGED <<vars, cardVars, basketVars, part>>
  \/ part = "basket" /\ Basket!Next /\ NothingPaid' /\ UNCHANGED <<sessionVars, vars, cardVars, part>>

MCSpec == MCInit /\ [][MCNext]_mcVars
            /\ SessionFairness /\ Fairness /\ Card!Fairness /\ Basket!StockFairness

\* Every charge the provider takes is in the end kept or compensated.
EveryChargeAccounted == Card!EveryChargeAccounted

\* A requested cancellation ends even if the API crashed halfway.
CancellationsEnd == Card!CancellationsEnd

\* An abandoned basket is given back by the cron or renewed by its owner.
OverdueCartsEmptied == Basket!OverdueCartsEmptied
=============================================================================
