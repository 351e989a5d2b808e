---------------------------- MODULE ChargeLedger ----------------------------
(***************************************************************************)
(* What the payment of an order promises about the customer's money,       *)
(* whatever the protocol behind it: a sale waits until it is paid by one   *)
(* charge or released, and a charge taken without being that one is owed   *)
(* to the customer until it is returned.                                   *)
(***************************************************************************)
CONSTANT Charges

VARIABLES charge, sale

States == {"none", "open", "void", "taken", "kept", "owed", "returned"}

TypeOK == charge \in [Charges -> States] /\ sale \in {"waiting", "paid", "released"}

Init == charge = [c \in Charges |-> "none"] /\ sale = "waiting"

Move(c, from, to) == charge[c] = from /\ charge' = [charge EXCEPT ![c] = to]

Open(c) == Move(c, "none", "open") /\ UNCHANGED sale
Void(c) == Move(c, "open", "void") /\ UNCHANGED sale
Take(c) == Move(c, "open", "taken") /\ UNCHANGED sale

\* The sale is paid by this charge, and by no other.
Keep(c) == Move(c, "taken", "kept") /\ sale = "waiting" /\ sale' = "paid"

\* The sale is over without this charge.
Owe(c) == Move(c, "taken", "owed") /\ sale # "waiting" /\ UNCHANGED sale

GiveBack(c) == Move(c, "owed", "returned") /\ UNCHANGED sale

Release == sale = "waiting" /\ sale' = "released" /\ UNCHANGED charge

Next ==
  \/ \E c \in Charges : Open(c) \/ Void(c) \/ Take(c) \/ Keep(c) \/ Owe(c) \/ GiveBack(c)
  \/ Release

Spec == Init /\ [][Next]_<<charge, sale>>
=============================================================================
