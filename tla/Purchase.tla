------------------------------ MODULE Purchase ------------------------------
(***************************************************************************)
(* What an idempotent POST /orders promises.  A purchase, known by its key, *)
(* is bought once or refused for good, one revision of a cart is bought    *)
(* once whatever keys it is sent with, and the shopper is only told what   *)
(* was decided.                                                            *)
(***************************************************************************)

CONSTANTS Keys, Versions

VARIABLES
  sold,     \* orders: the key and the cart revision they were made from
  refused,  \* keys that will never buy
  told      \* what the shopper heard of each key

vars == <<sold, refused, told>>

Init == sold = {} /\ refused = {} /\ told = [k \in Keys |-> {}]

Bought(k) == \E o \in sold : o.key = k

Buy(k, seen, at) ==
  /\ k \notin refused
  /\ \A o \in sold : o.key # k /\ o.seen # seen
  /\ sold' = sold \cup {[key |-> k, seen |-> seen, at |-> at]}
  /\ UNCHANGED <<refused, told>>

Refuse(k) ==
  /\ ~Bought(k)
  /\ refused' = refused \cup {k}
  /\ UNCHANGED <<sold, told>>

Tell(k, what) ==
  /\ IF what = "bought" THEN Bought(k) ELSE k \in refused
  /\ told' = [told EXCEPT ![k] = @ \cup {what}]
  /\ UNCHANGED <<sold, refused>>

Next ==
  \E k \in Keys :
    \/ \E seen, at \in Versions : Buy(k, seen, at)
    \/ Refuse(k)
    \/ \E what \in {"bought", "refused"} : Tell(k, what)

Spec == Init /\ [][Next]_vars
=============================================================================
