---------------------------- MODULE AtLeastOnce ----------------------------
(***************************************************************************)
(* What a durable queue with retries promises about each of its items: an  *)
(* item that was accepted is kept until its effect happened or somebody    *)
(* has to look at it, it is never lost, and it does not wait for ever.     *)
(***************************************************************************)
CONSTANT Items

VARIABLES
  where,  \* "out", "kept", "closed" or "review"
  done    \* items whose effect happened, once or more

AtLeastOnceVars == <<where, done>>

AtLeastOnceInit == where = [i \in Items |-> "out"] /\ done = {}

Move(i, from, to) == where[i] \in from /\ where' = [where EXCEPT ![i] = to] /\ UNCHANGED done

\* An item is accepted, or the effect of one happens and accepts others with it.
Accepted(new) == where' = [i \in Items |-> IF i \in new /\ where[i] = "out" THEN "kept" ELSE where[i]]

Accept(i)      == Accepted({i}) /\ UNCHANGED done
Happen(i, new) == where[i] # "out" /\ done' = done \cup {i} /\ Accepted(new)

Close(i)     == i \in done /\ Move(i, {"kept", "review"}, "closed")
Surrender(i) == Move(i, {"kept", "closed"}, "review")

\* A worker that fails after another one was through opens the item again.
Reopen(i) == Move(i, {"closed", "review"}, "kept")

AtLeastOnceNext ==
  \E i \in Items :
    \/ Accept(i) \/ Close(i) \/ Surrender(i) \/ Reopen(i)
    \/ \E new \in SUBSET Items : Happen(i, new)

AtLeastOnceSpec ==
  /\ AtLeastOnceInit /\ [][AtLeastOnceNext]_AtLeastOnceVars
  /\ \A i \in Items : (where[i] = "kept") ~> (where[i] \in {"closed", "review"})
=============================================================================
