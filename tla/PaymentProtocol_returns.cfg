\* One card payment of an order that is then returned in full.
SPECIFICATION Spec
CONSTANTS
  Charges = {c1}
  Requests = {r1}
  Passes = {p1}
  None = None
  Manual = Manual
  Actors = {"return"}
INVARIANTS
  PaidConsistently
CHECK_DEADLOCK FALSE
