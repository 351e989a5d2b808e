\* A card charge opened while a proof is under review.
SPECIFICATION Spec
CONSTANTS
  Charges = {c1}
  Requests = {r1}
  Passes = {p1}
  None = None
  Manual = Manual
  Actors = {"proof"}
INVARIANTS
  NoChargeForgotten
CHECK_DEADLOCK FALSE
