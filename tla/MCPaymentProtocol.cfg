\* Card payments: two charges and one request at a time, or one charge and two
\* requests; and one pass of the cron.
SPECIFICATION MCSpec
CONSTANTS
  Charges = {c1, c2}
  Requests = {r1, r2}
  Passes = {p1}
  None = None
  Manual = Manual
  Actors = {}
SYMMETRY Symmetry
INVARIANTS
  NoChargeForgotten
  OneOpenCharge
  PaidConsistently
PROPERTIES
  ImplementsLedger
CHECK_DEADLOCK FALSE
