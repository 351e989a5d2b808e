\* A card payment, a purchase in doubt, a tab and an app of an account, and a basket of
\* two lines bought together or apart.
SPECIFICATION MCSpec
CONSTANTS
  Charges = {c1}
  Desks = {w1}
  Passes = {p1}
  Manual = Manual
  Actors = {}
  Keys = {k1}
  Requests = {r1, r2}
  None = None
  MaxVersion = 2
  Clients = {d1, d2}
  Apps = {d2}
  Calls = {q1, q2}
  MaxTokens = 2
  NoFlight = NoFlight
  NoRequest = NoRequest
  Users = {u1}
  Lines = {l1, l2}
  Branches = {b1}
  Orders = {o1, o2}
  NoBranch = NoBranch
  NoOrder = NoOrder
  SeedUnits = 1
  MaxQty = 1
  MaxGen = 1
  MaxRev = 1
  MaxStock = 0
PROPERTIES
  OverdueCartsEmptied
  EveryChargeAccounted
  CancellationsEnd
  DoubtEnds
  NobodyWaitsForEver
CHECK_DEADLOCK FALSE
