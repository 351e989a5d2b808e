\* Two customers, branches and orders, staff, and three transactions on
\* one product in two sizes.
SPECIFICATION MCSpec
CONSTANTS
  Users = {u1, u2}
  Lines = {l1}
  Branches = {b1, b2}
  Orders = {o1, o2}
  NoBranch = NoBranch
  NoOrder = NoOrder
  SeedUnits = 1
  u2 = u2
  o2 = o2
  b2 = b2
  Seed <- MCSeed
  MaxQty = 2
  MaxGen = 2
  MaxRev = 2
  MaxStock = 0
  Charges = {g1}
  Requests = {r1}
  Passes = {s1}
  None = None
  Manual = Manual
  Actors = {"proof", "staff", "return"}
  Txs = {t1, t2, t3}
  AttemptLocks = {k1}
  CartLocks = {c1}
  OrderLocks = {d1}
  Shelves = {v1, v2}
  ProductLocks = {p1}
  ProductOf <- MCProductOf
  Rank <- MCRank
  MaxTries = 2
  NoLock = NoLock
  k1 = k1
  c1 = c1
  d1 = d1
  v1 = v1
  v2 = v2
  p1 = p1
  t1 = t1
  t2 = t2
  t3 = t3
INVARIANTS
  ShopTypeOK
  ReservedIffInCart
  OrderOwnsItsUnits
  LedgerBalance
  PaidIsNotReleased
  CycleHasAnUnordered
PROPERTIES
  ReservationsEndOnce
CHECK_DEADLOCK FALSE
