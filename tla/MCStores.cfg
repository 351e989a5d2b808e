\* A signup and a subscription, three branches and two products, two replicas.
SPECIFICATION Spec
CONSTANTS
  Stores = {t1, t2}
  Subs = {s0, s1}
  SignupSub = s0
  Handlers = {h1, h2}
  None = None
  h2 = h2
  t1 = t1
  t2 = t2
  Branches = {b1, b2, b3}
  Products = {p1, p2}
  Admins = {a1, a2}
  MaxBranches = 1
  MaxProducts = 1
  Replicas = {i1, i2}
  Readers = {q1, q2}
  TTL = 2
  NoValue = NoValue
SYMMETRY Symmetry
INVARIANTS
  PasswordUntilStore
  OnlyPaidSignupsGetStores
  SuspensionHasACause
  EveryPairIsSeeded
  StaleForTTLAtMost
PROPERTIES
  StoreIdIsFixed
  NoGrowthPastTheLimit
CHECK_DEADLOCK FALSE
