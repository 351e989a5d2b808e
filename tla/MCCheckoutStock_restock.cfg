\* A fully returned order is reopened by staff and cancelled.
SPECIFICATION Spec
CONSTANTS
  Users = {u1}
  Lines = {l1}
  Branches = {b1}
  Orders = {o1}
  NoBranch = NoBranch
  NoOrder = NoOrder
  SeedUnits = 1
  Seed <- MCSeed
  MaxQty = 1
  MaxGen = 1
  MaxRev = 1
  MaxStock = 1
INVARIANTS
  NoUnitRestockedTwice
