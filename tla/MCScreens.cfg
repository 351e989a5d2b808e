\* Two purchases of a phone and two of a browser, one draft, and one order on the
\* payment screen.
SPECIFICATION MCSpec
CONSTANTS
  MaxKeys = 2
  NoKey = NoKey
  Drafts = {d1}
  None = None
INVARIANTS
  OpenOrderIsKept
  DraftKept
  PurchaseNotForgotten
PROPERTIES
  NewPurchaseIsReviewed
  SuccessIsReal
