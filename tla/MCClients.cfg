\* Two purchases of one shopper, a profile of two fields, two clients of an account,
\* and a shelf that is counted.
SPECIFICATION MCSpec
CONSTANTS
  Keys = {k1, k2}
  Requests = {r1, r2}
  None = None
  MaxVersion = 2
  Fields = {name, phone}
  Values = {a, b, c}
  Tabs = {tab1, tab2}
  MaxIds = 2
  NoChange = NoChange
  NoForm = NoForm
  NoValues = NoValues
  name = name
  tab2 = tab2
  Clients = {d1, d2}
  Apps = {d2}
  Calls = {q1, q2}
  MaxTokens = 2
  NoFlight = NoFlight
  NoRequest = NoRequest
  MaxCount = 1
  MaxRowVersion = 4
  MaxOps = 2
  NoCount = NoCount
SYMMETRY Symmetry
INVARIANTS
  NoEditLost
  NoCountForgotten
PROPERTIES
  ImplementsPurchase
  OverwritesOnlyWhatItSaw
  NoFalseLogout
  CountsOverWhatWasSeen
  DecidedOnce
CHECK_DEADLOCK FALSE
