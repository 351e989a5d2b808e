\* A store that the platform suspended while its subscription was lapsed.
SPECIFICATION StoreSpec
CONSTANTS
  Stores = {t1}
  Subs = {s0, s1}
  SignupSub = s0
  Handlers = {h1, h2}
  None = None
PROPERTIES
  ManualSuspensionStands
CHECK_DEADLOCK FALSE
