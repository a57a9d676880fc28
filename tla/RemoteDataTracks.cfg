SPECIFICATION Spec
CONSTANTS
  a1 = a1
  a2 = a2
  b1 = b1
  Tracks = {t1, t2}
  SIDs = {a1, a2}
  Key <- MCKey
  Meta <- MCMeta
  Handles = {h1, h2}
  Callers = {c1}
  Reader = Reader
  Restorer = Restorer
  None = None
  MaxRestarts = 1
  MaxInFlight = 2
SYMMETRY Symmetry
INVARIANTS
  RoutesAgree
  SubscriptionReachesSFU
CHECK_DEADLOCK FALSE
