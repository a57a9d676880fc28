SPECIFICATION Spec
CONSTANTS
  a1 = a1
  a2 = a2
  b1 = b1
  Tracks = {t1, t2}
  SIDs = {a1}
  Key <- MCKey
  Meta <- MCMeta
  Handles = {h1, h2}
  Callers = {c1, c2}
  Reader = Reader
  Restorer = Restorer
  None = None
  MaxRestarts = 1
  MaxInFlight = 2
SYMMETRY Symmetry
INVARIANTS
  NobodyForgotten
PROPERTIES
  SubscriptionsFollow
CHECK_DEADLOCK FALSE
