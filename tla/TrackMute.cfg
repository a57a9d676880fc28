SPECIFICATION Spec
CONSTANTS
  Callers = {p1, p2}
  Reader = r
  MaxCalls = 3
  MaxAdmin = 1
  MaxFailures = 1
CHECK_DEADLOCK FALSE
PROPERTIES
  MuteSettles
