SPECIFICATION Spec
CONSTANTS
  M = 16
  maxLate = 3
  Tails = {TRUE, FALSE}
  First = 12
  Final = 21
  Reorder = 3
  Gap = 4
CHECK_DEADLOCK FALSE
INVARIANTS
  check
