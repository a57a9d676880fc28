SPECIFICATION Spec
CONSTANTS
  M = 8
  Reach = 3
  Final = 13
INVARIANT LossRequested
CHECK_DEADLOCK FALSE
