SPECIFICATION Spec
CONSTANTS
  t1 = t1
  t2 = t2
  t3 = t3
  p1 = p1
  p2 = p2
  s1 = s1
  s2 = s2
  i1 = i1
  i2 = i2
  k1 = k1
  k2 = k2
  NONE = NONE
INVARIANTS
  StartSteady
PROPERTIES
  SamplesWhole
  TimelineSteady
  EndsTogether
  RegressionFollowed
CHECK_DEADLOCK FALSE
