SPECIFICATION Spec
CONSTANTS
  r1 = r1
  orig = orig
  w1 = w1
  w2 = w2
  w3 = w3
  Regions = {r1, orig}
  Original = orig
  NoRegion = NoRegion
  LeaveSettings <- MCLeaveSettings
  NoSettings = NoSettings
  Discovered <- MCNotDiscovered
  Workers = {w1, w2}
  App = App
  Reader = Reader
  Readers = {rd1, rd2}
  rd1 = rd1
  rd2 = rd2
  Closer = Closer
  User = User
  Nobody = Nobody
  MaxReconnectCount = 2
  MaxFaults = 3
  MaxLateCloses = 2
SYMMETRY LoopSymmetry
CHECK_DEADLOCK FALSE
INVARIANTS
  TypeOK
  WorkerSlot
  NoOrphanedRecovery
  JoinExclusive
  SettingsFresh
  OutcomeSettled
PROPERTY
  ReconnectHonoured
  ImplementsLifecycle
