SPECIFICATION FairSpec
CONSTANTS
  Requests = {q1, q2}
  None = None
  MaxID = 3
  MaxRestarts = 1
CHECK_DEADLOCK FALSE
INVARIANTS
  WrittenOnce
  NoneStranded
  AnswersRouted
  OldSessionFailed
PROPERTY
  CloseReleases
