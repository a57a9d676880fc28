SPECIFICATION FairSpec
CONSTANTS
  c1 = c1
  q1 = q1
  Calls = {c1}
  Requests = {q1}
  CallOf <- MCPlainRequest
  Handlers = {h1}
  None = None
  ResponseTimeout = 15
CHECK_DEADLOCK FALSE
INVARIANTS
  CallsSettled
  AnswerBeatsTimeout
PROPERTY
  EveryCallReturns
