SPECIFICATION AccountsSpec
CONSTANTS
  Orders = {o1, o2}
  Reporters = {c1, c2, c3}
  None = None
  PayMaxFaults = 1
  Tasks = {t1, t2}
  NoTask = NoTask
  Calls = {c1, c2}
  Keys = {k1, k2}
  Payloads = {p1, p2}
  Quota = 1
  LastMonth = 2
  LastRow = 2
  Periods = {m1, m2}
  Jobs = {x1, x2}
  LastMs = 2
  MaxRuns = 2
  OwnAssets = {a1}
  OwnTasks = {t1}
  Requests = {11, 12}
  NoRequest = 0
  DelKeys = {k1}
  DelCalls = {1, 2}
  Processors = {x1, x2}
  DueOnly = TRUE
  Limit = 1
  Sla = 1
  LastTick = 1
  DelMaxFaults = 1
  Events = {1}
  Tests = {9}
  Endpoints = {e1}
  Dispatchers = {x1, x2}
  Callers = {y1}
  MaxRetries = 1
  BatchSize = 1
  MaxEdits = 2
  MaxFaults = 1
SYMMETRY Interchangeable
INVARIANTS
  EventsTellStatus
  OneActiveUnlessConcurrent
  SameKeySameTask
  QuotaHolds
  CountedUpToWatermark
  MismatchMeansOverlap
  DoneIsComplete
  ClaimedByOne
  SameKeySameAnswer
  AnsweredIsKept
  LogLinear
  SettledMeansTried
PROPERTIES
  ImplementsDeliveryLog
CHECK_DEADLOCK FALSE
