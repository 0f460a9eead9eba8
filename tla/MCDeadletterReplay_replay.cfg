SPECIFICATION FairReplaySpec
CONSTANTS
  Tasks = {t1}
  Requests = {}
  Uploads = {}
  Keys = {k1}
  EventId = {1, 2, 3}
  ReplayId = {r1, r2}
  MaxAttempts = 1
  OutboxMaxRetries = 0
  BatchSize = 2
  MaxStepIterations = 20
  Concurrency = 2
  MaxFaults = 2
  Operators = {o1}
  Parallel = 2
PROPERTIES
  ReplayTakesEffect
CHECK_DEADLOCK FALSE
