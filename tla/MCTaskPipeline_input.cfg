SPECIFICATION Spec
CONSTANTS
  Tasks = {t1}
  Requests = {r1}
  Uploads = {u1}
  Keys = {k1}
  EventId = {1, 2, 3, 4, 5, 6, 7, 8}
  ReplayId = {}
  MaxAttempts = 1
  OutboxMaxRetries = 0
  BatchSize = 2
  MaxStepIterations = 20
  Concurrency = 1
  MaxFaults = 1
INVARIANTS
  InputResumesTask
CHECK_DEADLOCK FALSE
