SPECIFICATION FairSpec
CONSTANTS
  Tasks = {t1}
  Requests = {}
  Uploads = {u1}
  Keys = {k1}
  EventId = {1, 2, 3, 4, 5}
  ReplayId = {}
  MaxAttempts = 2
  OutboxMaxRetries = 0
  BatchSize = 2
  MaxStepIterations = 4
  Concurrency = 2
  MaxFaults = 1
PROPERTIES
  TaskComesToRest
CHECK_DEADLOCK FALSE
