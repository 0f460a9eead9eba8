SPECIFICATION Spec
CONSTANTS
  Tasks = {t1, t2}
  Requests = {r1, r2}
  Uploads = {}
  Keys = {k1, k2}
  EventId = {1, 2, 3, 4, 5, 6, 7, 8}
  ReplayId = {}
  MaxAttempts = 1
  OutboxMaxRetries = 1
  BatchSize = 2
  MaxStepIterations = 20
  Concurrency = 2
  MaxFaults = 2
ACTION_CONSTRAINT CallsWithoutFaults
SYMMETRY Interchangeable
INVARIANTS
  NoSilentStall
  ReplayEchoesSuccess
CHECK_DEADLOCK FALSE
