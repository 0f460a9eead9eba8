SPECIFICATION PipelineSpec
CONSTANTS
  Tasks = {t1}
  Requests = {r1}
  Uploads = {u1}
  Keys = {k1}
  EventId = {1, 2, 3, 4, 5, 6, 7, 8}
  ReplayId = {p1, p2}
  MaxAttempts = 1
  OutboxMaxRetries = 0
  BatchSize = 2
  MaxStepIterations = 20
  Concurrency = 2
  MaxFaults = 1
  Operators = {o1, o2}
  Parallel = 2
SYMMETRY Interchangeable
INVARIANTS
  TypeOK
  SnapshotsFresh
  NoSilentStall
  LedgerSettled
  OutcomesAnnouncedOnce
PROPERTIES
  TransitionsLegal
  ImplementsContract
CHECK_DEADLOCK FALSE
