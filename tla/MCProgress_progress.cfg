SPECIFICATION ProgressSpec
CONSTANTS
  OwnAssets = {a1}
  OwnTasks = {k1}
  Requests = {11}
  NoRequest = 0
  DelKeys = {d1}
  DelCalls = {1}
  Processors = {w1, w2}
  DueOnly = TRUE
  Limit = 1
  Sla = 1
  LastTick = 1
  DelMaxFaults = 2
  InTasks = {"i1"}
  InMedia <- MediaOfInput
  Uploaders = {1}
  Pages = {g1}
  InEventId = {1, 2, 3, 4}
  Events = {1, 2}
  Tests = {}
  Endpoints = {p1}
  Dispatchers = {w1, w2}
  Callers = {}
  MaxRetries = 1
  BatchSize = 1
  MaxEdits = 1
  MaxFaults = 1
PROPERTIES
  RequestsSettle
  WatchedTaskEnds
  EventsComeToRest
CHECK_DEADLOCK FALSE
