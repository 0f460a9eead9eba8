SPECIFICATION ServicesSpec
CONSTANTS
  MemTasks = {"m1", "m2"}
  Stranger = "other"
  CreateKeys = {c1, c2}
  ActionKeys = {n1}
  Payloads = {1, 2}
  Quota = 1
  Media <- MediaOfMemory
  MaxVersion = 3
  MemEventId = {1, 2, 3}
  MaxMemFaults = 1
  InTasks = {"i1"}
  InMedia <- MediaOfInput
  Uploaders = {1, 2}
  Pages = {x1, x2}
  InEventId = {1, 2, 3}
  Boxes = {"b1", "b2"}
  Lines = {"l1"}
  HistoryDepth = 2
  MaxItems = 2
  Width = 1920
  Height = 1080
  Frames = 4
  RegionRequests <- MarkedRequests
  DocTasks = {"d1"}
  Ppt = {"d1"}
  Drivers = {"j1"}
  DrivesDoc <- DocOfDriver
  DocPages = {1, 2}
  GatewayCalls = {x1, x2}
  NoCall = NoCall
  DocPool = 1
  JobAttempts = 2
  GatewayBudget <- OneOfEach
SYMMETRY Interchangeable
INVARIANTS
  KeysTellTheSame
  ChargedUnlessCanceled
  NoUploadLost
  NoSilentOverwrite
  UploadEndsWaiting
  GrabIsCurrent
  EveryFrameMasked
  
PROPERTIES
  MemoryImplementsContract
  PagesImplementContract
  UndoKeepsTimeline
CHECK_DEADLOCK FALSE
