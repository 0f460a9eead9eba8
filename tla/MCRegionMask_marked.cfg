SPECIFICATION RmSpec
CONSTANTS
  Width = 1920
  Height = 1080
  Frames = 4
  RegionRequests <- MarkedRequests
INVARIANTS MarkedIsErased
CHECK_DEADLOCK FALSE
