SPECIFICATION PaySpec
CONSTANTS
  Orders = {o1}
  Reporters = {c1, c2}
  None = None
  PayMaxFaults = 0
PROPERTIES
  RefundIsFinal
CHECK_DEADLOCK FALSE
