SPECIFICATION Spec
CONSTANTS
  Games = {g1, g2}
  NULL = NULL
  MaxLines = 5
  MaxEvents = 2
CHECK_DEADLOCK FALSE
INVARIANT WaitingMeansReceipt
