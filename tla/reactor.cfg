SPECIFICATION Spec
CONSTANTS
  c1 = c1
  c2 = c2
  Conns <- TwoConns
  Followers = {c1}
  Leavers = {c1}
  Kinds <- TwoKinds
  MaxFrames <- TwoMax
  NULL = NULL
INVARIANTS
  NothingStranded
  AnsweredInOrder
CHECK_DEADLOCK FALSE
