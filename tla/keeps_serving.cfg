SPECIFICATION Spec
CONSTANTS
  c1 = c1
  c2 = c2
  Conns <- TwoConns
  Followers = {c1}
  Leavers = {}
  Kinds <- TameKinds
  MaxFrames <- TwoMax
  NULL = NULL
INVARIANT KeepsServing
CHECK_DEADLOCK FALSE
