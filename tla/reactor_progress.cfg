SPECIFICATION FairSpec
CONSTANTS
  c1 = c1
  c2 = c2
  Conns <- TwoConns
  Followers = {c1}
  Leavers = {}
  Kinds <- FairKinds
  MaxFrames <- TwoMax
  NULL = NULL
PROPERTIES
  AnswersArrive
  TerminatedCloses
CHECK_DEADLOCK FALSE
