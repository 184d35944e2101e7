SPECIFICATION Spec
CONSTANTS
  NULL = NULL
  NUL = NUL
  ann = ann
  bob = bob
  Follower = follower
  Users = {ann, bob}
  Streams = {ann, bob, follower}
  Doubled = {follower}
  Cuts = {0, 1}
  Texts = {1, 2, 3, 4, 5}
  Times = {1, 2}
  Events <- McEvents
  Heading <- McHeading
  Squeeze <- McSqueeze
  Files <- McFiles
CHECK_DEADLOCK FALSE
INVARIANTS
  StatsAreLatest
  EventsListed
  SummaryFresh
  ToldInOrder
PROPERTIES
  FramesCarried
  GamesRead
  ReportsArrive
