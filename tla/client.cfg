SPECIFICATION FairSpec
CONSTANTS
  Games = {g1, g2}
  NULL = NULL
  MaxLines = 5
  MaxEvents = 2
INVARIANTS
  TypeOK
  ReceiptFindsCommand
  SubscriptionsAgree
  SummaryReadsLive
  ReportsSigned
CHECK_DEADLOCK FALSE
PROPERTIES
  CommandSettles
  LogoutCompletes
  TerminateEnds
