SPECIFICATION Spec
CONSTANTS
  p1 = p1
  p2 = p2
  c1 = c1
  Process <- MCProcess
  Prune <- MCPrune
  Mutation <- MCPrune
  Reader = {}
  Contents <- MCContents
  Nobody = Nobody
  Unread = Unread
  MaxRotated = 2
  Rule <- MCRule
INVARIANTS
  PruneReportIsTrue
PROPERTIES
  PruneIsCurrent
  PruneReturns
CHECK_DEADLOCK FALSE
