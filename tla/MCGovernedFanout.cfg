SPECIFICATION FairSpec
CONSTANTS
  Targets = 2
  Concurrency = 2
  Batch = 0
  Mutation <- BatchAndTargets
  Reader = {}
  Command <- MCTargets
  Write <- MCTargets
  FirstUse = {}
INVARIANTS
  AllOrNothing
  BatchAccountsForAll
  TallyNeverOverclaims
  SuccessfulExitIsTrue
  EachTargetOnce
  NoSendAfterClose
PROPERTY FleetReturns
CHECK_DEADLOCK FALSE
