SPECIFICATION Spec
CONSTANTS
  NoActor = NoActor
  Mutation = {m1, m2}
  Reader = {}
  Poison = {}
  MaxSeq = 3
  CanCrash = TRUE
PROPERTY HealthyFinishKeepsOutcome
CHECK_DEADLOCK FALSE
