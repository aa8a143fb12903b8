SPECIFICATION FairSpec
CONSTANTS
  NoActor = NoActor
  Mutation = {m1, m2}
  Reader = {r1}
  Poison = {}
  MaxSeq = 3
  CanCrash = TRUE
INVARIANT ReleasedReadIsAudited
PROPERTIES
  LossNeedsLeftover
  RefusalNeedsCause
  EveryCallReturns
  NextCallDrains
CHECK_DEADLOCK FALSE
