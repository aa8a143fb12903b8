SPECIFICATION Spec
CONSTANTS
  NoActor = NoActor
  Mutation = {m1, m2}
  Reader = {}
  Poison = {m1}
  MaxSeq = 3
  CanCrash = FALSE
PROPERTY RefusalNeedsCause
CHECK_DEADLOCK FALSE
