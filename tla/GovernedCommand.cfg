SPECIFICATION CommandSpec
CONSTANTS
  Mutation = {w1, m1}
  Reader = {r1}
  Command = {w1, m1, r1}
  Write = {w1}
  FirstUse = {m1, r1}
INVARIANTS
  ChangeIsAnnounced
  PlainFailureIsSafeToRetry
  SuccessIsTrue
  UnrecordedOutcomeIsTold
  ShownReadIsRecorded
  NoticeIsKept
CHECK_DEADLOCK FALSE
