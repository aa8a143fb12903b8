SPECIFICATION CommandSpec
CONSTANTS
  Mutation = {w1, m1}
  Reader = {}
  Command = {w1, m1}
  Write = {w1}
  FirstUse = {}
INVARIANT TransportFailureIsUncertain
CHECK_DEADLOCK FALSE
