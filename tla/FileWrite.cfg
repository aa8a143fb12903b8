SPECIFICATION Spec
CONSTANTS
  MaxMeddling = 2
  Identity = {i1, i2}
  Original = i1
  NoIdentity = none
INVARIANTS
  ReportSettlesEffect
  BoundDirectoryOnly
  AgentLossIsNetworkError
  NothingLeftBehind
PROPERTIES
  ReplacesWhatLooksInspected
  CallsEnd
CHECK_DEADLOCK FALSE
