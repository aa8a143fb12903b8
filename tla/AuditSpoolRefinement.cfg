SPECIFICATION Spec
CONSTANTS
  NoActor = NoActor
  Mutation = {m1, m2, m3}
  Reader = {}
  Poison = {m3}
  MaxSeq = 3
  CanCrash = TRUE
SYMMETRY SpoolSymmetry
INVARIANTS
  VerdictIsTrue
  DuplicatesAreReopened
  SpoolNamesUnique
PROPERTIES
  QueueDiscipline
  ImplementsJournal
CHECK_DEADLOCK FALSE
