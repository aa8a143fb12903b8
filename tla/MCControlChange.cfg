SPECIFICATION Spec
CONSTANTS
  n1 = n1  n2 = n2  b1 = b1  b2 = b2
  password = password  passphrase = passphrase  s0 = s0  s1 = s1
  alice = alice  bob = bob  d0 = d0  d1 = d1
  setter = setter  mover = mover  other = other
  Process = {setter, mover, other}
  Mutation = {setter, mover, other}
  Reader = {}
  Nobody = nobody
  Unread = unread
  Nothing = nothing
  Name = {n1, n2}
  Backend = {b1}
  Slot = {password, passphrase}
  Secret = {s0, s1}
  Operator = {alice, bob}
  Detail = {d0, d1}
  Contents <- Config
  Requests <- MCRequests
  Initial <- MCInitial
  Stored = s0
  Mortal = {setter, mover}
INVARIANTS
  NothingLost
  ReferencesResolve
PROPERTIES
  ChangesAreAuthorized
  ChangeIsIntended
  FailedSetLeavesNothing
  MigrationKeepsUnlessOvertaken
CHECK_DEADLOCK FALSE
