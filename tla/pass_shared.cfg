SPECIFICATION PassSpec
CONSTANTS
  Invocations = {i1, i2}
  NoOid = NoOid
  MaxAttempts = 2
  Lossy = TRUE
  CarefulOperator = TRUE
  Revisions = {r1}
  NoRevision = NoRevision
  Modes = {"shared", "private", "waived"}
  Interrupts = TRUE
INVARIANT LeaseTypeOK PassTypeOK OneWinner ReturnedStaysReturned OneRunAtATime GreenPassIsWhole
PROPERTY NeverTakenOver ImplementsEnvironment ImplementsShared
CHECK_DEADLOCK FALSE
