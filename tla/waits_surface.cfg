SPECIFICATION PassSpec
CONSTANTS
  Invocations = {i1, i2, i3, i4}
  NoOid = NoOid
  MaxAttempts = 1
  Lossy = FALSE
  CarefulOperator = FALSE
  Revisions = {r1}
  NoRevision = NoRevision
  Modes = {"shared"}
  Interrupts = FALSE
CONSTRAINT TwoAtATimeOneDeath
SYMMETRY InvocationSymmetry
INVARIANT WaitsSurface BrokenLeaseNeverGreen
CHECK_DEADLOCK FALSE
