SPECIFICATION PassSpec
CONSTANTS
  Invocations = {i1, i2}
  NoOid = NoOid
  MaxAttempts = 2
  Lossy = FALSE
  CarefulOperator = TRUE
  Revisions = {r1}
  NoRevision = NoRevision
  Modes = {"shared"}
  Interrupts = TRUE
INVARIANT InterruptedPassReleased
CHECK_DEADLOCK FALSE
