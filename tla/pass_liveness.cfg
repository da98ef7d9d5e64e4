SPECIFICATION FairPassSpec
CONSTANTS
  Invocations = {i1, i2}
  NoOid = NoOid
  MaxAttempts = 2
  Lossy = TRUE
  CarefulOperator = TRUE
  Revisions = {r1}
  NoRevision = NoRevision
  Modes = {"shared"}
  Interrupts = FALSE
PROPERTY EveryPassEnds LeaseComesBack
CHECK_DEADLOCK FALSE
