SPECIFICATION FairRecordSpec
CONSTANTS
  Units = {a}
  Writers = {w1, w2}
  Drivers = {d1, d2}
  Nobody = Nobody
INVARIANT RecordTypeOK ReadIsCurrent
PROPERTY UsageIsKept ImplementsAtomic EveryUpdateEnds
CHECK_DEADLOCK FALSE
