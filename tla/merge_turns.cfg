SPECIFICATION MergeSpec
CONSTANTS
  Units = {a, b}
  Procs = {p1, p2}
  ParentFlags = {TRUE}
  MaxCommits = 2
  MaxTurns = 2
  DriverPaths = {d1}
  NoPath = NoPath
SYMMETRY MergeSymmetry
INVARIANT MergeTypeOK RecordedMergeIsKept IntegrationIsReal
PROPERTY BranchesOnlyGrow OnlyTakeReopens LiveHolderKept
CHECK_DEADLOCK FALSE
