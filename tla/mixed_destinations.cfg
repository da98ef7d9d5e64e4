SPECIFICATION MergeSpec
CONSTANTS
  Units = {a, b}
  Procs = {p1, p2}
  ParentFlags = {TRUE, FALSE}
  MaxCommits = 2
  MaxTurns = 2
  DriverPaths = {d1}
  NoPath = NoPath
SYMMETRY MergeSymmetry
INVARIANT IntegrationIsReal
CHECK_DEADLOCK FALSE
