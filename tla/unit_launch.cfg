SPECIFICATION LaunchSpec
CONSTANTS
  u1 = u1
  u2 = u2
  u3 = u3
  u4 = u4
  u5 = u5
  NoUnit = NoUnit
  Units = {u1, u2, u3, u4, u5}
  Planned = {u1, u3, u4, u5}
  After <- BuildsOn
  Serialize <- WaitsFor
  Branchless = {u3}
  Width = 2
INVARIANT LaunchTypeOK LaunchedOnce BuildsOnWork WidthHeld
PROPERTY EndedStays
CHECK_DEADLOCK FALSE
