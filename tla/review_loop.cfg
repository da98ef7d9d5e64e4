SPECIFICATION LoopSpec
CONSTANTS
  c1 = c1
  c2 = c2
  w1 = w1
  w2 = w2
  w3 = w3
  f1 = f1
  f2 = f2
  f3 = f3
  Controllers = {c1, c2}
  Workers = {w1, w2, w3}
  Open = {w1, w2}
  Spares = {s1}
  Findings = {f1, f2}
  Reviews <- TwoTargets
  OperatorOwned = {}
  Touches <- OneShared
  Life <- TwoReviews
  Rounds <- TwoRounds
  Unscoped = Unscoped
  Nothing = Nothing
  StagedUnits = {w1}
  Recurring = FALSE
  Mortal = {w1}
  MaxKills = 1
INVARIANT LoopTypeOK RoutedIsInHand
PROPERTY ResubmittedIsRepaired RequestsAreNotTaken CleanCutsNothing
CHECK_DEADLOCK FALSE
