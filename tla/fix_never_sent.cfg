SPECIFICATION LoopSpec
CONSTANTS
  c1 = c1
  c2 = c2
  w1 = w1
  w2 = w2
  w3 = w3
  f1 = f1
  f2 = f2
  f3 = f3
  Controllers = {c1}
  Workers = {w1, w2}
  Open = {w1, w2}
  Spares = {s1}
  Findings = {f1, f2, f3}
  Reviews <- OneTarget
  OperatorOwned = {f3}
  Touches <- OneEach
  Life <- OneReview
  Rounds <- OneRounds
  Unscoped = Unscoped
  Nothing = Nothing
  StagedUnits = {}
  Recurring = TRUE
  Mortal = {}
  MaxKills = 0
INVARIANT RoutedIsInHand
CHECK_DEADLOCK FALSE
