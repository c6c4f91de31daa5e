SPECIFICATION Spec
CONSTANTS
  Sirens = {s1}
  FirstYear = 2027
  LastYear = 2027
  Kinds = {"compliance"}
  NewDeadlines = {}
  Horizon = 28
  w1 = w1
  w2 = w2
  Workers = {w1, w2}
  Nothing = Nothing
  RetryLimit = 1
  MaxFires = 1
  MaxFaults = 0
CHECK_DEADLOCK FALSE
PROPERTY
  ClosingOpinionReminded
