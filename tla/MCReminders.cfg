SPECIFICATION Spec
CONSTANTS
  Sirens = {s1}
  FirstYear = 2027
  LastYear = 2027
  Kinds = {"evaluation_2", "opening"}
  NewDeadlines = {28}
  Horizon = 30
  w1 = w1
  w2 = w2
  Workers = {w1, w2}
  Nothing = Nothing
  RetryLimit = 1
  MaxFires = 2
  MaxFaults = 1
CHECK_DEADLOCK FALSE
SYMMETRY MCSymmetry
INVARIANTS
  TypeOK
  DuplicatesExplained
  NoneVanishes
PROPERTIES
  RemindedOnItsDay
