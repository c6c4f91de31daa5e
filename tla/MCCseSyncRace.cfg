SPECIFICATION Spec
CONSTANTS
  w1 = w1
  w2 = w2
  s1 = s1
  s2 = s2
  Workers <- MCWorkers
  Syncs <- MCSyncs
  MaxTime = 6
SYMMETRY Symmetry
INVARIANTS
  ReadStaysValid
  TransmittedOnce
