SPECIFICATION Spec
CONSTANTS
  d1 = d1
  d2 = d2
  d3 = d3
  r1 = r1
  r2 = r2
  Documents = {d1, d2, d3, d4}
  Infected = {d4}
  Requests = {r1, r2}
  Flows = {"cse_opinion", "joint_evaluation"}
  Sheets = {s1, s2}
  Nothing = Nothing
  ContentTypes = {"accuracy 1", "accuracy 2"}
  Requirements <- MCRequirements
  MaxCseFiles = 4
  Faults = {"s3", "db", "crash"}
SYMMETRY MCSymmetry
INVARIANTS
  TypeOK
  OrphansExplained
  ShownIsComplete
PROPERTIES
  KeepsDocuments
  AddedWithinQuota
  ShownAsSent
CHECK_DEADLOCK FALSE
