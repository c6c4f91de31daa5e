SPECIFICATION LinkSpec
CONSTANTS
  v1 = v1
  v2 = v2
  r1 = r1
  r2 = r2
  i1 = i1
  i2 = i2
  Users = {u1, u2}
  Drafts = {v1, v2}
  Requests = {r1, r2}
  Companies = {"here", "elsewhere"}
  Here = "here"
  Movers = {u1}
  SignIns = {i1, i2}
  Nothing = Nothing
SYMMETRY MCSymmetry
INVARIANTS
  TypeOK
  ExclusiveTenure
  HolderIsLinked
PROPERTIES
  LateSaveNeverReopens
  TransmissionSettles
  OneCompany
  RevocationSettles
