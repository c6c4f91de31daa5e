SPECIFICATION Spec
CONSTANTS
  Users = {u1}
  Steps = {"step 2", "step 3"}
  Main = {"step 2", "step 3"}
  Values = {v1, v2}
  Requests = {r1, r2}
  Nothing = Nothing
INVARIANT
  MountShowsTyped
