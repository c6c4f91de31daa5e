SPECIFICATION Spec
CONSTANTS
  Tabs = {1, 2}
  Users = {"alice", "bob"}
  UserOf <- MCUserOf
  NoOne = NoOne
  MaxCalls = 1
  MaxBacklog = 1
  Moves = {"save", "hide"}
INVARIANT
  NoStaleWrite
