SPECIFICATION Spec
CONSTANTS
  Main = main
  Client = {c1, c2}
  Name = {"a", "b", "c"}
  MaxNames = 3
  Order <- Keys
  Core <- CoreKeys
  Own <- ClientKeys
  Default = default
  Value = {"new", "", "<"}
  Empty = ""
  Markup = "<"
  MaxChanges = 5
  MaxStarts = 2
INVARIANT CrashLosesNothing
CHECK_DEADLOCK FALSE
