CONSTANTS
  a = a
  b = b
  x = x
  y = y
  Name = {a, b}
  Entry = {x, y}
  Setup <- TwoLists
  FirstActive = a
  MaxChanges = 3
  MaxEntries = 2
SPECIFICATION Spec
INVARIANT UpToDateUnlessOvertaken
PROPERTY FreshAgain
CHECK_DEADLOCK FALSE
