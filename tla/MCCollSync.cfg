CONSTANTS
  Editor = {a, b}
  MaxEdits = 4
  MaxRuns = 2
SPECIFICATION SyncSpec
INVARIANT SyncNotLost
INVARIANT StoppedSaved
CHECK_DEADLOCK FALSE
PROPERTY EventuallySaved
PROPERTY ShutdownEnds
