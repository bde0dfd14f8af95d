CONSTANTS
  Client = {c1, c2}
  MaxOps = 3
SPECIFICATION OutputSpec
INVARIANT StoppedMeansClosed
INVARIANT AbortsOnlyWhenRaced
PROPERTY StatusReached
CHECK_DEADLOCK FALSE
