CONSTANTS
  Client = {c1, c2}
  Usable = 2
  Block = 1
  Chunk = 2
  MaxSkip = 1
  MaxSongs = 2
  MaxOps = 3
SPECIFICATION Spec
INVARIANT NoMissedWakeup
INVARIANT EndedOnlyWhenStopped
INVARIANT WriteNeverSleeps
INVARIANT OneStaleBlock
PROPERTY RequestSeen
PROPERTY ReaderServed
CHECK_DEADLOCK FALSE
