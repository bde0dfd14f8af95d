CONSTANTS
  a = a
  b = b
  gone = gone
  Name = {a, b}
  Entry = {e1, e2}
  Setups <- SetupChoices
  NoList = NoList
  Garbage = Garbage
  NoMedia = NoMedia
  History = 1
  Upcoming = 1
  MaxLen = 3
SPECIFICATION Spec
INVARIANT PositionInRange
INVARIANT HistoryKept
INVARIANT MirrorMatches
INVARIANT HangsOnlyWhenEmpty
PROPERTY CurrentKept
PROPERTY AdvanceAnswers
PROPERTY PositionTold
SYMMETRY Symmetry
CHECK_DEADLOCK FALSE
