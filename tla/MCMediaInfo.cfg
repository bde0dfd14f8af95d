SPECIFICATION Spec
CONSTANTS
  Url = {song, text}
  Playable = {song}
  Nothing = nothing
  Client = {a, b}
  MaxId = 2
  MaxCommands = 4
CHECK_DEADLOCK FALSE
INVARIANTS
  InfoIsOwn
  ReaderAwake
PROPERTIES
  NothingForgotten
  StopEnds
