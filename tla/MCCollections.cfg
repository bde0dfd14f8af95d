CONSTANTS
  Client = {c1, c2}
  Label <- Labels4
  Active <- ActiveLabel
  First <- FirstLabel
  Shape <- Shapes
  MaxOps = 4
  MaxDepth = 12
SPECIFICATION Spec
INVARIANT ReferencesBound
INVARIANT LoopsKeptOut
INVARIANT ActiveHasName
PROPERTY EditsKeepMeaning
VIEW View
SYMMETRY Symmetry
CHECK_DEADLOCK FALSE
