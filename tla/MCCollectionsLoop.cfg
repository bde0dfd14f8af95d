CONSTANTS
  Client = {c1, c2}
  Label <- Labels4
  Active <- ActiveLabel
  First <- FirstLabel
  Shape <- LoopShapes
  MaxOps = 4
  MaxDepth = 12
SPECIFICATION Spec
INVARIANT NoLoop
VIEW View
SYMMETRY Symmetry
CHECK_DEADLOCK FALSE
