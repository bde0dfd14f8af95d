CONSTANTS
  Usable = 3
  Byte = {b1, b2}
  Mark = {m1, m2}
  MaxMarks = 2
  MaxLen = 4
SPECIFICATION Spec
INVARIANT TypeOK
INVARIANT HotspotsInOrder
PROPERTY HotspotBeforeItsData
PROPERTY ImplementsFifo
SYMMETRY Symmetry
