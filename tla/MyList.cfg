SPECIFICATION Spec
CONSTANTS
  Cells = {c1, c2, c3}
  Data = {1, 2}
  Null = Null
  MaxDepth = 1
SYMMETRY Symmetry
INVARIANTS
  WellLinked
  CursorAlive
  NothingSkipped
PROPERTIES
  OnlyAskedLeave
