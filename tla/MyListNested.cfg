SPECIFICATION Spec
CONSTANTS
  Cells = {c1, c2, c3}
  Data = {1, 2}
  Null = Null
  MaxDepth = 2
PROPERTY OnlyAskedLeave
