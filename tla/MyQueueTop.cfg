SPECIFICATION Spec
CONSTANTS
  Keys = {1, 2, 3}
  Sizes = {6}
  Extents = {0}
  Capacity = 6
  FixBound = 1
INVARIANT TopIsBest
