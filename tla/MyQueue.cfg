SPECIFICATION Spec
CONSTANTS
  Keys = {1, 2, 3}
  Sizes = {2, 5}
  Extents = {0, 1}
  Capacity = 6
  FixBound = 5
INVARIANTS
  HeapOrder
PROPERTY ImplementsPriorityQueue
