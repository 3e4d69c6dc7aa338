SPECIFICATION Spec
CONSTANTS
  Keys = {1, 2, 3, 4, 5, 6}
  CountBits = 2
  Options <- MCOptions
  Repeated = {4}
  RefusalBound = 1
INVARIANTS
  RedBlack
  SearchKeyFinds
  Accounted
PROPERTIES
  NextIsNeighbour
  ImplementsKeyCounts
