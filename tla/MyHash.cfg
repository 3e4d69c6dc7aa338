SPECIFICATION Spec
CONSTANTS
  Cells = {c1, c2, c3, c4}
  Keys = {1, 5, 6, 9}
  HashSpan = 8
  Values = {v}
  Null = Null
  Sizes = {0, 1}
  SD_HASH_DEFAULT_SIZE = 2
  HASH_FULL_ITERATE = 2
  HASH_GROW_STEP = 4
SYMMETRY Symmetry
INVARIANTS
  WellLinked
  CursorAlive
  NothingSkipped
  IteratorsAgree
PROPERTY ImplementsKeyValue
