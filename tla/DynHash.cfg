SPECIFICATION Spec
CONSTANTS
  Records = {r1, r2, r3, r4, r5}
  Keys = {0, 1, 2, 3, 4, 8}
  HashSpan = 8
  NoRecord = NoRecord
  MaxRecords = 5
  InitialNumber = 0
  Increment = 2
SYMMETRY Symmetry
INVARIANTS
  HomeChains
  AllFound
PROPERTY ImplementsKeyedRecords
