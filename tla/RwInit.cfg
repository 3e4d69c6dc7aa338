SPECIFICATION LiveSpec
CONSTANTS
  Threads = {t1, t2, t3, t4}
INVARIANTS
  RwInitTypeOK
  RoutineRunsOnce
  UsedAsMade
PROPERTIES
  InitReturns
