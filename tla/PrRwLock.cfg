SPECIFICATION LiveSpec
CONSTANTS
  NoThread = NoThread
  Threads = {t1, t2, t3, t4}
INVARIANTS
  TypeOK
  UnlockOwnsMutex
  NoLostWakeup
  DestroySafe
PROPERTIES
  ImplementsRWLock
  WritersGetIn
  PendingReaderGetsIn
