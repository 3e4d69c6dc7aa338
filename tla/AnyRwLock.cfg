SPECIFICATION AnyLiveSpec
CONSTANTS
  NoThread = NoThread
  Threads = {t1, t2, t3, t4}
INVARIANTS
  AssertsHold
  NobodyStranded
  ReleasesHeldMode
PROPERTIES
  ImplementsRWLock
  QueuedWriterGetsIn
  EverybodyGetsIn
