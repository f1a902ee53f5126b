SPECIFICATION FairSpec
CONSTANTS
  Operations = {o1, o2, o3}
  RunWhenCancelled = {o2}
  Threads = {t1, t2}
  NULL = NULL
INVARIANTS
  SingleWorker
  WokenWithOperation
  AliveWhileUsed
PROPERTIES
  AbandonedQueueIsFreed
  EveryOperationAnswered
  ImplementsSerialExecutor
