SPECIFICATION FairSpec
CONSTANTS
  Threads = {t1, t2, L}
  LoopThread = L
  NONE = NONE
  MaxTasks = 3
INVARIANTS
  TypeOK
  NoLostWakeup
PROPERTIES
  SpawnedTaskRuns
  NotifiedTaskRuns
  DestructorReturns
CHECK_DEADLOCK FALSE
