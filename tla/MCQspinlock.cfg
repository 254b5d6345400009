\* Three CPUs contend for one lock; pending bit, queue and fast path interplay.
SPECIFICATION FairSpec
CONSTANTS
  A = A
  B = B
  NR_CPUS = 3
  LEVELS = 1
  Ctx <- Tasks
  MAX_NODES = 4
  LOCKS <- LocksA
  LockLevel <- LevelA
  FETCH_OR_ATOMIC = FALSE
  NULL = NULL
  NoLock = NoLock
INVARIANTS
  TypeOK
  Inv
  MutualExclusion
PROPERTIES
  NoOvertaking
  StarvationFree
