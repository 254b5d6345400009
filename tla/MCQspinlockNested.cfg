\* An interrupt queues for lock B on a CPU whose task queues for lock A.
SPECIFICATION Spec
CONSTANTS
  A = A
  B = B
  NR_CPUS = 2
  LEVELS = 2
  Ctx <- TasksAndOneIrq
  MAX_NODES = 2
  LOCKS <- LocksAB
  LockLevel <- LevelAB
  FETCH_OR_ATOMIC = TRUE
  NULL = NULL
  NoLock = NoLock
INVARIANTS
  NodesNotShared
  WritesToNeighbour
PROPERTIES
  ImplementsSpinLock
