\* One node per CPU and two nesting levels: the fallback without a node.
SPECIFICATION Spec
CONSTANTS
  A = A
  B = B
  NR_CPUS = 2
  LEVELS = 2
  Ctx <- TasksAndIrqs
  MAX_NODES = 1
  LOCKS <- LocksAB
  LockLevel <- LevelAB
  FETCH_OR_ATOMIC = TRUE
  NULL = NULL
  NoLock = NoLock
INVARIANTS
  Inv
