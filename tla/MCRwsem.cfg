\* Three tasks, one of which reads and writes; a fatal signal may end any wait.
SPECIFICATION Spec
CONSTANTS
  Readers = {r1, t}
  Writers = {t, w1}
  MODES = {"TASK_KILLABLE"}
  MAX_READERS_WAKEUP = 1
  NULL = NULL
INVARIANTS
  TypeOK
  CountMatches
  OwnerMatches
PROPERTIES
  HandoffRespected
  ImplementsRwLock
