\* A reader and two writers, all killable.
SPECIFICATION Spec
CONSTANTS
  Readers = {r1}
  Writers = {w1, w2}
  MODES = {"TASK_KILLABLE"}
  MAX_READERS_WAKEUP = 1
  NULL = NULL
SYMMETRY Symmetric
INVARIANTS
  NoLostWakeup
