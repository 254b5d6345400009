\* Two readers and a writer: the counters and the wait queue.
SPECIFICATION Spec
CONSTANTS
  Readers = {r1, r2}
  Writers = {w1}
  NULL = NULL
  NR_CPUS = 2
  WIDTH = 3
  STARTS = {FALSE}
SYMMETRY Symmetric
INVARIANTS
  NoLostWakeup
PROPERTIES
  ImplementsRwLock
