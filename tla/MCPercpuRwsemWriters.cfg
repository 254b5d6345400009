\* Two writers and a reader: the states of rcu_sync.
SPECIFICATION FairSpec
CONSTANTS
  Readers = {r1}
  Writers = {w1, w2}
  NULL = NULL
  NR_CPUS = 2
  WIDTH = 2
  STARTS = {FALSE, TRUE}
INVARIANTS
  TypeOK
  SlowPathForced
  GpStateMatches
PROPERTIES
  WriterGetsIn
  FastPathRestored
