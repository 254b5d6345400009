\* Three CPUs and two queues that share the per-CPU nodes.
SPECIFICATION FairSpec
CONSTANTS
  NR_CPUS = 3
  Locks = {A, B}
  NULL = NULL
INVARIANTS
  TypeOK
  MutualExclusion
  WritesInQueue
PROPERTIES
  ImplementsOsq
  Progress
  CanLeave
