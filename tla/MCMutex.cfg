\* Three tasks; every wait may be ended by a fatal signal or by none.
SPECIFICATION Spec
CONSTANTS
  Tasks = {t1, t2, t3}
  MODES <- UninterruptibleAndKillable
  SIGNALS = {"fatal"}
  NULL = NULL
SYMMETRY Symmetric
INVARIANTS
  TypeOK
  Inv
  MutualExclusion
  NoLostWakeup
  FlagsMatchList
PROPERTIES
  NotStolen
  ImplementsMutex
