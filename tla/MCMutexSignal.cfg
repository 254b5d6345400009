\* Two tasks, both kinds of signal and both modes that heed one.
SPECIFICATION FairSpec
CONSTANTS
  Tasks = {t1, t2}
  MODES <- InterruptibleAndKillable
  SIGNALS = {"signal", "fatal"}
  NULL = NULL
PROPERTIES
  SignalEndsWait
  ImplementsMutex
