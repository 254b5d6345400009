\* Three tasks that no signal reaches.
SPECIFICATION FairSpec
CONSTANTS
  Tasks = {t1, t2, t3}
  MODES <- Uninterruptible
  SIGNALS = {}
  NULL = NULL
PROPERTIES
  FreeIsTaken
  HandoffHonoured
