\* Two readers and a writer that no signal reaches.
SPECIFICATION FairSpec
CONSTANTS
  Readers = {r1, r2}
  Writers = {w1}
  MODES = {"TASK_UNINTERRUPTIBLE"}
  MAX_READERS_WAKEUP = 1
  NULL = NULL
PROPERTIES
  FreeIsTaken
  HandoffHonoured
