SPECIFICATION FairSpec
CONSTANTS
  Configs <- MCMix
  U32 = 8
  None = None
  NoFile = NoFile
  NotUtf8 = NotUtf8
  Blank = Blank
  Malformed = Malformed
  WarmupPanics = TRUE
  MeasuredPanics = TRUE
PROPERTY RefusedMixIsEmpty
CHECK_DEADLOCK FALSE
