SPECIFICATION FairSpec
CONSTANTS
  Configs <- MCPair
  U32 = 8
  None = None
  NoFile = NoFile
  NotUtf8 = NotUtf8
  Blank = Blank
  Malformed = Malformed
  WarmupPanics = TRUE
  MeasuredPanics = FALSE
PROPERTY PanicEndsRun
CHECK_DEADLOCK FALSE
