SPECIFICATION Spec
CONSTANTS
  Key <- MCKey
  None = None
  KillMidLine = TRUE
  MaxCheckpoint = 3
  First = 1
  Emits <- MCEmits
  Invocations <- MCInvocations
  MaxRuns = 3
INVARIANTS
  TypeOK
  ResumePointCovered
  DoneRangeStored
  WatermarkCoversRange
  KeyProgressCovered
  CompletedIsComplete
  LastSeenUpToWatermark
PROPERTY ImplementsRangeIngest
CHECK_DEADLOCK FALSE
