SPECIFICATION Spec
CONSTANTS
  Key <- MCKey
  None = None
  KillMidLine = FALSE
  MaxCheckpoint = 1
  Emits <- MCEmits
  Invocations <- MCInvocations
  MaxRuns = 2
INVARIANT ResumePointCovered
CHECK_DEADLOCK FALSE
