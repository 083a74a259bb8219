SPECIFICATION Spec
CONSTANTS
  Key <- MCKey
  None = None
  KillMidLine = TRUE
  MaxCheckpoint = 3
  First = 1
  Emits <- MCEmits
  Invocations <- MCOneInvocation
  MaxRuns = 2
INVARIANT KeysHitDb
CHECK_DEADLOCK FALSE
