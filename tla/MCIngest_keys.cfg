SPECIFICATION FairSpec
CONSTANTS
  Key <- MCKey
  None = None
  KillMidLine = FALSE
  MaxCheckpoint = 3
  First = 0
  Emits <- MCEmits
  Invocations <- MCInvocations
  MaxRuns = 3
INVARIANTS
  KeysHitDb
  DoneKeysComplete
PROPERTIES
  KeyFilesGrow
  EventuallyComplete
CHECK_DEADLOCK FALSE
