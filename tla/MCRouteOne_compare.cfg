SPECIFICATION RouteSpec
CONSTANTS
  Key <- MCKey
  None = None
  Torn = Torn
  KillMidLine = FALSE
  MaxCheckpoint = 3
  Latest <- MCOneLatest
  LatestCount = 3
  Options <- MCOneOption
  BatchSize = 1
  Emits <- MCEmits
  Invocations <- MCInvocations
  MaxRuns = 2
  MaxScripts = 1
INVARIANT ComparePasses
CHECK_DEADLOCK FALSE
