SPECIFICATION RouteSpec
CONSTANTS
  Key <- MCKey
  None = None
  Torn = Torn
  KillMidLine = TRUE
  MaxCheckpoint = 3
  Latest <- MCLatest
  LatestCount = 2
  Options <- MCOptions
  BatchSize = 1
  Emits <- MCEmits
  Invocations <- MCInvocations
  MaxRuns = 2
  MaxScripts = 3
INVARIANTS
  RouteTypeOK
  SuiteInputsReady
  RangePinned
  SameRows
CHECK_DEADLOCK FALSE
