SPECIFICATION FairSpec
CONSTANTS
  Configs <- MCConfigs
  U32 = 8
  None = None
  NoFile = NoFile
  NotUtf8 = NotUtf8
  Blank = Blank
  Malformed = Malformed
  WarmupPanics = TRUE
  MeasuredPanics = TRUE
INVARIANTS
  TypeOK
  MeasuredTogether
  ReportsComplete
  NoMissPasses
  KeysReadEvenly
  MixFollowsWeights
PROPERTY BenchmarkEnds
CHECK_DEADLOCK FALSE
