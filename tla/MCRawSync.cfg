SPECIFICATION FairSpec
CONSTANTS
  Source <- MCSource
  Targets <- MCTargets
  BatchRows = 2
  PipeSize = 2
  MaxRuns = 2
INVARIANTS
  TypeOK
  ImportedIsReported
  ShortImportTold
  NoMixture
  WholeBatches
PROPERTY BothEnd
CHECK_DEADLOCK FALSE
