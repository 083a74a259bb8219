SPECIFICATION Spec
CONSTANTS
  Ids <- MCIds
  Owners <- MCOwners
  Chains <- MCChains
  Exports <- MCExports
  Limits <- MCLimits
  Text <- MCText
  Hash16 <- MCHash16
  HashLen = 3
  Base = 2
  U64Len = 3
  U32Len = 2
  None = None
INVARIANTS
  TypeOK
  KeysAnswered
  ScansExact
  LastSeenIsLastChange
  OwnerScansResolve
  ChecksumTells
  ExportedAnswered
  ExportAgrees
CHECK_DEADLOCK FALSE
