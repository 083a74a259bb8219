SPECIFICATION FairSpec
CONSTANTS
  Digests <- MCDigests
  BatchSize = 2
  MaxRetries = 2
INVARIANTS
  TypeOK
  AttemptsExact
PROPERTY ImplementsFetch
CHECK_DEADLOCK FALSE
