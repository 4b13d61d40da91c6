CONSTANTS
  r1 = r1
  r2 = r2
  Requests <- OneRequest
  MaxParts <- MCMaxParts
SPECIFICATION FairSpec
INVARIANTS
  FailureIsNeverASuccess
  FaultsAreErrors
PROPERTY RequestsEnd
CHECK_DEADLOCK FALSE
