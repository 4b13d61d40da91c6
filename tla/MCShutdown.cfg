CONSTANTS
  r1 = r1
  r2 = r2
  Requests <- MCRequests
  MaxParts <- OnePart
SPECIFICATION Spec
PROPERTY ExitsDrained
CHECK_DEADLOCK FALSE
