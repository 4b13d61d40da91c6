CONSTANTS
  c0 = c0
  c1 = c1
  r1 = r1
  Calls <- MCCalls
  Reports <- MCReports
  Chunks <- MCChunks
  MaxChunks = 4
SPECIFICATION Spec
INVARIANT ParallelCallsKeepApart
\* The handler returns when its stream is over.
CHECK_DEADLOCK FALSE
