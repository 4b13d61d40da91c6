CONSTANTS
  sh1 = sh1
  sh2 = sh2
  p1 = p1
  p2 = p2
  p3 = p3
  Clis <- OneShell
  Pids <- MCPids
SPECIFICATION FairSpec
INVARIANTS
  TypeOK
  DaemonIsRecorded
  NoSelfConflict
PROPERTIES
  StopFreesThePort
  CommandsEnd
