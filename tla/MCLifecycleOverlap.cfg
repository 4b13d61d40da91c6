CONSTANTS
  sh1 = sh1
  sh2 = sh2
  p1 = p1
  p2 = p2
  p3 = p3
  Clis <- TwoShells
  Pids <- MCPids
SPECIFICATION Spec
INVARIANT RefusesSecondDaemon
