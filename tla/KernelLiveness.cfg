SPECIFICATION FairSpec
CONSTANTS
  NPCB = 4
  NPORTS = 1
  PidCycle = 1
  NSIGS = 1
  Calls = {"SYS_CREATE", "SYS_YIELD", "SYS_SLEEP"}
  PortArgs = {}
  Millis = {10}
  SigArgs = {}
PROPERTIES ReadyRuns SleeperRuns
