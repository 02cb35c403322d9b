SPECIFICATION Spec
CONSTANTS
  NPCB = 4
  NPORTS = 1
  PidCycle = 1
  NSIGS = 1
  Calls = {"SYS_CREATE", "SYS_STOP", "SYS_YIELD", "SYS_SLEEP"}
  PortArgs = {}
  Millis = {0, 5, 10, 20}
  SigArgs = {}
INVARIANTS OnePlace SleepSorted OnTime
PROPERTIES RoundRobin
