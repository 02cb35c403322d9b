SPECIFICATION Spec
CONSTANTS
  NPCB = 3
  NPORTS = 1
  PidCycle = 2
  NSIGS = 2
  Calls = {"SYS_CREATE", "SYS_STOP", "SYS_YIELD", "SYS_KILL", "SYS_SIG_HANDLE", "SYS_SIG_WAIT"}
  PortArgs = {}
  Millis = {}
  SigArgs <- AllSigs
INVARIANTS TypeOK OnePlace PendingHasHandler SigWaitNonePending
PROPERTIES SignalsInTurn
