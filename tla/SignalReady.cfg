SPECIFICATION Spec
CONSTANTS
  NPCB = 4
  NPORTS = 2
  PidCycle = 1
  NSIGS = 1
  Calls = {"SYS_CREATE", "SYS_PORT_CREATE", "SYS_PORT_RECV", "SYS_SEND", "SYS_KILL", "SYS_SIG_HANDLE"}
  PortArgs = {1}
  Millis = {}
  SigArgs = {0}
PROPERTIES ReadyQueueGrows
