SPECIFICATION Spec
CONSTANTS
  NPCB = 3
  NPORTS = 3
  PidCycle = 1
  NSIGS = 1
  Calls = {"SYS_CREATE", "SYS_PORT_CREATE", "SYS_SEND", "SYS_PORT_RECV"}
  PortArgs = {1, 2}
  Millis = {}
  SigArgs = {}
PROPERTIES RecvGetsItsPort
