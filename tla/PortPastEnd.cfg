SPECIFICATION Spec
CONSTANTS
  NPCB = 3
  NPORTS = 3
  PidCycle = 1
  NSIGS = 1
  Calls = {"SYS_CREATE", "SYS_PORT_CREATE"}
  PortArgs <- AllPorts
  Millis = {}
  SigArgs = {}
INVARIANTS PortsInTable
