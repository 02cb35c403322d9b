SPECIFICATION Spec
CONSTANTS
  NPCB = 3
  NPORTS = 2
  PidCycle = 1
  NSIGS = 1
  Calls = {"SYS_CREATE", "SYS_STOP", "SYS_YIELD", "SYS_GET_PID", "SYS_PORT_CREATE", "SYS_SEND", "SYS_PORT_RECV"}
  PortArgs <- AllPorts
  Millis = {}
  SigArgs = {}
INVARIANTS OnePlace PortsAgree NoStrandedSender NoMissedRendezvous
PROPERTIES ReceivesOnOwnPort
