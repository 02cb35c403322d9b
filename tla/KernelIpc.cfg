SPECIFICATION Spec
CONSTANTS
  NPCB = 4
  NPORTS = 3
  PidCycle = 1
  NSIGS = 1
  Calls = {"SYS_CREATE", "SYS_STOP", "SYS_PORT_CREATE", "SYS_PORT_DELETE", "SYS_SEND", "SYS_PORT_RECV"}
  PortArgs = {1}
  Millis = {}
  SigArgs = {}
INVARIANTS OnePlace PortsAgree NoStrandedSender NoMissedRendezvous
