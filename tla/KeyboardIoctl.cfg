SPECIFICATION DevSpec
CONSTANTS
  NPCB = 2
  NPORTS = 1
  PidCycle = 1
  NSIGS = 1
  Calls = {"SYS_CREATE", "SYS_YIELD"}
  PortArgs = {}
  Millis = {}
  SigArgs = {}
  BUFF_SIZE = 2
  FDT_SIZE = 2
  Devices = {1}
  DevUsers = {0}
  Fds = {0, 2}
  Lens = {3}
  Commands = {53}
  Careful = FALSE
  Codes = {30, 158, 28}
PROPERTIES KeysInOrder
