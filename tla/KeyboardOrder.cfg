SPECIFICATION DevSpec
CONSTANTS
  NPCB = 3
  NPORTS = 1
  PidCycle = 1
  NSIGS = 1
  Calls = {"SYS_CREATE"}
  PortArgs = {}
  Millis = {}
  SigArgs = {}
  BUFF_SIZE = 2
  FDT_SIZE = 2
  Devices = {1}
  DevUsers = {0, 2}
  Fds = {0, 2}
  Lens = {3}
  Commands = {0}
  Careful = FALSE
  Codes = {30, 158, 28}
PROPERTIES KeysInOrder
