SPECIFICATION Spec
CONSTANTS
  KernelEnd = 20
  HOLESTART = 176
  HOLEEND = 192
  maxaddr = 303
  StackSizes = {16, 20, 48}
  Careful = TRUE
PROPERTIES FreedIsFree
