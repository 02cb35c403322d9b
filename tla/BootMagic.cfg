SPECIFICATION Spec
CONSTANTS
  BMAX = 16
  Images <- Undamaged
  lbits = 9
  dbits = 6
  WSIZE = 16
  INBUFSIZ = 10
  HuftSize = 1
  InputData = 100
  BSS = 600
  HeapEnd = 2450
INVARIANT MagicIsKnown
CHECK_DEADLOCK FALSE
