SPECIFICATION Spec
CONSTANTS
  BMAX = 16
  Images <- Named
  lbits = 9
  dbits = 6
  WSIZE = 16
  INBUFSIZ = 10
  HuftSize = 1
  InputData = 100
  BSS = 600
  HeapEnd = 2450
PROPERTY GoodFileBoots
CHECK_DEADLOCK FALSE
