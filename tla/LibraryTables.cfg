SPECIFICATION Spec
CONSTANTS
  WORD = 16
  DECIMAL = 5
  StringSize = 10
  MAXSTR = 12
  BMAX = 16
  Numbers <- Words
  ScanNumbers <- FewWords
  Widths = {0, 3, 5, 12, 13}
  Elements = {1, 2, 3, 4}
  MaxLen = 6
  CodeLens <- Lens
  COL = 4
  ROW = 2
  Stop = 2
  Chars = {97, 98}
  Controls = {0, 9, 10, 13}
  BootCursors = {0, 3, 7, 9}
INVARIANTS AllZeroIsInvalid IncompleteRight
CHECK_DEADLOCK FALSE
