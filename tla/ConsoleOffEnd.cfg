SPECIFICATION ConsoleSpec
CONSTANTS
  COL = 4
  ROW = 2
  Stop = 2
  Chars = {97}
  Controls = {10}
  BootCursors = {8}
INVARIANT OnScreen
