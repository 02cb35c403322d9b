SPECIFICATION ConsoleSpec
CONSTANTS
  COL = 4
  ROW = 2
  Stop = 2
  Chars = {97}
  Controls = {8, 10}
  BootCursors = {0, 3}
INVARIANT OnScreen
