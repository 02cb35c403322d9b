------------------------------ MODULE Terminal ------------------------------
(***************************************************************************)
(* What the console promises: a terminal of ROW lines of COL characters    *)
(* that shows the last ROW lines of the text, in the order in which its    *)
(* characters came.  It is the specification that Console implements.      *)
(***************************************************************************)
EXTENDS Integers, Sequences

CONSTANTS
  COL, ROW,
  Chars,        \* the characters that are shown
  Stop          \* the distance of the tabulator stops

VARIABLES
  lines,        \* the lines, the first one the topmost
  line, column  \* where the next character goes

tvars == <<lines, line, column>>

Blank == 32

BlankLine == [c \in 0 .. COL - 1 |-> Blank]

(* Below the last line, the lines move up.                                 *)
NextLine(t) ==
  IF t.line < ROW THEN [t EXCEPT !.line = @ + 1, !.column = 0]
  ELSE [t EXCEPT !.lines = Append(Tail(@), BlankLine), !.column = 0]

Shown(t, x) ==
  LET u == [t EXCEPT !.lines[t.line][t.column] = x]
  IN  IF t.column = COL - 1 THEN NextLine(u) ELSE [u EXCEPT !.column = @ + 1]

(* A tabulator fills up with blanks, at least one, to the next stop.       *)
ToStop(t) ==
  LET next == t.column - (t.column % Stop) + Stop
      u == [t EXCEPT !.lines[t.line] =
              [c \in 0 .. COL - 1 |-> IF c \in t.column .. next - 1 THEN Blank ELSE @[c]]]
  IN  IF next = COL THEN NextLine(u) ELSE [u EXCEPT !.column = next]

TInit ==
  /\ lines \in [1 .. ROW -> [0 .. COL - 1 -> Chars \cup {Blank}]]
  /\ line \in 1 .. ROW /\ column \in 0 .. COL - 1

Become(t) == lines' = t.lines /\ line' = t.line /\ column' = t.column

Now == [lines |-> lines, line |-> line, column |-> column]

TNext ==
  \/ \E x \in Chars : Become(Shown(Now, x))
  \/ Become(NextLine(Now))             \* a new line
  \/ Become([Now EXCEPT !.column = 0]) \* back to the start of the line
  \/ Become(ToStop(Now))

TSpec == TInit /\ [][TNext]_tvars
=============================================================================
