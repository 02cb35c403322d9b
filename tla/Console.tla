------------------------------ MODULE Console ------------------------------
(***************************************************************************)
(* The console (c/kprintf.c): kbmputc, which puts a character of kprintf   *)
(* into the memory of the screen.  A place on the screen is the number of  *)
(* its character from the start of that memory on, which the code counts   *)
(* in pairs of bytes.                                                      *)
(*                                                                         *)
(* A definition whose name ends in _Capitalised is a variant of the one    *)
(* below it with a mistake in it, which no specification uses.             *)
(***************************************************************************)
EXTENDS Integers, Sequences

CONSTANTS
  COL, ROW,
  Stop,       \* the distance of tabulator stops: 8
  Chars,      \* the characters that are shown
  Controls,   \* and those that only move the cursor or are not shown
  BootCursors \* where the cursor of the hardware may stand at first

Blank == 32
BS == 8
TAB == 9
LF == 10
CR == 13

NoPlace == -(753664 \div 2)   \* crtat before the first character: the address 0

ASSUME ConsoleAssumption ==
  /\ COL \in Nat \ {0} /\ ROW \in Nat \ {0} /\ Stop \in Nat \ {0} /\ COL % Stop = 0
  /\ Controls \subseteq {0, BS, TAB, LF, CR} /\ Chars \cap {0, BS, TAB, LF, CR} = {}
  /\ BootCursors \subseteq Nat

VARIABLES
  screen,   \* the characters, and those of the line behind the last one
  crtat,    \* the place of the next character
  at        \* where the cursor of the hardware stands

cvars == <<screen, crtat, at>>

Places == 0 .. COL * ROW - 1

ConsoleInit ==
  /\ \E c \in Chars : screen = [q \in 0 .. COL * (ROW + 1) - 1 |-> c]
  /\ crtat = NoPlace /\ at \in BootCursors

---------------------------------------------------------------------------
(* The state s of the console is the record of its variables.              *)

(* The first character: the display is cleared from the cursor on.         *)
Probe(s) ==
  LET p == IF s.at <= COL * ROW THEN s.at ELSE 0
  IN  IF s.crtat # NoPlace THEN s
      ELSE [s EXCEPT !.crtat = p,
              !.screen = [q \in DOMAIN @ |-> IF q \in p .. COL * ROW - 1 THEN Blank ELSE @[q]]]

Scroll_KeepsLine(s) ==
  IF s.crtat < COL * ROW THEN s
  ELSE [s EXCEPT !.crtat = @ - COL,
          !.screen = [q \in DOMAIN @ |-> IF q < COL * (ROW - 1) THEN @[q + COL] ELSE @[q]]]

Scroll(s) ==
  IF s.crtat < COL * ROW THEN s
  ELSE [s EXCEPT !.crtat = @ - COL,
          !.screen = [q \in DOMAIN @ |-> CASE q < COL * (ROW - 1) -> @[q + COL]
                                           [] q \in COL * (ROW - 1) .. COL * ROW - 1 -> Blank
                                           [] OTHER -> @[q]]]

(* cursor: at follows crtat, 16 bits of it.                                *)
Finish(s) == LET t == Scroll(s) IN [t EXCEPT !.at = t.crtat % 2 ^ 16]

PutShown(s, c) ==
  Finish([s EXCEPT !.screen = [q \in DOMAIN @ |-> IF q = s.crtat THEN c ELSE @[q]],
                   !.crtat = @ + 1])

LineStart(p) == p - (p % COL)

(* A tabulator: blanks, at least one, until crtat is at a stop, where the  *)
(* loop ends; After[k] is the console after k of them.                     *)
PutTab(s) ==
  LET After[k \in 0 .. Stop] == IF k = 0 THEN s ELSE PutShown(After[k - 1], Blank)
      AtStop(k) == After[k].crtat % Stop = 0
      n == CHOOSE k \in 1 .. Stop : AtStop(k) /\ \A j \in 1 .. k - 1 : ~AtStop(j)
  IN  Finish(After[n])

kbmputc(t, c) ==
  LET s == Probe(t)
  IN  CASE c = 0   -> t
        [] c = TAB -> PutTab(s)
        [] c = BS  -> Finish([s EXCEPT !.crtat = @ - 1])
        [] c = LF  -> Finish([s EXCEPT !.crtat = LineStart(@ + COL)])
        [] c = CR  -> Finish([s EXCEPT !.crtat = LineStart(@)])
        [] OTHER   -> PutShown(s, c)

Put(c) ==
  LET s == kbmputc([screen |-> screen, crtat |-> crtat, at |-> at], c)
  IN  screen' = s.screen /\ crtat' = s.crtat /\ at' = s.at

ConsoleNext == \E c \in Chars \cup Controls : Put(c)

ConsoleSpec == ConsoleInit /\ [][ConsoleNext]_cvars

---------------------------------------------------------------------------
(* The next character goes to a place of the screen.                       *)
OnScreen == crtat = NoPlace \/ crtat \in Places

(* The lines and the cursor as those of a terminal; the display is to be   *)
(* cleared behind a cursor that was not used yet.                          *)
Begin == IF crtat # NoPlace THEN crtat ELSE IF at <= COL * ROW THEN at ELSE 0

Cell(p) == IF crtat = NoPlace /\ p >= Begin THEN Blank ELSE screen[p]

Lines == [r \in 1 .. ROW |-> [c \in 0 .. COL - 1 |-> Cell(COL * (r - 1) + c)]]

T == INSTANCE Terminal WITH lines <- Lines, line <- Begin \div COL + 1, column <- Begin % COL

(* The console shows the text that was put on it: it implements Terminal.  *)
ShowsText == T!TSpec
=============================================================================
