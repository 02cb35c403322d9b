---------------------------- MODULE LibraryProofs ----------------------------
(***************************************************************************)
(* Proofs about the console and about the sort.                            *)
(*                                                                         *)
(* The console implements Terminal.  A place p is column p % COL of line   *)
(* p \div COL; Image is the picture of a memory and a place, the terminal  *)
(* that they show.  Everything that kbmputc does is putting k characters   *)
(* on one line (Filled), going to the start of a line, and scrolling       *)
(* (Scrolled), and each is what the terminal does to the picture.  The     *)
(* loop of a tabulator is followed through the least number of blanks that *)
(* ends it.  Two things are assumed, without which the code leaves the     *)
(* screen: that no backspace is printed, and that the boot leaves the      *)
(* cursor anywhere but at COL * ROW.                                       *)
(*                                                                         *)
(* The sort sorts.  Divides is what the loop of qs1 knows of its part,     *)
(* Open what is known of the whole array while parts of it are still to be *)
(* sorted, Nested how the calls share it.  Nothing is assumed but that     *)
(* elements are numbers.                                                   *)
(***************************************************************************)
EXTENDS Console, Qsort, FiniteSetTheorems, FunctionTheorems, SequenceTheorems,
        WellFoundedInduction, TLAPS

(* Division by b, as b * quotient + remainder.                             *)
LEMMA DivMod ==
  ASSUME NEW b \in Nat \ {0}, NEW p \in Nat
  PROVE  /\ p \div b \in Nat /\ p % b \in 0 .. b - 1
         /\ p = b * (p \div b) + (p % b)
<1>1. p % b \in 0 .. b - 1
  OBVIOUS
<1>2. p \div b \in Int
  OBVIOUS
<1>3. p = b * (p \div b) + (p % b)
  OBVIOUS
<1>4. p \div b \in Nat
  <2>1. PICK q \in Int : q = p \div b
    BY <1>2
  <2>2. PICK r \in 0 .. b - 1 : r = p % b
    BY <1>1
  <2>3. p = b * q + r
    BY <1>3, <2>1, <2>2
  <2>4. q < 0 => b * q <= - b
    OBVIOUS
  <2>5. b * q \in Int
    OBVIOUS
  <2> QED
    BY <2>1, <2>3, <2>4, <2>5
<1> QED
  BY <1>1, <1>3, <1>4

(* And the quotient and remainder are the only ones.                       *)
LEMMA DivModUnique ==
  ASSUME NEW b \in Nat \ {0}, NEW q \in Nat, NEW r \in 0 .. b - 1
  PROVE  (b * q + r) \div b = q /\ (b * q + r) % b = r
OBVIOUS

(* A line below q starts after all of line q.                              *)
LEMMA MulLess ==
  ASSUME NEW b \in Nat \ {0}, NEW q \in Nat, NEW r \in Nat, q < r
  PROVE  b * q + b <= b * r
OBVIOUS

---------------------------------------------------------------------------
Cells == 0 .. COL * (ROW + 1) - 1

Shows == Chars \cup {Blank}

(* Where the cursor of the hardware is put.                                *)
Cursors == {p % 2 ^ 16 : p \in Places}

Con(f, p, a) == [screen |-> f, crtat |-> p, at |-> a]

Rows(f) == [r \in 1 .. ROW |-> [c \in 0 .. COL - 1 |-> f[COL * (r - 1) + c]]]

Term(L, l, c) == [lines |-> L, line |-> l, column |-> c]

Image(f, p) == Term(Rows(f), p \div COL + 1, p % COL)

(* A console s that shows what the terminal t does.                        *)
ShowsAs(s, t) ==
  \E f \in [Cells -> Shows], p \in Places, a \in Cursors :
    s = Con(f, p, a) /\ t = Image(f, p)

(* The sizes of the screen, and the products in them as sums.              *)
LEMMA Sizes ==
  /\ COL \in Nat \ {0} /\ ROW \in Nat \ {0} /\ Stop \in Nat \ {0} /\ COL % Stop = 0
  /\ COL * ROW \in Nat /\ COL * (ROW - 1) \in Nat
  /\ COL * (ROW + 1) = COL * ROW + COL
  /\ COL * (ROW - 1) = COL * ROW - COL
<1>1. /\ COL \in Nat \ {0} /\ ROW \in Nat \ {0} /\ Stop \in Nat \ {0} /\ COL % Stop = 0
  BY ConsoleAssumption
<1>2. COL * ROW \in Nat /\ COL * (ROW - 1) \in Nat
  BY <1>1
<1>3. COL * (ROW + 1) = COL * ROW + COL /\ COL * (ROW - 1) = COL * ROW - COL
  BY <1>1
<1> QED
  BY <1>1, <1>2, <1>3

(* The place of a column of a line.                                        *)
LEMMA PlaceOf ==
  ASSUME NEW r \in 1 .. ROW, NEW c \in 0 .. COL - 1
  PROVE  /\ COL * (r - 1) + c \in Places /\ COL * (r - 1) + c \in Cells
         /\ COL * (r - 1) + c + COL \in Cells
         /\ r < ROW => COL * (r - 1) + c < COL * (ROW - 1)
         /\ r = ROW => COL * (r - 1) + c \in COL * (ROW - 1) .. COL * ROW - 1
         /\ COL * ((r + 1) - 1) + c = COL * (r - 1) + c + COL
<1>1. PICK q \in Nat : q = r - 1 /\ q + 1 = r
  BY Sizes
<1>2. PICK R \in Nat : R = ROW - 1 /\ R + 1 = ROW
  BY Sizes
<1>3. q <= R /\ (r < ROW <=> q < R)
  BY <1>1, <1>2, Sizes
<1>4. COL * q \in Nat /\ COL * R \in Nat /\ (q < R => COL * q + COL <= COL * R)
      /\ (q = R => COL * q = COL * R)
  BY <1>1, <1>2, Sizes, MulLess
<1>5. COL * (r - 1) = COL * q /\ COL * (ROW - 1) = COL * R /\ COL * ROW = COL * R + COL
  BY <1>1, <1>2, Sizes
<1>6. COL * ((r + 1) - 1) = COL * q + COL
  BY <1>1, Sizes
<1> QED
  <2> DEFINE x == COL * q
             y == COL * R
  <2> HIDE DEF x, y
  <2>1. x \in Nat /\ y \in Nat /\ c \in Nat /\ COL \in Nat /\ c < COL
    BY <1>4, Sizes DEF x, y
  <2>2. /\ COL * (r - 1) = x /\ COL * (ROW - 1) = y /\ COL * ROW = y + COL
        /\ COL * (ROW + 1) = y + COL + COL /\ COL * ((r + 1) - 1) = x + COL
    BY <1>5, <1>6, Sizes, <2>1 DEF x, y
  <2>3. (r < ROW => x + COL <= y) /\ (r = ROW => x = y) /\ x <= y
    BY <1>3, <1>4, <1>1, <1>2, <2>1, Sizes DEF x, y
  <2> QED
    BY <2>1, <2>2, <2>3 DEF Places, Cells

(* The line and the column of a place.                                     *)
LEMMA LineOf ==
  ASSUME NEW p \in Places
  PROVE  /\ p \in Nat
         /\ p \div COL \in 0 .. ROW - 1 /\ p % COL \in 0 .. COL - 1
         /\ p = COL * (p \div COL) + (p % COL)
<1>1. p \in Nat /\ p < COL * ROW
  BY Sizes DEF Places
<1>2. /\ p \div COL \in Nat /\ p % COL \in 0 .. COL - 1
      /\ p = COL * (p \div COL) + (p % COL)
  BY <1>1, Sizes, DivMod
<1>3. p \div COL < ROW
  <2>1. PICK q \in Nat : q = p \div COL
    BY <1>2
  <2>2. ASSUME ROW <= q PROVE COL * ROW <= COL * q
    <3>1. CASE ROW = q
      BY <3>1, Sizes
    <3>2. CASE ROW < q
      <4>1. COL * ROW + COL <= COL * q
        BY <3>2, Sizes, MulLess
      <4> QED
        BY <4>1, Sizes
    <3> QED
      BY <2>2, <3>1, <3>2, Sizes
  <2>3. COL * q \in Nat /\ p >= COL * q
    <3>1. COL * q \in Nat
      BY Sizes
    <3>2. PICK c \in 0 .. COL - 1 : p = COL * q + c
      BY <1>2, <2>1
    <3> QED
      BY <3>1, <3>2, <1>1, Sizes
  <2> QED
    BY <2>1, <2>2, <2>3, <1>1, Sizes
<1> QED
  BY <1>1, <1>2, <1>3, Sizes

(* Another place is another line or another column.                        *)
LEMMA PlaceUnique ==
  ASSUME NEW p \in Places, NEW r \in 1 .. ROW, NEW c \in 0 .. COL - 1
  PROVE  COL * (r - 1) + c = p <=> r = p \div COL + 1 /\ c = p % COL
<1>1. PICK q \in Nat : q = r - 1 /\ r = q + 1
  BY Sizes
<1>2. (COL * q + c) \div COL = q /\ (COL * q + c) % COL = c
  BY DivModUnique, Sizes
<1>3. p \div COL \in Nat /\ p = COL * (p \div COL) + (p % COL)
  BY LineOf
<1>4. ASSUME COL * (r - 1) + c = p PROVE r = p \div COL + 1 /\ c = p % COL
  BY <1>1, <1>2, <1>4
<1>5. ASSUME r = p \div COL + 1, c = p % COL PROVE COL * (r - 1) + c = p
  <2>1. q = p \div COL
    BY <1>1, <1>3, <1>5
  <2> QED
    BY <1>1, <1>3, <1>5, <2>1
<1> QED
  BY <1>4, <1>5

(* k places further on.                                                    *)
LEMMA Further ==
  ASSUME NEW p \in Places, NEW k \in Nat, (p % COL) + k <= COL
  PROVE  /\ (p % COL) + k < COL =>
              /\ p + k \in Places
              /\ (p + k) \div COL = p \div COL /\ (p + k) % COL = (p % COL) + k
         /\ (p % COL) + k = COL =>
              /\ p + k = COL * (p \div COL + 1)
              /\ (p + k) \div COL = p \div COL + 1 /\ (p + k) % COL = 0
<1>1. PICK q \in 0 .. ROW - 1 : q = p \div COL
  BY LineOf
<1>2. PICK c \in 0 .. COL - 1 : c = p % COL
  BY LineOf
<1>3. p = COL * q + c /\ COL * q \in Nat /\ p \in Nat
  <2>1. p = COL * q + c /\ p \in Nat
    BY <1>1, <1>2, LineOf
  <2>2. COL * q \in Nat
    BY <1>1, Sizes
  <2> QED
    BY <2>1, <2>2
<1>4. ASSUME c + k < COL
      PROVE  p + k \in Places /\ (p + k) \div COL = q /\ (p + k) % COL = c + k
  <2>1. PICK d \in 0 .. COL - 1 : d = c + k
    BY <1>4, Sizes
  <2>2. (COL * q + d) \div COL = q /\ (COL * q + d) % COL = d
    BY DivModUnique, Sizes
  <2>3. p + k = COL * q + d
    BY <2>1, <1>3, Sizes
  <2>4. COL * q + d \in Places
    <3>1. PICK r \in 1 .. ROW : r = q + 1 /\ r - 1 = q
      BY Sizes
    <3> QED
      BY <3>1, PlaceOf
  <2> QED
    BY <2>1, <2>2, <2>3, <2>4
<1>5. ASSUME c + k = COL
      PROVE  p + k = COL * (q + 1) /\ (p + k) \div COL = q + 1 /\ (p + k) % COL = 0
  <2>1. PICK d \in Nat : d = q + 1
    OBVIOUS
  <2>2. (COL * d + 0) \div COL = d /\ (COL * d + 0) % COL = 0
    BY DivModUnique, Sizes
  <2>3. COL * d = COL * q + COL /\ COL * d \in Nat
    BY <2>1, Sizes
  <2>4. p + k = COL * d /\ COL * d + 0 = COL * d
    BY <2>3, <1>3, <1>5, Sizes
  <2> QED
    BY <2>1, <2>2, <2>4
<1> QED
  BY <1>1, <1>2, <1>4, <1>5

---------------------------------------------------------------------------
(* A record is determined by its fields.                                   *)
LEMMA ConIs ==
  ASSUME NEW f, NEW p, NEW a, NEW s \in [screen : {f}, crtat : {p}, at : {a}]
  PROVE  s = Con(f, p, a)
BY DEF Con

(* The same for the record of a terminal.                                  *)
LEMMA TermIs ==
  ASSUME NEW L, NEW l, NEW c, NEW t \in [lines : {L}, line : {l}, column : {c}]
  PROVE  t = Term(L, l, c)
BY DEF Term

(* Where the place is on the screen, kprintf.c's cursor update moves       *)
(* nothing but the cursor of the hardware.                                 *)
LEMMA FinishSame ==
  ASSUME NEW f, NEW p \in Places, NEW a
  PROVE  \E b \in Cursors : Finish(Con(f, p, a)) = Con(f, p, b)
<1>1. p < COL * ROW
  BY Sizes DEF Places
<1>2. Scroll(Con(f, p, a)) = Con(f, p, a)
  BY <1>1 DEF Scroll, Con
<1> DEFINE b == p % 2 ^ 16
<1>4. b \in Cursors
  BY DEF Cursors
<1>3. Finish(Con(f, p, a)) = [Con(f, p, a) EXCEPT !.at = b]
  BY <1>2 DEF Finish, Con
<1> HIDE DEF b
<1> QED
  BY <1>3, <1>4 DEF Con

Scrolled(f) ==
  [q \in Cells |-> CASE q < COL * (ROW - 1) -> f[q + COL]
                     [] q \in COL * (ROW - 1) .. COL * ROW - 1 -> Blank
                     [] OTHER -> f[q]]

(* Moving the lines up brings in the line behind the screen at most, which *)
(* keeps the memory one of characters that are shown.                      *)
LEMMA ScrolledType ==
  ASSUME NEW f \in [Cells -> Shows]
  PROVE  Scrolled(f) \in [Cells -> Shows]
<1>1. ASSUME NEW q \in Cells, q < COL * (ROW - 1) PROVE q + COL \in Cells
  BY <1>1, Sizes DEF Cells
<1> DEFINE V(q) == CASE q < COL * (ROW - 1) -> f[q + COL]
                     [] q \in COL * (ROW - 1) .. COL * ROW - 1 -> Blank
                     [] OTHER -> f[q]
<1>2. ASSUME NEW q \in Cells PROVE V(q) \in Shows
  <2>1. CASE q < COL * (ROW - 1)
    <3>1. V(q) = f[q + COL]
      BY <2>1, Sizes DEF Cells
    <3> QED
      BY <3>1, <1>1, <2>1
  <2>2. CASE q \in COL * (ROW - 1) .. COL * ROW - 1
    BY <2>2, Sizes DEF Shows, Cells
  <2>3. CASE ~ (q < COL * (ROW - 1)) /\ q \notin COL * (ROW - 1) .. COL * ROW - 1
    BY <2>3
  <2> QED
    BY <2>1, <2>2, <2>3
<1> QED
  BY <1>2 DEF Scrolled

(* The lines f moved up, with x below them.                                *)
MovedUp(f, x) == [r \in 1 .. ROW |-> IF r < ROW THEN f[r + 1] ELSE x]

(* The terminal's lines moved up, as a function of the line.               *)
LEMMA TailAppend ==
  ASSUME NEW S, NEW f \in [1 .. ROW -> S], NEW x \in S
  PROVE  Append(Tail(f), x) = MovedUp(f, x)
<1>1. PICK R \in Nat : R = ROW - 1 /\ R + 1 = ROW
  BY Sizes
<1>2. f \in Seq(S) /\ Len(f) = ROW /\ f # <<>>
  <2>1. f \in Seq(S)
    BY Sizes
  <2>2. DOMAIN f = 1 .. ROW /\ Len(f) \in Nat /\ DOMAIN f = 1 .. Len(f)
    BY <2>1
  <2>3. Len(f) = ROW
    BY <2>2, Sizes
  <2> QED
    BY <2>1, <2>3, Sizes
<1>3. Tail(f) \in Seq(S) /\ Len(Tail(f)) = R /\ \A i \in 1 .. R : Tail(f)[i] = f[i + 1]
  BY <1>1, <1>2, HeadTailProperties
<1>4. Append(Tail(f), x) \in Seq(S) /\ Len(Append(Tail(f), x)) = ROW
      /\ (\A i \in 1 .. R : Append(Tail(f), x)[i] = Tail(f)[i])
      /\ Append(Tail(f), x)[ROW] = x
  BY <1>1, <1>3, AppendProperties
<1>5. Append(Tail(f), x) = [i \in 1 .. ROW |-> Append(Tail(f), x)[i]]
  <2>1. PICK g \in Seq(S) : g = Append(Tail(f), x)
    BY <1>4
  <2>2. g \in [1 .. ROW -> S]
    BY <1>4, <2>1, LenProperties
  <2>3. g = [i \in 1 .. ROW |-> g[i]]
    BY <2>2
  <2> QED
    BY <2>1, <2>3
<1>6. ASSUME NEW r \in 1 .. ROW
      PROVE  Append(Tail(f), x)[r] = IF r < ROW THEN f[r + 1] ELSE x
  BY <1>1, <1>3, <1>4, Sizes
<1> QED
  BY <1>5, <1>6 DEF MovedUp

(* Scrolling moves the lines of a terminal up.                             *)
LEMMA ScrolledRows ==
  ASSUME NEW f \in [Cells -> Shows]
  PROVE  Rows(Scrolled(f)) = Append(Tail(Rows(f)), T!BlankLine)
<1> DEFINE S == [0 .. COL - 1 -> Shows]
<1>1. Rows(f) \in [1 .. ROW -> S]
  <2>1. ASSUME NEW r \in 1 .. ROW, NEW c \in 0 .. COL - 1
        PROVE  f[COL * (r - 1) + c] \in Shows
    BY PlaceOf
  <2> QED
    BY <2>1 DEF Rows
<1>2. T!BlankLine \in S
  BY DEF T!BlankLine, T!Blank, Blank, Shows
<1>3. Append(Tail(Rows(f)), T!BlankLine) = MovedUp(Rows(f), T!BlankLine)
  <2> HIDE DEF S
  <2> QED
    BY <1>1, <1>2, TailAppend
<1>4. ASSUME NEW r \in 1 .. ROW, NEW c \in 0 .. COL - 1
      PROVE  Scrolled(f)[COL * (r - 1) + c]
               = (IF r < ROW THEN Rows(f)[r + 1] ELSE T!BlankLine)[c]
  <2>1. PICK q \in Cells : q = COL * (r - 1) + c
    BY PlaceOf
  <2>2. q \in Int /\ COL * (ROW - 1) \in Int
    BY Sizes DEF Cells
  <2>3. CASE r < ROW
    <3>1. q < COL * (ROW - 1) /\ COL * ((r + 1) - 1) + c = q + COL
      BY <2>1, <2>3, PlaceOf
    <3>2. Scrolled(f)[q] = f[q + COL]
      BY <2>2, <3>1 DEF Scrolled
    <3>3. r + 1 \in 1 .. ROW
      BY <2>3, Sizes
    <3>4. Rows(f)[r + 1][c] = f[COL * ((r + 1) - 1) + c]
      BY <3>3 DEF Rows
    <3> QED
      BY <2>1, <2>3, <3>1, <3>2, <3>4
  <2>4. CASE ~ (r < ROW)
    <3>1. r = ROW
      BY <2>4, Sizes
    <3>2. q \in COL * (ROW - 1) .. COL * ROW - 1
      BY <2>1, <3>1, PlaceOf
    <3>3. Scrolled(f)[q] = Blank
      BY <2>2, <3>2 DEF Scrolled
    <3> QED
      BY <2>1, <2>4, <3>3 DEF T!BlankLine, T!Blank, Blank
  <2> QED
    BY <2>3, <2>4
<1>5. ASSUME NEW r \in 1 .. ROW
      PROVE  [c \in 0 .. COL - 1 |-> Scrolled(f)[COL * (r - 1) + c]]
               = IF r < ROW THEN Rows(f)[r + 1] ELSE T!BlankLine
  <2> DEFINE L == IF r < ROW THEN Rows(f)[r + 1] ELSE T!BlankLine
  <2>1. L = [c \in 0 .. COL - 1 |-> L[c]]
    <3>1. r < ROW => Rows(f)[r + 1] = [c \in 0 .. COL - 1 |-> f[COL * ((r + 1) - 1) + c]]
      BY Sizes DEF Rows
    <3>2. T!BlankLine = [c \in 0 .. COL - 1 |-> T!BlankLine[c]]
      BY DEF T!BlankLine
    <3> QED
      BY <3>1, <3>2
  <2> QED
    BY <2>1, <1>4
<1> QED
  BY <1>3, <1>5 DEF Rows, MovedUp

(* A place below the last line is moved up by a line, with the lines.      *)
LEMMA FinishBelow ==
  ASSUME NEW f \in [Cells -> Shows], NEW p \in COL * ROW .. COL * (ROW + 1) - 1, NEW a
  PROVE  \E b \in Cursors : Finish(Con(f, p, a)) = Con(Scrolled(f), p - COL, b)
<1>1. ~ (p < COL * ROW) /\ DOMAIN f = Cells
  BY Sizes
<1>2. Scroll(Con(f, p, a)) = Con(Scrolled(f), p - COL, a)
  <2>1. Scroll(Con(f, p, a)) =
          [Con(f, p, a) EXCEPT !.crtat = p - COL,
             !.screen = [q \in DOMAIN f |-> CASE q < COL * (ROW - 1) -> f[q + COL]
                                              [] q \in COL * (ROW - 1) .. COL * ROW - 1 -> Blank
                                              [] OTHER -> f[q]]]
    BY <1>1 DEF Scroll, Con
  <2> QED
    BY <2>1, <1>1 DEF Con, Scrolled
<1> DEFINE b == (p - COL) % 2 ^ 16
<1>4. b \in Cursors
  BY Sizes DEF Cursors, Places
<1>3. Finish(Con(f, p, a)) = [Con(Scrolled(f), p - COL, a) EXCEPT !.at = b]
  BY <1>2 DEF Finish, Con
<1> HIDE DEF b
<1> QED
  BY <1>3, <1>4 DEF Con

(* The first place of a line is its column 0.                              *)
LEMMA LineBegins ==
  ASSUME NEW l \in 0 .. ROW - 1
  PROVE  COL * l \in Places /\ (COL * l) \div COL = l /\ (COL * l) % COL = 0
<1>1. PICK r \in 1 .. ROW : r = l + 1 /\ r - 1 = l
  BY Sizes
<1>2. 0 \in 0 .. COL - 1 /\ l \in Nat
  BY Sizes
<1>3. COL * (r - 1) + 0 \in Places
  BY <1>2, PlaceOf
<1>4. (COL * l + 0) \div COL = l /\ (COL * l + 0) % COL = 0
  BY <1>2, Sizes, DivModUnique
<1>5. COL * l + 0 = COL * l
  BY <1>2, Sizes
<1> QED
  BY <1>1, <1>3, <1>4, <1>5

(* The terminal's new line, by whether it has a line left.                 *)
LEMMA NextLineIs ==
  ASSUME NEW L, NEW l \in 1 .. ROW, NEW c
  PROVE  /\ l < ROW => T!NextLine(Term(L, l, c)) = Term(L, l + 1, 0)
         /\ ~ (l < ROW) =>
              T!NextLine(Term(L, l, c)) = Term(Append(Tail(L), T!BlankLine), l, 0)
<1>1. CASE l < ROW
  <2>1. T!NextLine(Term(L, l, c)) \in [lines : {L}, line : {l + 1}, column : {0}]
    BY <1>1 DEF T!NextLine, Term
  <2> QED
    BY <1>1, <2>1, TermIs
<1>2. CASE ~ (l < ROW)
  <2> DEFINE M == Append(Tail(L), T!BlankLine)
  <2>1. T!NextLine(Term(L, l, c)) = [Term(L, l, c) EXCEPT !.lines = M, !.column = 0]
    BY <1>2 DEF T!NextLine, Term
  <2> HIDE DEF M
  <2>2. T!NextLine(Term(L, l, c)) \in [lines : {M}, line : {l}, column : {0}]
    BY <2>1 DEF Term
  <2>3. T!NextLine(Term(L, l, c)) = Term(M, l, 0)
    BY <2>2, TermIs
  <2> QED
    BY <1>2, <2>3 DEF M
<1> QED
  BY <1>1, <1>2

(* A place behind the last column: the next line.                          *)
LEMMA NewLine ==
  ASSUME NEW f \in [Cells -> Shows], NEW l \in 1 .. ROW, NEW c, NEW a
  PROVE  /\ ShowsAs(Finish(Con(f, COL * l, a)), T!NextLine(Term(Rows(f), l, c)))
         /\ Finish(Con(f, COL * l, a)).crtat \in {COL * l, COL * l - COL}
<1>1. CASE l < ROW
  <2>0. PICK j \in 0 .. ROW - 1 : j = l
    BY <1>1, Sizes
  <2>1. PICK q \in Places : q = COL * l /\ q \div COL = l /\ q % COL = 0
    BY <2>0, LineBegins
  <2>2. PICK b \in Cursors : Finish(Con(f, q, a)) = Con(f, q, b)
    BY FinishSame
  <2>3. Image(f, q) = T!NextLine(Term(Rows(f), l, c))
    <3>1. Image(f, q) = Term(Rows(f), l + 1, 0)
      BY <2>1 DEF Image
    <3>2. T!NextLine(Term(Rows(f), l, c)) = Term(Rows(f), l + 1, 0)
      BY <1>1, NextLineIs
    <3> QED
      BY <3>1, <3>2
  <2> QED
    BY <2>1, <2>2, <2>3 DEF ShowsAs, Con
<1>2. CASE ~ (l < ROW)
  <2>1. l = ROW
    BY <1>2, Sizes
  <2>2. PICK p \in COL * ROW .. COL * (ROW + 1) - 1 : p = COL * l
    BY <2>1, Sizes
  <2>3. PICK R \in 0 .. ROW - 1 : R = ROW - 1 /\ R + 1 = ROW
    BY Sizes
  <2>4. PICK q \in Places : q = COL * R /\ q \div COL = R /\ q % COL = 0
    BY LineBegins
  <2>5. q = p - COL
    BY <2>1, <2>2, <2>3, <2>4, Sizes
  <2>6. PICK b \in Cursors : Finish(Con(f, p, a)) = Con(Scrolled(f), p - COL, b)
    BY FinishBelow
  <2>7. Scrolled(f) \in [Cells -> Shows]
    BY ScrolledType
  <2>8. Image(Scrolled(f), q) = Term(Append(Tail(Rows(f)), T!BlankLine), ROW, 0)
    BY <2>3, <2>4, ScrolledRows DEF Image
  <2>9. Image(Scrolled(f), q) = T!NextLine(Term(Rows(f), l, c))
    BY <1>2, <2>1, <2>8, NextLineIs
  <2> QED
    BY <2>2, <2>5, <2>6, <2>7, <2>9 DEF ShowsAs, Con
<1> QED
  BY <1>1, <1>2

---------------------------------------------------------------------------
(* k places from p on show x.                                              *)
Filled(f, p, k, x) == [q \in Cells |-> IF q \in p .. p + k - 1 THEN x ELSE f[q]]

FilledLine(L, l, c, k, x) ==
  [L EXCEPT ![l] = [d \in 0 .. COL - 1 |-> IF d \in c .. c + k - 1 THEN x ELSE @[d]]]

(* Filling places keeps the memory one of characters that are shown.       *)
LEMMA FilledType ==
  ASSUME NEW f \in [Cells -> Shows], NEW p, NEW k, NEW x \in Shows
  PROVE  Filled(f, p, k, x) \in [Cells -> Shows]
BY DEF Filled

(* Filling places of a line of the memory fills that line of the picture,  *)
(* and no other.                                                           *)
LEMMA FilledRows ==
  ASSUME NEW f \in [Cells -> Shows], NEW p \in Places, NEW k \in Nat, (p % COL) + k <= COL,
         NEW x \in Shows
  PROVE  Rows(Filled(f, p, k, x)) = FilledLine(Rows(f), p \div COL + 1, p % COL, k, x)
<1>1. PICK l \in 1 .. ROW : l = p \div COL + 1 /\ l - 1 = p \div COL
  <2>1. p \div COL \in 0 .. ROW - 1
    BY LineOf
  <2> QED
    BY <2>1, Sizes
<1>2. PICK c \in 0 .. COL - 1 : c = p % COL
  BY LineOf
<1>3. p = COL * (l - 1) + c /\ p \in Nat
  BY <1>1, <1>2, LineOf
<1>4. ASSUME NEW r \in 1 .. ROW, NEW d \in 0 .. COL - 1
      PROVE  COL * (r - 1) + d \in p .. p + k - 1 <=> r = l /\ d \in c .. c + k - 1
  <2>1. PICK y \in Places : y = COL * (r - 1) + d /\ y \in Nat
    BY PlaceOf, LineOf
  <2>2. ASSUME r = l PROVE y \in p .. p + k - 1 <=> d \in c .. c + k - 1
    <3>1. PICK z \in Nat : z = COL * (r - 1)
      BY Sizes
    <3>2. y = z + d /\ p = z + c
      BY <2>1, <2>2, <3>1, <1>3
    <3> QED
      BY <3>1, <3>2
  <2>3. ASSUME y \in p .. p + k - 1 PROVE r = l
    <3>1. PICK j \in Nat : j = y - p /\ y = p + j /\ j < k
      BY <2>1, <2>3, <1>3
    <3>2. (p % COL) + j < COL
      BY <3>1, <1>2, Sizes
    <3>3. y \div COL = p \div COL
      BY <3>1, <3>2, Further, Sizes
    <3>4. r = y \div COL + 1
      BY <2>1, PlaceUnique
    <3> QED
      BY <3>3, <3>4, <1>1
  <2> QED
    BY <2>1, <2>2, <2>3
<1> DEFINE M(r) == [d \in 0 .. COL - 1 |-> IF d \in c .. c + k - 1 THEN x ELSE Rows(f)[r][d]]
<1>5. FilledLine(Rows(f), l, c, k, x)
        = [r \in 1 .. ROW |-> IF r = l THEN M(r) ELSE Rows(f)[r]]
  BY DEF FilledLine, Rows
<1>6. ASSUME NEW r \in 1 .. ROW, NEW d \in 0 .. COL - 1
      PROVE  Filled(f, p, k, x)[COL * (r - 1) + d]
               = IF r = l /\ d \in c .. c + k - 1 THEN x ELSE f[COL * (r - 1) + d]
  BY <1>4, PlaceOf DEF Filled
<1>7. ASSUME NEW r \in 1 .. ROW
      PROVE  [d \in 0 .. COL - 1 |-> Filled(f, p, k, x)[COL * (r - 1) + d]]
               = IF r = l THEN M(r) ELSE Rows(f)[r]
  <2>1. Rows(f)[r] = [d \in 0 .. COL - 1 |-> f[COL * (r - 1) + d]]
    BY DEF Rows
  <2>2. CASE r = l
    BY <1>6, <2>1, <2>2
  <2>3. CASE r # l
    BY <1>6, <2>1, <2>3
  <2> QED
    BY <2>2, <2>3
<1>8. Rows(Filled(f, p, k, x)) = FilledLine(Rows(f), l, c, k, x)
  BY <1>5, <1>7 DEF Rows
<1> QED
  BY <1>1, <1>2, <1>8

(* kbmputc's default case stores one character at crtat and goes on.       *)
LEMMA PutShownIs ==
  ASSUME NEW f \in [Cells -> Shows], NEW p \in Places, NEW x \in Shows, NEW a
  PROVE  PutShown(Con(f, p, a), x) = Finish(Con(Filled(f, p, 1, x), p + 1, a))
<1>1. p \in Nat /\ DOMAIN f = Cells
  BY LineOf
<1>2. \A q \in Cells : q \in p .. p + 1 - 1 <=> q = p
  BY <1>1, Sizes DEF Cells
<1>3. Filled(f, p, 1, x) = [q \in Cells |-> IF q = p THEN x ELSE f[q]]
  BY <1>2 DEF Filled
<1>4. ASSUME NEW w, NEW y
      PROVE  [Con(f, p, a) EXCEPT !.screen = w, !.crtat = y] = Con(w, y, a)
  <2>1. [Con(f, p, a) EXCEPT !.screen = w, !.crtat = y] \in [screen : {w}, crtat : {y}, at : {a}]
    BY DEF Con
  <2> QED
    BY <2>1, ConIs
<1>5. PutShown(Con(f, p, a), x)
        = Finish(Con([q \in DOMAIN f |-> IF q = p THEN x ELSE f[q]], p + 1, a))
  BY <1>4 DEF PutShown, Con
<1> QED
  BY <1>1, <1>3, <1>5

(* What follows the filled places: more of the line, or the next one.      *)
LEMMA FilledPart ==
  ASSUME NEW f \in [Cells -> Shows], NEW p \in Places, NEW k \in Nat,
         (p % COL) + k < COL, NEW x \in Shows, NEW a
  PROVE  /\ p + k \in Places
         /\ \E b \in Cursors :
              Finish(Con(Filled(f, p, k, x), p + k, a)) = Con(Filled(f, p, k, x), p + k, b)
         /\ Image(Filled(f, p, k, x), p + k) =
              Term(FilledLine(Rows(f), p \div COL + 1, p % COL, k, x),
                   p \div COL + 1, (p % COL) + k)
<1>1. PICK c \in 0 .. COL - 1 : c = p % COL
  BY LineOf
<1>2. c + k <= COL
  BY <1>1, Sizes
<1>3. PICK q \in Places : q = p + k /\ q \div COL = p \div COL /\ q % COL = (p % COL) + k
  BY <1>1, <1>2, Further
<1>4. Rows(Filled(f, p, k, x)) = FilledLine(Rows(f), p \div COL + 1, p % COL, k, x)
  BY <1>1, <1>2, FilledRows
<1>5. \E b \in Cursors : Finish(Con(Filled(f, p, k, x), q, a)) = Con(Filled(f, p, k, x), q, b)
  BY FinishSame
<1> QED
  BY <1>3, <1>4, <1>5 DEF Image

(* Filling a line to its end goes to the next line, which may scroll.      *)
LEMMA FilledToEnd ==
  ASSUME NEW f \in [Cells -> Shows], NEW p \in Places, NEW k \in Nat,
         (p % COL) + k = COL, NEW x \in Shows, NEW a
  PROVE  LET s == Finish(Con(Filled(f, p, k, x), p + k, a))
             L == FilledLine(Rows(f), p \div COL + 1, p % COL, k, x)
         IN  /\ ShowsAs(s, T!NextLine(Term(L, p \div COL + 1, p % COL)))
             /\ s.crtat \in {p + k, p + k - COL}
<1>1. PICK l \in 1 .. ROW : l = p \div COL + 1
  <2>1. p \div COL \in 0 .. ROW - 1
    BY LineOf
  <2> QED
    BY <2>1, Sizes
<1>2. (p % COL) + k <= COL
  BY Sizes
<1>3. p + k = COL * l
  BY <1>1, <1>2, Further
<1>4. PICK h \in [Cells -> Shows] : h = Filled(f, p, k, x)
  BY FilledType
<1>5. Rows(h) = FilledLine(Rows(f), p \div COL + 1, p % COL, k, x)
  BY <1>2, <1>4, FilledRows
<1>6. PICK s : s = Finish(Con(h, COL * l, a))
  OBVIOUS
<1>7. s = Finish(Con(Filled(f, p, k, x), p + k, a))
  BY <1>3, <1>4, <1>6
<1>8. ShowsAs(s, T!NextLine(Term(Rows(h), l, p % COL))) /\ s.crtat \in {COL * l, COL * l - COL}
  BY <1>6, NewLine
<1>9. s.crtat \in {p + k, p + k - COL}
  <2> DEFINE y == COL * l
  <2>1. p + k = y /\ s.crtat \in {y, y - COL}
    BY <1>3, <1>8
  <2>2. y \in Int /\ p \in Nat
    BY LineOf, Sizes
  <2> HIDE DEF y
  <2> QED
    BY <2>1, <2>2, Sizes
<1> QED
  BY <1>1, <1>5, <1>7, <1>8, <1>9

(* A character that is shown goes to its line and column.                  *)
LEMMA ShownIs ==
  ASSUME NEW f \in [Cells -> Shows], NEW p \in Places, NEW x \in Shows, NEW a
  PROVE  ShowsAs(PutShown(Con(f, p, a), x), T!Shown(Image(f, p), x))
<1>1. PICK l \in 1 .. ROW : l = p \div COL + 1
  <2>1. p \div COL \in 0 .. ROW - 1
    BY LineOf
  <2> QED
    BY <2>1, Sizes
<1>2. PICK c \in 0 .. COL - 1 : c = p % COL
  BY LineOf
<1>3. c + 1 <= COL /\ (c + 1 < COL <=> c # COL - 1) /\ (c + 1 = COL <=> c = COL - 1)
  BY Sizes
<1>4. PICK L : L = FilledLine(Rows(f), l, c, 1, x)
  OBVIOUS
<1>5. PICK w : w = Con(Filled(f, p, 1, x), p + 1, a) /\ PutShown(Con(f, p, a), x) = Finish(w)
  BY PutShownIs
<1>6. Image(f, p) = Term(Rows(f), l, c)
  BY <1>1, <1>2 DEF Image
<1>7. [Rows(f) EXCEPT ![l][c] = x] = L
  <2>1. Rows(f)[l] = [d \in 0 .. COL - 1 |-> f[COL * (l - 1) + d]]
    BY DEF Rows
  <2>2. [Rows(f)[l] EXCEPT ![c] = x]
          = [d \in 0 .. COL - 1 |-> IF d \in c .. c + 1 - 1 THEN x ELSE Rows(f)[l][d]]
    <3>1. \A d \in 0 .. COL - 1 : d \in c .. c + 1 - 1 <=> d = c
      BY Sizes
    <3> QED
      BY <2>1, <3>1
  <2> QED
    BY <1>4, <2>2 DEF FilledLine
<1>8. [Term(Rows(f), l, c) EXCEPT !.lines[l][c] = x] = Term(L, l, c)
  <2>1. [Term(Rows(f), l, c) EXCEPT !.lines[l][c] = x]
          = [Term(Rows(f), l, c) EXCEPT !.lines = [Rows(f) EXCEPT ![l][c] = x]]
    BY DEF Term
  <2>2. [Term(Rows(f), l, c) EXCEPT !.lines = L] \in [lines : {L}, line : {l}, column : {c}]
    BY DEF Term
  <2> QED
    BY <1>7, <2>1, <2>2, TermIs
<1>9. [Term(L, l, c) EXCEPT !.column = c + 1] = Term(L, l, c + 1)
  <2>1. [Term(L, l, c) EXCEPT !.column = c + 1] \in [lines : {L}, line : {l}, column : {c + 1}]
    BY DEF Term
  <2> QED
    BY <2>1, TermIs
<1>10. T!Shown(Term(Rows(f), l, c), x) =
         IF c = COL - 1 THEN T!NextLine(Term(L, l, c)) ELSE Term(L, l, c + 1)
  <2>1. Term(Rows(f), l, c).line = l /\ Term(Rows(f), l, c).column = c
        /\ Term(L, l, c).column = c
    BY DEF Term
  <2> QED
    BY <1>8, <1>9, <2>1 DEF T!Shown
<1>11. CASE c + 1 < COL
  <2>1. /\ p + 1 \in Places /\ \E b \in Cursors : Finish(w) = Con(Filled(f, p, 1, x), p + 1, b)
        /\ Image(Filled(f, p, 1, x), p + 1) = Term(L, l, c + 1)
    BY <1>1, <1>2, <1>4, <1>5, <1>11, FilledPart
  <2>2. Filled(f, p, 1, x) \in [Cells -> Shows]
    BY FilledType
  <2>3. T!Shown(Image(f, p), x) = Term(L, l, c + 1)
    BY <1>3, <1>6, <1>10, <1>11
  <2> QED
    BY <1>5, <2>1, <2>2, <2>3 DEF ShowsAs
<1>12. CASE c + 1 = COL
  <2>1. ShowsAs(Finish(w), T!NextLine(Term(L, l, c)))
    BY <1>1, <1>2, <1>4, <1>5, <1>12, FilledToEnd
  <2>2. T!Shown(Image(f, p), x) = T!NextLine(Term(L, l, c))
    BY <1>3, <1>6, <1>10, <1>12
  <2> QED
    BY <1>5, <2>1, <2>2
<1> QED
  BY <1>3, <1>11, <1>12, Sizes

---------------------------------------------------------------------------
(* The blanks that a tabulator at p stands for.                            *)
ToNextStop(p) == Stop - (p % Stop)

(* The next stop is on the same line or is its end, since COL % Stop = 0,  *)
(* and there is none before it.                                            *)
LEMMA StopIs ==
  ASSUME NEW p \in Places
  PROVE  /\ ToNextStop(p) \in 1 .. Stop
         /\ (p % COL) + ToNextStop(p) <= COL
         /\ (p % COL) - ((p % COL) % Stop) = (p % COL) + ToNextStop(p) - Stop
         /\ \A k \in 1 .. ToNextStop(p) - 1 : (p + k) % Stop # 0
         /\ (p + ToNextStop(p)) % Stop = 0
         /\ (p + ToNextStop(p) - COL) % Stop = 0
<1>1. PICK w \in Nat : COL = Stop * w
  <2>1. COL \div Stop \in Nat /\ COL = Stop * (COL \div Stop) + (COL % Stop)
    BY Sizes, DivMod
  <2>2. PICK w \in Nat : w = COL \div Stop
    BY <2>1
  <2>3. COL = Stop * w + 0 /\ Stop * w \in Nat
    BY <2>1, <2>2, Sizes
  <2> QED
    BY <2>3
<1>2. PICK c \in 0 .. COL - 1 : c = p % COL
  BY LineOf
<1>3. PICK q \in Nat : q = p \div COL
  BY LineOf
<1>4. p = COL * q + c /\ p \in Nat /\ c \in Nat
  BY <1>2, <1>3, LineOf
<1>5. PICK u \in Nat : u = c \div Stop
  BY <1>4, Sizes, DivMod
<1>6. PICK v \in 0 .. Stop - 1 : v = c % Stop
  BY <1>4, Sizes, DivMod
<1>7. c = Stop * u + v
  BY <1>4, <1>5, <1>6, Sizes, DivMod
<1>8. PICK z \in Nat : z = w * q
  OBVIOUS
<1>9. PICK y \in Nat : y = z + u
  OBVIOUS
<1>10. p = Stop * y + v
  <2>1. COL * q = Stop * z
    BY <1>1, <1>8, Sizes
  <2>2. Stop * y = Stop * z + Stop * u
    BY <1>9, Sizes
  <2>3. Stop * z \in Nat /\ Stop * u \in Nat
    BY Sizes
  <2> QED
    BY <1>4, <1>7, <2>1, <2>2, <2>3
<1>11. p % Stop = v
  BY <1>10, Sizes, DivModUnique
<1>12. PICK n \in 1 .. Stop : n = Stop - v /\ n = ToNextStop(p)
  BY <1>11, Sizes DEF ToNextStop
<1>13. c + n = Stop * u + Stop /\ Stop * u \in Nat
  <2>1. Stop * u \in Nat
    BY Sizes
  <2> QED
    BY <1>7, <1>12, <2>1, Sizes
<1>14. c + n <= COL
  <2>1. u < w
    <3>1. ASSUME w <= u PROVE FALSE
      <4>1. Stop * w <= Stop * u
        <5>1. CASE w = u
          BY <5>1, Sizes
        <5>2. CASE w < u
          <6>1. Stop * w + Stop <= Stop * u /\ Stop * w \in Nat
            BY <5>2, Sizes, MulLess
          <6> QED
            BY <6>1, <1>13, Sizes
        <5> QED
          BY <3>1, <5>1, <5>2
      <4>2. c < COL /\ c >= Stop * u /\ COL \in Nat
        BY <1>7, <1>13, Sizes
      <4>3. COL <= Stop * u
        BY <4>1, <1>1
      <4> QED
        BY <4>2, <4>3, <1>13
    <3> QED
      BY <3>1
  <2>2. Stop * u + Stop <= COL
    BY <2>1, <1>1, Sizes, MulLess
  <2> QED
    BY <1>13, <2>2
<1>15. c - (c % Stop) = c + n - Stop
  BY <1>6, <1>12, <1>4, Sizes
<1>16. ASSUME NEW k \in 1 .. n - 1 PROVE (p + k) % Stop # 0
  <2>1. PICK d \in 0 .. Stop - 1 : d = v + k /\ d # 0
    BY <1>12, Sizes
  <2>2. (Stop * y + d) % Stop = d
    BY Sizes, DivModUnique
  <2>3. Stop * y \in Nat
    BY Sizes
  <2>4. p + k = Stop * y + d
    BY <2>1, <2>3, <1>10
  <2> QED
    BY <2>1, <2>2, <2>4
<1>17. (p + n) % Stop = 0
  <2>1. PICK d \in Nat : d = y + 1
    OBVIOUS
  <2>2. (Stop * d + 0) % Stop = 0
    BY Sizes, DivModUnique
  <2>3. Stop * d = Stop * y + Stop /\ Stop * y \in Nat /\ Stop * d \in Nat
    BY <2>1, Sizes
  <2>4. p + n = Stop * d + 0
    BY <2>3, <1>10, <1>12, Sizes
  <2> QED
    BY <2>2, <2>4
<1>18. (p + n - COL) % Stop = 0
  <2>1. PICK d \in Int : d = y + 1 - w
    OBVIOUS
  <2>2. (Stop * d) % Stop = 0
    BY Sizes
  <2>3. Stop * d = Stop * y + Stop - Stop * w
    BY <2>1, Sizes
  <2>4. Stop * y \in Nat /\ Stop * w \in Nat
    BY Sizes
  <2>5. p + n - COL = Stop * d
    BY <2>3, <2>4, <1>1, <1>10, <1>12, Sizes
  <2> QED
    BY <2>2, <2>5
<1> QED
  BY <1>2, <1>12, <1>14, <1>15, <1>16, <1>17, <1>18

(* A set of naturals that is not empty has a least element: among its      *)
(* initial segments 0..x one is least for strict inclusion.                *)
LEMMA LeastExists ==
  ASSUME NEW S \in SUBSET Nat, S # {}
  PROVE  \E x \in S : \A y \in S : x <= y
<1> DEFINE I == {0 .. x : x \in S}
           R == StrictSubsetOrdering(Nat)
<1>1. I \subseteq FiniteSubsetsOf(Nat) /\ I # {}
  <2>1. ASSUME NEW x \in S PROVE 0 .. x \in FiniteSubsetsOf(Nat)
    <3>1. x \in Int /\ 0 \in Int /\ 0 .. x \in SUBSET Nat
      OBVIOUS
    <3> QED
      BY <3>1, FS_Interval DEF FiniteSubsetsOf
  <2> QED
    BY <2>1
<1>2. PICK t \in I : \A u \in I : ~ (<<u, t>> \in R)
  <2> HIDE DEF I, R
  <2>1. IsWellFoundedOn(R, FiniteSubsetsOf(Nat))
    BY FS_StrictSubsetOrderingWellFounded DEF R
  <2> QED
    BY <1>1, <2>1, WFMin
<1>3. PICK x \in S : t = 0 .. x
  OBVIOUS
<1>4. ASSUME NEW y \in S, y < x PROVE FALSE
  <2>1. 0 .. y \in I /\ 0 .. y \in SUBSET Nat /\ t \in SUBSET Nat
    BY <1>3
  <2>2. 0 .. y \subseteq t /\ 0 .. y # t
    BY <1>3, <1>4
  <2> QED
    BY <2>1, <2>2, <1>2 DEF StrictSubsetOrdering
<1> QED
  BY <1>4

(* A function that satisfies the equations of After, for n blanks.         *)
AfterBlanks(s, n, g) ==
  g = [k \in 0 .. n |-> IF k = 0 THEN s ELSE PutShown(g[k - 1], Blank)]

(* Such a function exists for any n: one for n - 1 is extended by one more *)
(* blank.                                                                  *)
LEMMA AfterBlanksExists ==
  ASSUME NEW s, NEW n \in Nat
  PROVE  \E g : AfterBlanks(s, n, g)
<1> DEFINE Bad == {m \in Nat : ~ \E g : AfterBlanks(s, m, g)}
<1> SUFFICES ASSUME Bad # {} PROVE FALSE
  OBVIOUS
<1>1. PICK m \in Bad : \A y \in Bad : m <= y
  BY LeastExists
<1>2. CASE m = 0
  <2> DEFINE g == [k \in 0 .. 0 |-> s]
  <2>1. AfterBlanks(s, 0, g)
    BY DEF AfterBlanks
  <2> QED
    BY <1>2, <2>1
<1>3. CASE m # 0
  <2>1. m - 1 \in Nat /\ m - 1 \notin Bad
    BY <1>1, <1>3
  <2>2. PICK e : AfterBlanks(s, m - 1, e)
    BY <2>1
  <2> DEFINE V(h, k) == IF k = 0 THEN s ELSE PutShown(h[k - 1], Blank)
             g == [k \in 0 .. m |-> V(e, k)]
  <2>3. ASSUME NEW k \in 0 .. m - 1 PROVE e[k] = V(e, k) /\ g[k] = e[k]
    BY <2>2, <2>1 DEF AfterBlanks
  <2>4. ASSUME NEW k \in 0 .. m PROVE V(e, k) = V(g, k)
    <3>1. k # 0 => k - 1 \in 0 .. m - 1
      BY <2>1
    <3> QED
      BY <3>1, <2>3
  <2>5. g = [k \in 0 .. m |-> V(g, k)]
    BY <2>4
  <2>6. AfterBlanks(s, m, g)
    BY <2>5 DEF AfterBlanks
  <2> QED
    BY <2>6
<1> QED
  BY <1>2, <1>3

(* k blanks and one more are k + 1.                                        *)
LEMMA FilledOnce ==
  ASSUME NEW f \in [Cells -> Shows], NEW p \in Places, NEW k \in Nat, NEW x
  PROVE  /\ Filled(f, p, 0, x) = f
         /\ Filled(Filled(f, p, k, x), p + k, 1, x) = Filled(f, p, k + 1, x)
<1>1. p \in Nat
  BY LineOf
<1>2. ASSUME NEW q \in Cells
      PROVE  /\ q \notin p .. p + 0 - 1
             /\ q \in p .. p + (k + 1) - 1 <=> q \in p .. p + k - 1 \/ q \in p + k .. p + k + 1 - 1
  BY <1>1, Sizes DEF Cells
<1>3. Filled(f, p, 0, x) = f
  BY <1>2 DEF Filled
<1>4. Filled(Filled(f, p, k, x), p + k, 1, x) = Filled(f, p, k + 1, x)
  BY <1>2 DEF Filled
<1> QED
  BY <1>3, <1>4

(* Before the stop, k blanks fill k places of the line.                    *)
LEMMA AfterBlanksIs ==
  ASSUME NEW f \in [Cells -> Shows], NEW p \in Places, NEW a,
         NEW g, AfterBlanks(Con(f, p, a), Stop, g),
         NEW k \in 0 .. ToNextStop(p) - 1
  PROVE  \E b : g[k] = Con(Filled(f, p, k, Blank), p + k, b)
<1> DEFINE Good(j) == \E b : g[j] = Con(Filled(f, p, j, Blank), p + j, b)
           n == ToNextStop(p)
           Bad == {j \in 0 .. n - 1 : ~ Good(j)}
<1>1. n \in 1 .. Stop /\ (p % COL) + n <= COL
  BY StopIs
<1>2. p \in Nat /\ p % COL \in 0 .. COL - 1
  BY LineOf
<1> HIDE DEF n
<1> SUFFICES ASSUME Bad # {} PROVE FALSE
  BY DEF n
<1>3. PICK j \in Bad : \A y \in Bad : j <= y
  <2>1. Bad \in SUBSET Nat
    BY <1>1, Sizes
  <2> QED
    BY <2>1, LeastExists
<1>4. Good(0)
  <2>1. g[0] = Con(f, p, a)
    BY Sizes DEF AfterBlanks
  <2> QED
    BY <1>2, <2>1, FilledOnce
<1>5. PICK i \in Nat : i = j - 1 /\ j = i + 1
  <2>1. j # 0
    BY <1>3, <1>4
  <2> QED
    BY <1>1, <2>1, Sizes
<1>6. Good(i)
  <2>1. i \in 0 .. n - 1 /\ ~ (j <= i)
    BY <1>1, <1>5, Sizes
  <2> QED
    BY <1>3, <2>1
<1>7. PICK b : g[i] = Con(Filled(f, p, i, Blank), p + i, b)
  BY <1>6
<1>8. g[j] = PutShown(g[i], Blank)
  <2>1. j \in 0 .. Stop /\ j # 0
    BY <1>1, <1>5, Sizes
  <2> QED
    BY <1>5, <2>1 DEF AfterBlanks
<1>9. p + i \in Places /\ (p % COL) + j < COL
  <2>1. (p % COL) + i < COL /\ (p % COL) + i <= COL /\ (p % COL) + j < COL
    BY <1>1, <1>2, <1>5, Sizes
  <2> QED
    BY <2>1, Further
<1>10. g[j] = Finish(Con(Filled(f, p, j, Blank), p + j, b))
  <2>1. PICK e \in [Cells -> Shows] : e = Filled(f, p, i, Blank)
    BY FilledType DEF Shows
  <2>2. PICK q \in Places : q = p + i
    BY <1>9
  <2>3. PutShown(Con(e, q, b), Blank) = Finish(Con(Filled(e, q, 1, Blank), q + 1, b))
    BY PutShownIs DEF Shows
  <2>4. Filled(e, q, 1, Blank) = Filled(f, p, j, Blank)
    BY <2>1, <2>2, <1>5, FilledOnce
  <2>5. q + 1 = p + j
    BY <1>2, <1>5, <2>2
  <2> QED
    BY <1>7, <1>8, <2>1, <2>2, <2>3, <2>4, <2>5
<1>11. Good(j)
  <2>1. \E d \in Cursors :
          Finish(Con(Filled(f, p, j, Blank), p + j, b)) = Con(Filled(f, p, j, Blank), p + j, d)
    <3>1. j \in Nat /\ Blank \in Shows
      BY <1>5 DEF Shows
    <3>2. (p % COL) + j < COL
      BY <1>9
    <3> HIDE DEF Good, Bad
    <3> QED
      BY <3>1, <3>2, FilledPart
  <2> QED
    BY <1>10, <2>1
<1> QED
  BY <1>3, <1>11

(* The terminal's tabulator fills the line by ToNextStop(p) blanks, and    *)
(* takes the next line when that is its end.                               *)
LEMMA ToStopIs ==
  ASSUME NEW f \in [Cells -> Shows], NEW p \in Places
  PROVE  LET n == ToNextStop(p)
             l == p \div COL + 1
             c == p % COL
             L == FilledLine(Rows(f), l, c, n, Blank)
         IN  /\ c + n = COL => T!ToStop(Image(f, p)) = T!NextLine(Term(L, l, c))
             /\ c + n # COL => T!ToStop(Image(f, p)) = Term(L, l, c + n)
<1>1. PICK l \in 1 .. ROW : l = p \div COL + 1
  <2>1. p \div COL \in 0 .. ROW - 1
    BY LineOf
  <2> QED
    BY <2>1, Sizes
<1>2. PICK c \in 0 .. COL - 1 : c = p % COL
  BY LineOf
<1>3. PICK n \in 1 .. Stop : n = ToNextStop(p)
  BY StopIs
<1>4. PICK L : L = FilledLine(Rows(f), l, c, n, Blank)
  OBVIOUS
<1>5. c - (c % Stop) + Stop = c + n
  <2>1. c - (c % Stop) = c + n - Stop
    BY <1>2, <1>3, StopIs
  <2>2. c - (c % Stop) \in Int /\ c \in Int
    BY Sizes
  <2> QED
    BY <2>1, <2>2, Sizes
<1>6. PICK t : t = Term(Rows(f), l, c)
  OBVIOUS
<1>7. t.column = c /\ t.line = l /\ t.lines = Rows(f)
  BY <1>6 DEF Term
<1> DEFINE u == [t EXCEPT !.lines[t.line] =
                   [d \in 0 .. COL - 1 |->
                      IF d \in t.column .. (t.column - (t.column % Stop) + Stop) - 1
                      THEN T!Blank ELSE @[d]]]
<1>8. u = Term(L, l, c)
  <2>1. u = [t EXCEPT !.lines = L]
    <3> DEFINE e == [d \in 0 .. COL - 1 |->
                      IF d \in t.column .. (t.column - (t.column % Stop) + Stop) - 1
                      THEN T!Blank ELSE t.lines[t.line][d]]
    <3>1. u = [t EXCEPT !.lines = [t.lines EXCEPT ![t.line] = e]]
      OBVIOUS
    <3>2. e = [d \in 0 .. COL - 1 |-> IF d \in c .. (c + n) - 1 THEN Blank ELSE Rows(f)[l][d]]
      BY <1>5, <1>7 DEF T!Blank, Blank
    <3>3. c + n - 1 = (c + n) - 1
      BY Sizes
    <3>4. L = [Rows(f) EXCEPT ![l] = e]
      BY <1>4, <3>2, <3>3 DEF FilledLine
    <3> HIDE DEF e, u
    <3> QED
      BY <3>1, <3>4, <1>7
  <2>2. [t EXCEPT !.lines = L] \in [lines : {L}, line : {l}, column : {c}]
    BY <1>6 DEF Term
  <2> QED
    BY <2>1, <2>2, TermIs
<1>9. T!ToStop(t) = IF c + n = COL THEN T!NextLine(u) ELSE [u EXCEPT !.column = c + n]
  BY <1>5, <1>7 DEF T!ToStop
<1> HIDE DEF u
<1>10. [Term(L, l, c) EXCEPT !.column = c + n] = Term(L, l, c + n)
  <2>1. [Term(L, l, c) EXCEPT !.column = c + n] \in [lines : {L}, line : {l}, column : {c + n}]
    BY DEF Term
  <2> QED
    BY <2>1, TermIs
<1>11. t = Image(f, p)
  BY <1>1, <1>2, <1>6 DEF Image
<1> QED
  BY <1>1, <1>2, <1>3, <1>4, <1>8, <1>9, <1>10, <1>11

(* kbmputc's tabulator loop, which puts blanks one at a time, each of      *)
(* which may scroll, shows what the terminal's tabulator does.             *)
LEMMA TabIs ==
  ASSUME NEW f \in [Cells -> Shows], NEW p \in Places, NEW a
  PROVE  ShowsAs(PutTab(Con(f, p, a)), T!ToStop(Image(f, p)))
<1> DEFINE s == Con(f, p, a)
           After == CHOOSE g : AfterBlanks(s, Stop, g)
           AtStop(k) == After[k].crtat % Stop = 0
           k0 == CHOOSE k \in 1 .. Stop : AtStop(k) /\ \A j \in 1 .. k - 1 : ~ AtStop(j)
<1>1. PutTab(s) = Finish(After[k0])
  BY DEF PutTab, AfterBlanks
<1>2. AfterBlanks(s, Stop, After)
  <2>1. \E g : AfterBlanks(s, Stop, g)
    BY AfterBlanksExists, Sizes
  <2> QED
    BY <2>1
<1> HIDE DEF After
<1>3. PICK n \in 1 .. Stop : n = ToNextStop(p)
  BY StopIs
<1>4. p \in Nat /\ p % COL \in 0 .. COL - 1 /\ (p % COL) + n <= COL
  BY <1>3, StopIs, LineOf
<1>5. Blank \in Shows
  BY DEF Shows
<1>6. ASSUME NEW k \in 0 .. n - 1
      PROVE  \E b : After[k] = Con(Filled(f, p, k, Blank), p + k, b)
  BY <1>2, <1>3, AfterBlanksIs
<1>7. PICK i \in Nat : i = n - 1 /\ n = i + 1
  BY <1>3
<1>8. PICK b : After[n] = Finish(Con(Filled(f, p, n, Blank), p + n, b))
  <2>1. PICK b : After[i] = Con(Filled(f, p, i, Blank), p + i, b)
    <3>1. i \in 0 .. n - 1
      BY <1>3, <1>7, Sizes
    <3> QED
      BY <3>1, <1>6
  <2>2. After[n] = PutShown(After[i], Blank)
    <3>1. n \in 0 .. Stop /\ n # 0
      BY <1>3, Sizes
    <3> QED
      BY <1>2, <1>7, <3>1 DEF AfterBlanks
  <2>3. p + i \in Places
    <3>1. (p % COL) + i < COL /\ (p % COL) + i <= COL
      BY <1>3, <1>4, <1>7, Sizes
    <3> QED
      BY <3>1, Further
  <2>4. PICK e \in [Cells -> Shows] : e = Filled(f, p, i, Blank)
    BY <1>5, FilledType
  <2>5. PICK q \in Places : q = p + i
    BY <2>3
  <2>6. PutShown(Con(e, q, b), Blank) = Finish(Con(Filled(e, q, 1, Blank), q + 1, b))
    BY <1>5, PutShownIs
  <2>7. Filled(e, q, 1, Blank) = Filled(f, p, n, Blank)
    BY <2>4, <2>5, <1>7, FilledOnce
  <2>8. q + 1 = p + n
    BY <1>4, <1>7, <2>5
  <2> QED
    BY <2>1, <2>2, <2>4, <2>5, <2>6, <2>7, <2>8
<1>9. /\ ShowsAs(After[n], T!ToStop(Image(f, p)))
      /\ After[n].crtat \in {p + n, p + n - COL}
  <2> DEFINE L == FilledLine(Rows(f), p \div COL + 1, p % COL, n, Blank)
  <2>1. CASE (p % COL) + n = COL
    <3>1. /\ ShowsAs(After[n], T!NextLine(Term(L, p \div COL + 1, p % COL)))
          /\ After[n].crtat \in {p + n, p + n - COL}
      BY <1>5, <1>8, <2>1, FilledToEnd
    <3>2. T!ToStop(Image(f, p)) = T!NextLine(Term(L, p \div COL + 1, p % COL))
      BY <1>3, <2>1, ToStopIs
    <3> QED
      BY <3>1, <3>2
  <2>2. CASE (p % COL) + n # COL
    <3>1. (p % COL) + n < COL
      BY <1>3, <1>4, <2>2, Sizes
    <3>2. n \in Nat
      OBVIOUS
    <3>5. /\ p + n \in Places
          /\ \E d \in Cursors : Finish(Con(Filled(f, p, n, Blank), p + n, b))
                      = Con(Filled(f, p, n, Blank), p + n, d)
      <4>1. p + n \in Places
        BY <3>1, <3>2, <1>5, FilledPart
      <4>2. PICK y \in Places : y = p + n
        BY <4>1
      <4>3. \E d \in Cursors :
              Finish(Con(Filled(f, p, n, Blank), y, b)) = Con(Filled(f, p, n, Blank), y, d)
        BY FinishSame
      <4> QED
        BY <4>1, <4>2, <4>3
    <3>6. Image(Filled(f, p, n, Blank), p + n) = Term(L, p \div COL + 1, (p % COL) + n)
      <4> HIDE DEF AtStop, k0
      <4> QED
        BY <1>5, <3>1, <3>2, FilledPart
    <3>3. T!ToStop(Image(f, p)) = Term(L, p \div COL + 1, (p % COL) + n)
      BY <1>3, <2>2, ToStopIs
    <3>4. Filled(f, p, n, Blank) \in [Cells -> Shows]
      BY <1>5, FilledType
    <3> QED
      BY <1>8, <3>3, <3>4, <3>5, <3>6 DEF ShowsAs, Con
  <2> QED
    BY <2>1, <2>2
<1>10. AtStop(n)
  <2>2. (p + n) % Stop = 0 /\ (p + n - COL) % Stop = 0
    BY <1>3, StopIs
  <2> QED
    BY <1>9, <2>2
<1>11. ASSUME NEW k \in 1 .. n - 1 PROVE ~ AtStop(k)
  <2>1. k \in 0 .. n - 1
    BY <1>3
  <2>2. After[k].crtat = p + k
    <3>1. PICK d : After[k] = Con(Filled(f, p, k, Blank), p + k, d)
      BY <2>1, <1>6
    <3> QED
      BY <3>1 DEF Con
  <2>3. (p + k) % Stop # 0
    BY <1>3, StopIs
  <2> QED
    BY <2>2, <2>3
<1>12. k0 = n
  <2> HIDE DEF AtStop
  <2>1. PICK k \in 1 .. Stop : k = k0 /\ AtStop(k) /\ \A j \in 1 .. k - 1 : ~ AtStop(j)
    BY <1>10, <1>11
  <2>2. ~ (k < n) /\ ~ (n < k)
    <3>1. k < n => k \in 1 .. n - 1
      BY <1>3, Sizes
    <3>2. n < k => n \in 1 .. k - 1
      BY <1>3, Sizes
    <3> QED
      BY <2>1, <1>10, <1>11, <3>1, <3>2
  <2> QED
    BY <2>1, <2>2, <1>3, Sizes
<1>13. ShowsAs(Finish(After[n]), T!ToStop(Image(f, p)))
  BY <1>9, FinishSame DEF ShowsAs
<1> QED
  BY <1>1, <1>12, <1>13

---------------------------------------------------------------------------
(* The places that a return and a new line compute with a remainder are    *)
(* the starts of this line and of the next.                                *)
LEMMA LineStartIs ==
  ASSUME NEW p \in Places
  PROVE  /\ LineStart(p) = COL * (p \div COL)
         /\ LineStart(p + COL) = COL * (p \div COL + 1)
<1>1. PICK q \in 0 .. ROW - 1 : q = p \div COL
  BY LineOf
<1>2. PICK c \in 0 .. COL - 1 : c = p % COL
  BY LineOf
<1>3. p = COL * q + c
  BY <1>1, <1>2, LineOf
<1>4. PICK d \in Nat : d = q + 1
  BY Sizes
<1>5. COL * q \in Nat /\ COL * d \in Nat /\ COL * d = COL * q + COL
  BY <1>4, Sizes
<1>6. LineStart(p) = COL * q
  BY <1>2, <1>3, <1>5, Sizes DEF LineStart
<1>7. p + COL = COL * d + c
  BY <1>3, <1>5, Sizes
<1>8. (COL * d + c) % COL = c
  BY Sizes, DivModUnique
<1>9. LineStart(p + COL) = COL * d
  <2>1. LineStart(p + COL) = (COL * d + c) - c
    BY <1>7, <1>8 DEF LineStart
  <2> QED
    BY <2>1, <1>5, Sizes
<1> QED
  BY <1>1, <1>4, <1>6, <1>9

(* Only the place changes.                                                 *)
LEMMA CrtatSet ==
  ASSUME NEW f, NEW p, NEW a, NEW q
  PROVE  [Con(f, p, a) EXCEPT !.crtat = q] = Con(f, q, a)
<1>1. [Con(f, p, a) EXCEPT !.crtat = q] \in [screen : {f}, crtat : {q}, at : {a}]
  BY DEF Con
<1> QED
  BY <1>1, ConIs

(* A new line, and the start of the line.                                  *)
LEMMA FeedIs ==
  ASSUME NEW f \in [Cells -> Shows], NEW p \in Places, NEW a
  PROVE  ShowsAs(Finish(Con(f, LineStart(p + COL), a)), T!NextLine(Image(f, p)))
<1>1. PICK l \in 1 .. ROW : l = p \div COL + 1
  <2>1. p \div COL \in 0 .. ROW - 1
    BY LineOf
  <2> QED
    BY <2>1, Sizes
<1>2. LineStart(p + COL) = COL * l
  BY <1>1, LineStartIs
<1>3. Image(f, p) = Term(Rows(f), l, p % COL)
  BY <1>1 DEF Image
<1>4. ShowsAs(Finish(Con(f, COL * l, a)), T!NextLine(Term(Rows(f), l, p % COL)))
  BY NewLine
<1> QED
  BY <1>2, <1>3, <1>4

(* A return shows what the terminal's does.                                *)
LEMMA ReturnIs ==
  ASSUME NEW f \in [Cells -> Shows], NEW p \in Places, NEW a
  PROVE  ShowsAs(Finish(Con(f, LineStart(p), a)), [Image(f, p) EXCEPT !.column = 0])
<1>1. PICK r \in 0 .. ROW - 1 : r = p \div COL
  BY LineOf
<1>2. PICK q \in Places : q = COL * r /\ q \div COL = r /\ q % COL = 0
  BY LineBegins
<1>3. LineStart(p) = q
  BY <1>1, <1>2, LineStartIs
<1>4. \E b \in Cursors : Finish(Con(f, q, a)) = Con(f, q, b)
  BY FinishSame
<1>5. PICK L : L = Rows(f)
  OBVIOUS
<1>6. Image(f, q) = Term(L, r + 1, 0)
  BY <1>2, <1>5 DEF Image
<1>7. PICK c : Image(f, p) = Term(L, r + 1, c)
  BY <1>1, <1>5 DEF Image
<1>8. [Term(L, r + 1, c) EXCEPT !.column = 0] = Term(L, r + 1, 0)
  <2>1. [Term(L, r + 1, c) EXCEPT !.column = 0] \in [lines : {L}, line : {r + 1}, column : {0}]
    BY DEF Term
  <2> QED
    BY <2>1, TermIs
<1> QED
  BY <1>2, <1>3, <1>4, <1>6, <1>7, <1>8 DEF ShowsAs

(* What a step of the terminal makes of t.                                 *)
Stepped(t, u) ==
  \/ \E x \in Chars : u = T!Shown(t, x)
  \/ u = T!NextLine(t)
  \/ u = [t EXCEPT !.column = 0]
  \/ u = T!ToStop(t)

(* Every character that kbmputc gets, apart from the backspace, shows what *)
(* one step of the terminal does.                                          *)
LEMMA PutIs ==
  ASSUME BS \notin Controls, NEW c \in Chars \cup Controls, c # 0,
         NEW s, NEW f \in [Cells -> Shows], NEW p \in Places, NEW a, Probe(s) = Con(f, p, a)
  PROVE  \E t : ShowsAs(kbmputc(s, c), t) /\ Stepped(Image(f, p), t)
<1>1. c \in {TAB, LF, CR} \/ (c \in Chars /\ c \notin {0, TAB, BS, LF, CR})
  <2>1. c \in Controls => c \in {0, BS, TAB, LF, CR} /\ c # BS
    BY ConsoleAssumption
  <2>2. c \in Chars => c \notin {0, BS, TAB, LF, CR}
    BY ConsoleAssumption
  <2> QED
    BY <2>1, <2>2
<1>2. 0 # TAB /\ TAB # BS /\ TAB # LF /\ TAB # CR /\ BS # LF /\ BS # CR /\ LF # CR
  BY DEF TAB, BS, LF, CR
<1>3. CASE c = TAB
  <2>1. kbmputc(s, c) = PutTab(Con(f, p, a))
    BY <1>2, <1>3 DEF kbmputc
  <2> QED
    BY <2>1, TabIs DEF Stepped
<1>4. CASE c = LF
  <2>1. kbmputc(s, c) = Finish([Con(f, p, a) EXCEPT !.crtat = LineStart(p + COL)])
    BY <1>2, <1>4 DEF kbmputc, Con
  <2>2. kbmputc(s, c) = Finish(Con(f, LineStart(p + COL), a))
    BY <2>1, CrtatSet
  <2> QED
    BY <2>2, FeedIs DEF Stepped
<1>5. CASE c = CR
  <2>1. kbmputc(s, c) = Finish([Con(f, p, a) EXCEPT !.crtat = LineStart(p)])
    BY <1>2, <1>5 DEF kbmputc, Con
  <2>2. kbmputc(s, c) = Finish(Con(f, LineStart(p), a))
    BY <2>1, CrtatSet
  <2> QED
    BY <2>2, ReturnIs DEF Stepped
<1>6. CASE c \in Chars /\ c \notin {0, TAB, BS, LF, CR}
  <2>1. kbmputc(s, c) = PutShown(Con(f, p, a), c)
    BY <1>6 DEF kbmputc
  <2>2. c \in Shows
    BY <1>6 DEF Shows
  <2> QED
    BY <1>6, <2>1, <2>2, ShownIs DEF Stepped
<1> QED
  BY <1>1, <1>3, <1>4, <1>5, <1>6

---------------------------------------------------------------------------
(* The inductive invariant.                                                *)
ConsoleInv ==
  /\ screen \in [Cells -> Shows]
  /\ crtat \in Places \/ (crtat = NoPlace /\ at \in Nat \ {COL * ROW})

(* The place before the first character is none of the screen.             *)
LEMMA NoPlaceIs == NoPlace \notin Places
BY Sizes DEF NoPlace, Places

(* The first character clears the display from the cursor on, which is     *)
(* what the picture says of a console that was not used yet.               *)
LEMMA ProbeIs ==
  ASSUME ConsoleInv
  PROVE  /\ Begin \in Places
         /\ \E f \in [Cells -> Shows] :
              Probe(Con(screen, crtat, at)) = Con(f, Begin, at) /\ Rows(f) = Lines
<1>1. CASE crtat \in Places
  <2>1. Begin = crtat /\ Probe(Con(screen, crtat, at)) = Con(screen, crtat, at)
    BY <1>1, NoPlaceIs DEF Begin, Probe, Con
  <2>2. Rows(screen) = Lines
    BY <1>1, NoPlaceIs DEF Rows, Lines, Cell
  <2> QED
    BY <1>1, <2>1, <2>2 DEF ConsoleInv
<1>2. CASE crtat = NoPlace /\ at \in Nat \ {COL * ROW}
  <2>1. PICK p \in Places : p = Begin /\ p = IF at <= COL * ROW THEN at ELSE 0
    BY <1>2, Sizes DEF Begin, Places
  <2>2. p \in Nat
    BY LineOf
  <2> DEFINE f == [q \in Cells |-> IF q \in p .. COL * ROW - 1 THEN Blank ELSE screen[q]]
  <2>3. f \in [Cells -> Shows] /\ DOMAIN screen = Cells
    BY DEF ConsoleInv, Shows
  <2>4. Probe(Con(screen, crtat, at)) = [Con(screen, crtat, at) EXCEPT !.crtat = p, !.screen = f]
    BY <1>2, <2>1, <2>3 DEF Probe, Con
  <2>5. ASSUME NEW r \in 1 .. ROW, NEW c \in 0 .. COL - 1
        PROVE  f[COL * (r - 1) + c] = Cell(COL * (r - 1) + c)
    <3>1. PICK q \in Places : q = COL * (r - 1) + c /\ q \in Cells
      BY PlaceOf
    <3>2. q \in Nat /\ q < COL * ROW
      BY Sizes DEF Places
    <3>3. q \in p .. COL * ROW - 1 <=> q >= Begin
      BY <2>1, <2>2, <3>2, Sizes
    <3> QED
      BY <3>1, <3>3, <1>2 DEF Cell
  <2>6. Rows(f) = Lines
    <3> HIDE DEF f
    <3> QED
      BY <2>5 DEF Rows, Lines
  <2> HIDE DEF f
  <2>7. Probe(Con(screen, crtat, at)) = Con(f, p, at)
    <3>1. Probe(Con(screen, crtat, at)) \in [screen : {f}, crtat : {p}, at : {at}]
      BY <2>4 DEF Con
    <3> QED
      BY <3>1, ConIs
  <2> QED
    BY <2>1, <2>3, <2>6, <2>7
<1> QED
  BY <1>1, <1>2 DEF ConsoleInv

(* One call of kbmputc keeps the invariant and is a step of the terminal,  *)
(* or a stutter for the character 0.                                       *)
LEMMA PutStep ==
  ASSUME BS \notin Controls, ConsoleInv, NEW c \in Chars \cup Controls, Put(c)
  PROVE  ConsoleInv' /\ (T!TNext \/ UNCHANGED T!tvars)
<1>1. PICK s : s = Con(screen, crtat, at)
  OBVIOUS
<1>2. screen' = kbmputc(s, c).screen /\ crtat' = kbmputc(s, c).crtat /\ at' = kbmputc(s, c).at
  BY <1>1 DEF Put, Con
<1>3. CASE c = 0
  <2>1. kbmputc(s, c) = s
    BY <1>3 DEF kbmputc, TAB, BS, LF, CR
  <2>2. screen' = screen /\ crtat' = crtat /\ at' = at
    BY <1>1, <1>2, <2>1 DEF Con
  <2> QED
    BY <2>2 DEF ConsoleInv, T!tvars, Lines, Cell, Begin
<1>4. CASE c # 0
  <2>1. PICK p \in Places : p = Begin
    BY ProbeIs
  <2>2. PICK f \in [Cells -> Shows] : Probe(s) = Con(f, p, at) /\ Rows(f) = Lines
    BY <1>1, <2>1, ProbeIs
  <2>3. PICK g \in [Cells -> Shows], q \in Places, b \in Cursors :
          kbmputc(s, c) = Con(g, q, b) /\ Stepped(Image(f, p), Image(g, q))
    <3>1. PICK t : ShowsAs(kbmputc(s, c), t) /\ Stepped(Image(f, p), t)
      BY <1>4, <2>2, PutIs
    <3> QED
      BY <3>1 DEF ShowsAs
  <2>4. screen' = g /\ crtat' = q
    BY <1>2, <2>3 DEF Con
  <2>5. ConsoleInv'
    <3>1. screen' \in [Cells -> Shows] /\ crtat' \in Places
      BY <2>4
    <3> QED
      BY <3>1 DEF ConsoleInv
  <2>6. Begin' = q /\ Lines' = Rows(g)
    BY <2>4, NoPlaceIs DEF Begin, Lines, Cell, Rows
  <2>7. T!Become(Image(g, q))
    BY <2>6 DEF T!Become, Image, Term
  <2>8. T!Now = Image(f, p)
    BY <2>1, <2>2 DEF T!Now, Image, Term
  <2>9. T!TNext
    BY <2>3, <2>7, <2>8 DEF Stepped, T!TNext
  <2> QED
    BY <2>5, <2>9
<1> QED
  BY <1>3, <1>4

(* At first the console satisfies the invariant and shows a terminal,      *)
(* whatever the memory of the screen holds.                                *)
LEMMA InitStep ==
  ASSUME COL * ROW \notin BootCursors, ConsoleInit
  PROVE  ConsoleInv /\ T!TInit
<1>1. ConsoleInv
  BY ConsoleAssumption DEF ConsoleInit, ConsoleInv, Cells, Shows
<1>2. Begin \in Places
  BY <1>1, ProbeIs
<1>3. Begin \div COL + 1 \in 1 .. ROW /\ Begin % COL \in 0 .. COL - 1
  <2>1. Begin \div COL \in 0 .. ROW - 1 /\ Begin % COL \in 0 .. COL - 1
    BY <1>2, LineOf
  <2> QED
    BY <2>1, Sizes
<1>4. Lines \in [1 .. ROW -> [0 .. COL - 1 -> Chars \cup {T!Blank}]]
  <2>1. ASSUME NEW r \in 1 .. ROW, NEW c \in 0 .. COL - 1
        PROVE  Cell(COL * (r - 1) + c) \in Shows
    <3>1. PICK q \in Cells : q = COL * (r - 1) + c
      BY PlaceOf
    <3> QED
      BY <3>1, <1>1 DEF Cell, ConsoleInv, Shows
  <2> QED
    BY <2>1 DEF Lines, Shows, T!Blank, Blank
<1> QED
  BY <1>1, <1>3, <1>4 DEF T!TInit

(* The inductive invariant of the console (kbmputc): the memory of the     *)
(* screen holds characters that are shown, and the next goes to a place of *)
(* the screen or, before the first one, behind a boot cursor that is not   *)
(* just past the end.  A backspace at the first place and a boot cursor at *)
(* COL * ROW, which the test <= of kbmputc accepts, break it.              *)
THEOREM ConsoleInvariant ==
  ASSUME BS \notin Controls, COL * ROW \notin BootCursors
  PROVE  ConsoleSpec => []ConsoleInv
<1>1. ConsoleInit => ConsoleInv
  BY InitStep
<1>2. ConsoleInv /\ [ConsoleNext]_cvars => ConsoleInv'
  <2> SUFFICES ASSUME ConsoleInv, [ConsoleNext]_cvars PROVE ConsoleInv'
    OBVIOUS
  <2>1. ASSUME NEW c \in Chars \cup Controls, Put(c) PROVE ConsoleInv'
    BY <2>1, PutStep
  <2>2. CASE UNCHANGED cvars
    BY <2>2 DEF ConsoleInv, cvars
  <2> QED
    BY <2>1, <2>2 DEF ConsoleNext
<1> QED
  BY <1>1, <1>2, PTL DEF ConsoleSpec

(* The next character goes to a place of the screen (kbmputc's scrolling   *)
(* comes before the cursor leaves it), for any size of the screen.         *)
THEOREM AlwaysOnScreen ==
  ASSUME BS \notin Controls, COL * ROW \notin BootCursors
  PROVE  ConsoleSpec => []OnScreen
<1>1. ConsoleInv => OnScreen
  BY DEF ConsoleInv, OnScreen
<1> QED
  BY <1>1, ConsoleInvariant, PTL

(* kprintf's console shows the text put on it: it implements a terminal    *)
(* that shows the last ROW lines, for any size of the screen, any distance *)
(* of stops that divides the line, and any contents of the memory at       *)
(* first.                                                                  *)
THEOREM ConsoleIsTerminal ==
  ASSUME BS \notin Controls, COL * ROW \notin BootCursors
  PROVE  ConsoleSpec => ShowsText
<1>1. ConsoleInit => T!TInit
  BY InitStep
<1>2. ConsoleInv /\ [ConsoleNext]_cvars => [T!TNext]_T!tvars
  <2> SUFFICES ASSUME ConsoleInv, [ConsoleNext]_cvars
               PROVE  T!TNext \/ UNCHANGED T!tvars
    OBVIOUS
  <2>1. ASSUME NEW c \in Chars \cup Controls, Put(c) PROVE T!TNext \/ UNCHANGED T!tvars
    BY <2>1, PutStep
  <2>2. CASE UNCHANGED cvars
    BY <2>2 DEF cvars, T!tvars, Lines, Cell, Begin
  <2> QED
    BY <2>1, <2>2 DEF ConsoleNext
<1> QED
  BY <1>1, <1>2, ConsoleInvariant, PTL DEF ConsoleSpec, ShowsText, T!TSpec

---------------------------------------------------------------------------
(* h has the values of f in another order, those outside of P where they   *)
(* were: the value at x comes from g[x].                                   *)
Rearranged(D, P, f, h) ==
  \E g \in [D -> D] :
    /\ \A x, y \in D : g[x] = g[y] => x = y
    /\ \A y \in D : \E x \in D : g[x] = y
    /\ \A x \in D : h[x] = f[g[x]]
    /\ \A x \in P : g[x] \in P
    /\ \A x \in D \ P : g[x] = x

(* The places where f has the value e.                                     *)
Holding(D, f, e) == {x \in D : f[x] = e}

(* No value gets more or fewer.                                            *)
LEMMA CountsKept ==
  ASSUME NEW D, IsFiniteSet(D), NEW P, NEW f, NEW h, Rearranged(D, P, f, h), NEW e
  PROVE  Cardinality(Holding(D, f, e)) = Cardinality(Holding(D, h, e))
<1>1. PICK g \in [D -> D] :
        /\ \A x, y \in D : g[x] = g[y] => x = y
        /\ \A y \in D : \E x \in D : g[x] = y
        /\ \A x \in D : h[x] = f[g[x]]
  BY DEF Rearranged
<1> DEFINE S == {x \in D : h[x] = e}
           V == {x \in D : f[x] = e}
           b == [x \in S |-> g[x]]
<1>2. b \in [S -> V]
  BY <1>1
<1>3. \A x, y \in S : b[x] = b[y] => x = y
  BY <1>1
<1>4. ASSUME NEW y \in V PROVE \E x \in S : b[x] = y
  <2>1. PICK x \in D : g[x] = y
    BY <1>1
  <2>2. x \in S
    BY <1>1, <2>1
  <2> QED
    BY <2>1, <2>2
<1> HIDE DEF S, V, b
<1>5. b \in Bijection(S, V)
  BY <1>2, <1>3, <1>4, Fun_IsBij
<1> USE DEF S, V, b
<1>6. ExistsBijection(S, V)
  BY <1>5 DEF ExistsBijection
<1>7. IsFiniteSet(S)
  BY FS_Subset
<1> HIDE DEF S, V
<1>8. Cardinality(V) = Cardinality(S)
  BY <1>6, <1>7, FS_Bijection
<1> QED
  BY <1>8 DEF S, V, Holding

(* What is where after an exchange and a rotation.                         *)
Exchanged(D, f, p, q, h) ==
  \A x \in D : h[x] = IF x = p THEN f[q] ELSE IF x = q THEN f[p] ELSE f[x]

Rotated(D, f, p, q, r, h) ==
  \A x \in D : h[x] = IF x = p THEN f[r] ELSE IF x = q THEN f[p] ELSE IF x = r THEN f[q] ELSE f[x]

(* qsexc exchanges two values.                                             *)
LEMMA ExchangeRearranges ==
  ASSUME NEW D, NEW P \in SUBSET D, NEW f, DOMAIN f = D, f = [x \in D |-> f[x]],
         NEW p \in P, NEW q \in P
  PROVE  /\ Rearranged(D, P, f, qsexc(f, p, q))
         /\ Exchanged(D, f, p, q, qsexc(f, p, q))
<1>1. \A x \in D : qsexc(f, p, q)[x] =
        IF x = p THEN f[q] ELSE IF x = q THEN f[p] ELSE f[x]
  BY DEF qsexc
<1> DEFINE g == [x \in D |-> IF x = p THEN q ELSE IF x = q THEN p ELSE x]
<1>2. g \in [D -> D]
  OBVIOUS
<1>3. \A x \in D : g[x] = IF x = p THEN q ELSE IF x = q THEN p ELSE x
  OBVIOUS
<1> HIDE DEF g
<1>4. \A x, y \in D : g[x] = g[y] => x = y
  BY <1>3
<1>5. ASSUME NEW y \in D PROVE \E x \in D : g[x] = y
  <2>1. y = p => g[q] = y
    BY <1>3
  <2>2. y = q => g[p] = y
    BY <1>3
  <2>3. y # p /\ y # q => g[y] = y
    BY <1>3
  <2> QED
    BY <2>1, <2>2, <2>3
<1>6. \A x \in D : qsexc(f, p, q)[x] = f[g[x]]
  BY <1>1, <1>3
<1>7. (\A x \in P : g[x] \in P) /\ (\A x \in D \ P : g[x] = x)
  BY <1>3
<1> QED
  BY <1>1, <1>2, <1>4, <1>5, <1>6, <1>7 DEF Rearranged, Exchanged

(* qstexc moves three around, or exchanges two where the last two are the  *)
(* same place, which happens next to the middle.                           *)
LEMMA RotationRearranges ==
  ASSUME NEW D, NEW P \in SUBSET D, NEW f, DOMAIN f = D, f = [x \in D |-> f[x]],
         NEW p \in P, NEW q \in P \ {p}, NEW r \in P \ {p}
  PROVE  /\ Rearranged(D, P, f, qstexc(f, p, q, r))
         /\ Rotated(D, f, p, q, r, qstexc(f, p, q, r))
<1>1. \A x \in D : qstexc(f, p, q, r)[x] =
        IF x = p THEN f[r] ELSE IF x = q THEN f[p] ELSE IF x = r THEN f[q] ELSE f[x]
  BY DEF qstexc
<1> DEFINE g == [x \in D |-> IF x = p THEN r ELSE IF x = q THEN p ELSE IF x = r THEN q ELSE x]
<1>2. g \in [D -> D]
  OBVIOUS
<1>3. \A x \in D : g[x] = IF x = p THEN r ELSE IF x = q THEN p ELSE IF x = r THEN q ELSE x
  OBVIOUS
<1> HIDE DEF g
<1>4. \A x, y \in D : g[x] = g[y] => x = y
  BY <1>3
<1>5. ASSUME NEW y \in D PROVE \E x \in D : g[x] = y
  <2>1. y = p => g[q] = y
    BY <1>3
  <2>2. y = r => g[p] = y
    BY <1>3
  <2>3. y = q /\ y # r => g[r] = y
    BY <1>3
  <2>4. y # p /\ y # q /\ y # r => g[y] = y
    BY <1>3
  <2> QED
    BY <2>1, <2>2, <2>3, <2>4
<1>6. \A x \in D : qstexc(f, p, q, r)[x] = f[g[x]]
  BY <1>1, <1>3
<1>7. (\A x \in P : g[x] \in P) /\ (\A x \in D \ P : g[x] = x)
  BY <1>3
<1> QED
  BY <1>1, <1>2, <1>4, <1>5, <1>6, <1>7 DEF Rearranged, Rotated

(* An array of n elements.                                                 *)
LEMMA LengthIs ==
  ASSUME NEW n \in Nat, NEW S, NEW f \in [1 .. n -> S]
  PROVE  f \in Seq(S) /\ Len(f) = n
<1>1. f \in Seq(S)
  OBVIOUS
<1>2. DOMAIN f = 1 .. n /\ Len(f) \in Nat /\ DOMAIN f = 1 .. Len(f)
  BY <1>1
<1> QED
  BY <1>1, <1>2

(* Powers of 2: the subsets of a set with one element more are the subsets *)
(* of the set, each without and with it.                                   *)
LEMMA PowerDoubles ==
  ASSUME NEW n \in Nat
  PROVE  2 ^ (n + 1) = 2 * 2 ^ n /\ 2 ^ n \in Nat
<1> DEFINE S == 1 .. n
           z == n + 1
           W == 1 .. n + 1
           A == SUBSET S
           B == {s \cup {z} : s \in A}
           b == [s \in A |-> s \cup {z}]
<1>1. IsFiniteSet(S) /\ Cardinality(S) = n /\ z \notin S
  BY FS_Interval
<1>2. IsFiniteSet(W) /\ Cardinality(W) = n + 1 /\ W = S \cup {z}
  <2>1. W = S \cup {z}
    OBVIOUS
  <2>2. IsFiniteSet(W) /\ Cardinality(W) = IF 1 > n + 1 THEN 0 ELSE (n + 1) - 1 + 1
    BY FS_Interval
  <2> QED
    BY <2>1, <2>2
<1> HIDE DEF S, z, W
<1>3. IsFiniteSet(A) /\ Cardinality(A) = 2 ^ n
  BY <1>1, FS_SUBSET
<1>4. Cardinality(SUBSET W) = 2 ^ (n + 1)
  BY <1>2, FS_SUBSET
<1>5. b \in Bijection(A, B)
  <2>1. b \in [A -> B]
    OBVIOUS
  <2>2. ASSUME NEW s \in A, NEW t \in A, b[s] = b[t] PROVE s = t
    <3>1. s \cup {z} = t \cup {z} /\ z \notin s /\ z \notin t
      BY <2>2, <1>1
    <3> QED
      BY <3>1
  <2>3. \A t \in B : \E s \in A : b[s] = t
    OBVIOUS
  <2> HIDE DEF A, B, b
  <2> QED
    BY <2>1, <2>2, <2>3, Fun_IsBij
<1>6. SUBSET W = A \cup B
  <2>1. ASSUME NEW w \in SUBSET W PROVE w \in A \cup B
    <3>1. CASE z \in w
      <4>1. w \ {z} \in A /\ w = (w \ {z}) \cup {z}
        BY <3>1, <1>2
      <4> QED
        BY <4>1
    <3>2. CASE z \notin w
      BY <3>2, <1>2
    <3> QED
      BY <3>1, <3>2
  <2>2. A \cup B \subseteq SUBSET W
    BY <1>2
  <2> QED
    BY <2>1, <2>2
<1>7. A \cap B = {}
  BY <1>1
<1> HIDE DEF A, B, b
<1>8. IsFiniteSet(B) /\ Cardinality(B) = Cardinality(A)
  BY <1>3, <1>5, FS_Bijection DEF ExistsBijection
<1>9. Cardinality(A \cup B) = Cardinality(A) + Cardinality(B) - Cardinality(A \cap B)
  BY <1>3, <1>8, FS_Union
<1>10. Cardinality({}) = 0 /\ Cardinality(A) \in Nat
  BY <1>3, FS_EmptySet, FS_CardinalityType
<1>11. PICK c \in Nat : c = Cardinality(A)
  BY <1>10
<1>12. Cardinality(SUBSET W) = c + c
  <2>1. Cardinality(A \cap B) = 0 /\ Cardinality(A) = c /\ Cardinality(B) = c
    BY <1>7, <1>8, <1>10, <1>11
  <2>2. Cardinality(SUBSET W) = Cardinality(A) + Cardinality(B) - Cardinality(A \cap B)
    BY <1>6, <1>9
  <2>3. Cardinality(SUBSET W) = c + c - 0
    BY <2>1, <2>2
  <2> QED
    BY <2>3
<1> QED
  BY <1>3, <1>4, <1>11, <1>12

---------------------------------------------------------------------------
(* The loop of qs1: what is known of the elements of its part.             *)
Divides(v, a, l, i, j, lp, hp) ==
  /\ a <= i /\ i <= lp /\ lp <= hp /\ hp <= j /\ j < l
  /\ \A x \in a .. i - 1 : v[x] < v[lp]
  /\ \A x \in lp .. hp : v[x] = v[lp]
  /\ \A x \in j + 1 .. l - 1 : v[x] > v[lp]

(* An exchange in a part of an array of numbers.                           *)
LEMMA ExchangeInArray ==
  ASSUME NEW n \in Nat, NEW v \in [1 .. n -> Int], NEW Q \in SUBSET (1 .. n),
         NEW p \in Q, NEW q \in Q
  PROVE  /\ Rearranged(1 .. n, Q, v, qsexc(v, p, q))
         /\ Exchanged(1 .. n, v, p, q, qsexc(v, p, q))
<1> DEFINE D == 1 .. n
<1>1. DOMAIN v = D /\ v = [x \in D |-> v[x]] /\ Q \in SUBSET D
  OBVIOUS
<1> HIDE DEF D
<1>2. Rearranged(D, Q, v, qsexc(v, p, q)) /\ Exchanged(D, v, p, q, qsexc(v, p, q))
  BY <1>1, ExchangeRearranges
<1> QED
  BY <1>2 DEF D

(* Three moved around in a part of one.                                    *)
LEMMA RotationInArray ==
  ASSUME NEW n \in Nat, NEW v \in [1 .. n -> Int], NEW Q \in SUBSET (1 .. n),
         NEW p \in Q, NEW q \in Q \ {p}, NEW r \in Q \ {p}
  PROVE  /\ Rearranged(1 .. n, Q, v, qstexc(v, p, q, r))
         /\ Rotated(1 .. n, v, p, q, r, qstexc(v, p, q, r))
<1> DEFINE D == 1 .. n
<1>1. DOMAIN v = D /\ v = [x \in D |-> v[x]] /\ Q \in SUBSET D
  OBVIOUS
<1> HIDE DEF D
<1>2. Rearranged(D, Q, v, qstexc(v, p, q, r)) /\ Rotated(D, v, p, q, r, qstexc(v, p, q, r))
  BY <1>1, RotationRearranges
<1> QED
  BY <1>2 DEF D

(* An element on the left that is equal joins the middle.                  *)
LEMMA EqualLeftDivides ==
  ASSUME NEW n \in Nat, NEW v \in [1 .. n -> Int], NEW a \in Int, NEW l \in Int, NEW i \in Int,
         NEW j \in Int, NEW lp \in Int, NEW hp \in Int, 1 <= a, l <= n + 1,
         Divides(v, a, l, i, j, lp, hp), i < lp, v[i] = v[lp]
  PROVE  LET w == qsexc(v, i, lp - 1)
         IN  Rearranged(1 .. n, a .. l - 1, v, w) /\ Divides(w, a, l, i, j, lp - 1, hp)
<1> DEFINE D == 1 .. n
           Q == a .. l - 1
           w == qsexc(v, i, lp - 1)
<1>2. Q \in SUBSET D
  OBVIOUS
<1>3. a <= i /\ i <= lp /\ lp <= hp /\ hp <= j /\ j < l
  BY DEF Divides
<1>4. i \in Q /\ lp - 1 \in Q
  BY <1>3
<1> HIDE DEF Q
<1>5. Rearranged(D, Q, v, w) /\ Exchanged(D, v, i, lp - 1, w)
  BY <1>2, <1>4, ExchangeInArray
<1> HIDE DEF w
<1> USE DEF Q
<1>6. PICK P \in Int : P = v[lp]
  BY <1>3
<1>7. /\ \A x \in a .. i - 1 : x \in D /\ v[x] < P
      /\ \A x \in lp .. hp : x \in D /\ v[x] = P
      /\ \A x \in j + 1 .. l - 1 : x \in D /\ v[x] > P
  BY <1>3, <1>6 DEF Divides
<1>8. \A x \in a .. i - 1 : w[x] < P
  BY <1>3, <1>5, <1>6, <1>7 DEF Exchanged
<1>9. ASSUME NEW x \in lp - 1 .. hp PROVE w[x] = P
  <2>1. CASE x = lp - 1
    <3>1. v[i] = P /\ x \in D
      BY <1>3, <1>6
    <3>2. w[x] = IF x = i THEN v[x] ELSE v[i]
      BY <1>5, <2>1, <3>1 DEF Exchanged
    <3> QED
      BY <3>1, <3>2
  <2>2. CASE x # lp - 1
    <3>1. x \in lp .. hp /\ x # i
      BY <1>3, <2>2
    <3> QED
      BY <1>5, <1>7, <2>2, <3>1 DEF Exchanged
  <2> QED
    BY <2>1, <2>2
<1>10. \A x \in j + 1 .. l - 1 : w[x] > P
  BY <1>3, <1>5, <1>6, <1>7 DEF Exchanged
<1>11. w[lp - 1] = P /\ a <= i /\ i <= lp - 1 /\ lp - 1 <= hp /\ hp <= j /\ j < l
  BY <1>3, <1>9
<1>12. Divides(w, a, l, i, j, lp - 1, hp)
  BY <1>8, <1>9, <1>10, <1>11 DEF Divides
<1> QED
  BY <1>5, <1>12 DEF w

(* And so does one on the right.                                           *)
LEMMA EqualRightDivides ==
  ASSUME NEW n \in Nat, NEW v \in [1 .. n -> Int], NEW a \in Int, NEW l \in Int, NEW i \in Int,
         NEW j \in Int, NEW lp \in Int, NEW hp \in Int, 1 <= a, l <= n + 1,
         Divides(v, a, l, i, j, lp, hp), hp < j, v[hp] = v[j]
  PROVE  LET w == qsexc(v, hp + 1, j)
         IN  Rearranged(1 .. n, a .. l - 1, v, w) /\ Divides(w, a, l, i, j, lp, hp + 1)
<1> DEFINE D == 1 .. n
           Q == a .. l - 1
           w == qsexc(v, hp + 1, j)
<1>2. Q \in SUBSET D
  OBVIOUS
<1>3. a <= i /\ i <= lp /\ lp <= hp /\ hp <= j /\ j < l
  BY DEF Divides
<1>4. hp + 1 \in Q /\ j \in Q
  BY <1>3
<1> HIDE DEF Q
<1>5. Rearranged(D, Q, v, w) /\ Exchanged(D, v, hp + 1, j, w)
  BY <1>2, <1>4, ExchangeInArray
<1> HIDE DEF w
<1> USE DEF Q
<1>6. PICK P \in Int : P = v[lp]
  BY <1>3
<1>7. /\ \A x \in a .. i - 1 : x \in D /\ v[x] < P
      /\ \A x \in lp .. hp : x \in D /\ v[x] = P
      /\ \A x \in j + 1 .. l - 1 : x \in D /\ v[x] > P
  BY <1>3, <1>6 DEF Divides
<1>8. \A x \in a .. i - 1 : w[x] < P
  BY <1>3, <1>5, <1>6, <1>7 DEF Exchanged
<1>9. \A x \in lp .. hp + 1 : w[x] = P
  BY <1>3, <1>5, <1>6, <1>7 DEF Exchanged
<1>10. \A x \in j + 1 .. l - 1 : w[x] > P
  BY <1>3, <1>5, <1>6, <1>7 DEF Exchanged
<1>11. w[lp] = P /\ a <= i /\ i <= lp /\ lp <= hp + 1 /\ hp + 1 <= j /\ j < l
  BY <1>3, <1>9
<1>12. Divides(w, a, l, i, j, lp, hp + 1)
  BY <1>8, <1>9, <1>10, <1>11 DEF Divides
<1> QED
  BY <1>5, <1>12 DEF w

(* One that is greater and one that is less change sides.                  *)
LEMMA ExchangeDivides ==
  ASSUME NEW n \in Nat, NEW v \in [1 .. n -> Int], NEW a \in Int, NEW l \in Int, NEW i \in Int,
         NEW j \in Int, NEW lp \in Int, NEW hp \in Int, 1 <= a, l <= n + 1,
         Divides(v, a, l, i, j, lp, hp), i < lp, v[i] > v[lp], hp < j, v[hp] > v[j]
  PROVE  LET w == qsexc(v, i, j)
         IN  Rearranged(1 .. n, a .. l - 1, v, w) /\ Divides(w, a, l, i + 1, j - 1, lp, hp)
<1> DEFINE D == 1 .. n
           Q == a .. l - 1
           w == qsexc(v, i, j)
<1>2. Q \in SUBSET D
  OBVIOUS
<1>3. a <= i /\ i <= lp /\ lp <= hp /\ hp <= j /\ j < l
  BY DEF Divides
<1>4. i \in Q /\ j \in Q
  BY <1>3
<1> HIDE DEF Q
<1>5. Rearranged(D, Q, v, w) /\ Exchanged(D, v, i, j, w)
  BY <1>2, <1>4, ExchangeInArray
<1> HIDE DEF w
<1> USE DEF Q
<1>6. PICK P \in Int : P = v[lp]
  BY <1>3
<1>7. /\ \A x \in a .. i - 1 : x \in D /\ v[x] < P
      /\ \A x \in lp .. hp : x \in D /\ v[x] = P
      /\ \A x \in j + 1 .. l - 1 : x \in D /\ v[x] > P
  BY <1>3, <1>6 DEF Divides
<1>8. ASSUME NEW x \in a .. i + 1 - 1 PROVE w[x] < P
  <2>1. v[j] < P /\ x \in D /\ x # j
    <3>1. v[hp] = P
      BY <1>3, <1>7
    <3> QED
      BY <1>3, <1>4, <3>1
  <2>2. w[x] = IF x = i THEN v[j] ELSE v[x]
    BY <1>5, <2>1 DEF Exchanged
  <2>3. x # i => x \in a .. i - 1
    OBVIOUS
  <2> QED
    BY <1>7, <2>1, <2>2, <2>3
<1>9. \A x \in lp .. hp : w[x] = P
  BY <1>3, <1>5, <1>6, <1>7 DEF Exchanged
<1>10. ASSUME NEW x \in j - 1 + 1 .. l - 1 PROVE w[x] > P
  <2>1. v[i] > P /\ x \in D /\ x # i
    BY <1>3, <1>4, <1>6
  <2>2. w[x] = IF x = j THEN v[i] ELSE v[x]
    BY <1>5, <2>1 DEF Exchanged
  <2>3. x # j => x \in j + 1 .. l - 1
    OBVIOUS
  <2> QED
    BY <1>7, <2>1, <2>2, <2>3
<1>11. w[lp] = P /\ a <= i + 1 /\ i + 1 <= lp /\ lp <= hp /\ hp <= j - 1 /\ j - 1 < l
  BY <1>3, <1>9
<1>12. Divides(w, a, l, i + 1, j - 1, lp, hp)
  BY <1>8, <1>9, <1>10, <1>11 DEF Divides
<1> QED
  BY <1>5, <1>12 DEF w

(* One that is less goes to the left, around the middle.                   *)
LEMMA ToLeftDivides ==
  ASSUME NEW n \in Nat, NEW v \in [1 .. n -> Int], NEW a \in Int, NEW l \in Int, NEW i \in Int,
         NEW j \in Int, NEW lp \in Int, NEW hp \in Int, 1 <= a, l <= n + 1,
         Divides(v, a, l, i, j, lp, hp), i = lp, hp < j, v[hp] > v[j]
  PROVE  LET w == qstexc(v, i, hp + 1, j)
         IN  Rearranged(1 .. n, a .. l - 1, v, w) /\ Divides(w, a, l, lp + 1, j, lp + 1, hp + 1)
<1> DEFINE D == 1 .. n
           Q == a .. l - 1
           w == qstexc(v, i, hp + 1, j)
<1>2. Q \in SUBSET D
  OBVIOUS
<1>3. a <= i /\ i <= lp /\ lp <= hp /\ hp <= j /\ j < l
  BY DEF Divides
<1>4. i \in Q /\ hp + 1 \in Q \ {i} /\ j \in Q \ {i}
  BY <1>3
<1> HIDE DEF Q
<1>5. Rearranged(D, Q, v, w) /\ Rotated(D, v, i, hp + 1, j, w)
  BY <1>2, <1>4, RotationInArray
<1> HIDE DEF w
<1> USE DEF Q
<1>6. PICK P \in Int : P = v[lp]
  BY <1>3
<1>7. /\ \A x \in a .. i - 1 : x \in D /\ v[x] < P
      /\ \A x \in lp .. hp : x \in D /\ v[x] = P
      /\ \A x \in j + 1 .. l - 1 : x \in D /\ v[x] > P
  BY <1>3, <1>6 DEF Divides
<1>8. \A x \in a .. lp + 1 - 1 : w[x] < P
  BY <1>3, <1>5, <1>6, <1>7 DEF Rotated
<1>9. ASSUME NEW x \in lp + 1 .. hp + 1 PROVE w[x] = P
  <2>1. x \in D /\ x # i
    BY <1>3, <1>4
  <2>2. w[x] = IF x = hp + 1 THEN v[i] ELSE IF x = j THEN v[hp + 1] ELSE v[x]
    BY <1>5, <2>1 DEF Rotated
  <2>3. x # hp + 1 => x \in lp .. hp /\ x # j
    BY <1>3
  <2> QED
    BY <1>6, <1>7, <2>2, <2>3
<1>10. \A x \in j + 1 .. l - 1 : w[x] > P
  BY <1>3, <1>5, <1>6, <1>7 DEF Rotated
<1>11. w[lp + 1] = P /\ a <= lp + 1 /\ lp + 1 <= lp + 1 /\ lp + 1 <= hp + 1 /\ hp + 1 <= j /\ j < l
  BY <1>3, <1>9
<1>12. Divides(w, a, l, lp + 1, j, lp + 1, hp + 1)
  BY <1>8, <1>9, <1>10, <1>11 DEF Divides
<1> QED
  BY <1>5, <1>12 DEF w

(* One that is greater goes to the right, around the middle.               *)
LEMMA ToRightDivides ==
  ASSUME NEW n \in Nat, NEW v \in [1 .. n -> Int], NEW a \in Int, NEW l \in Int, NEW i \in Int,
         NEW j \in Int, NEW lp \in Int, NEW hp \in Int, 1 <= a, l <= n + 1,
         Divides(v, a, l, i, j, lp, hp), i < lp, v[i] > v[lp], j = hp
  PROVE  LET w == qstexc(v, j, lp - 1, i)
         IN  Rearranged(1 .. n, a .. l - 1, v, w) /\ Divides(w, a, l, i, hp - 1, lp - 1, hp - 1)
<1> DEFINE D == 1 .. n
           Q == a .. l - 1
           w == qstexc(v, j, lp - 1, i)
<1>2. Q \in SUBSET D
  OBVIOUS
<1>3. a <= i /\ i <= lp /\ lp <= hp /\ hp <= j /\ j < l
  BY DEF Divides
<1>4. j \in Q /\ lp - 1 \in Q \ {j} /\ i \in Q \ {j}
  BY <1>3
<1> HIDE DEF Q
<1>5. Rearranged(D, Q, v, w) /\ Rotated(D, v, j, lp - 1, i, w)
  BY <1>2, <1>4, RotationInArray
<1> HIDE DEF w
<1> USE DEF Q
<1>6. PICK P \in Int : P = v[lp]
  BY <1>3
<1>7. /\ \A x \in a .. i - 1 : x \in D /\ v[x] < P
      /\ \A x \in lp .. hp : x \in D /\ v[x] = P
      /\ \A x \in j + 1 .. l - 1 : x \in D /\ v[x] > P
  BY <1>3, <1>6 DEF Divides
<1>8. \A x \in a .. i - 1 : w[x] < P
  BY <1>3, <1>5, <1>6, <1>7 DEF Rotated
<1>9. ASSUME NEW x \in lp - 1 .. hp - 1 PROVE w[x] = P
  <2>1. v[j] = P
    BY <1>3, <1>7
  <2>2. CASE x = lp - 1
    BY <1>3, <1>4, <1>5, <2>1, <2>2 DEF Rotated
  <2>3. CASE x # lp - 1
    <3>1. x \in lp .. hp /\ x # j /\ x # i
      BY <1>3, <2>3
    <3> QED
      BY <1>5, <1>7, <2>3, <3>1 DEF Rotated
  <2> QED
    BY <2>2, <2>3
<1>10. \A x \in hp - 1 + 1 .. l - 1 : w[x] > P
  BY <1>3, <1>5, <1>6, <1>7 DEF Rotated
<1>11. w[lp - 1] = P /\ a <= i /\ i <= lp - 1 /\ lp - 1 <= hp - 1 /\ hp - 1 <= hp - 1 /\ hp - 1 < l
  BY <1>3, <1>9
<1>12. Divides(w, a, l, i, hp - 1, lp - 1, hp - 1)
  BY <1>8, <1>9, <1>10, <1>11 DEF Divides
<1> QED
  BY <1>5, <1>12 DEF w

(* Those that need not move stay.                                          *)
LEMMA StayDivides ==
  ASSUME NEW v, NEW a \in Int, NEW l \in Int, NEW i \in Int,
         NEW j \in Int, NEW lp \in Int, NEW hp \in Int, Divides(v, a, l, i, j, lp, hp)
  PROVE  /\ i < lp /\ v[i] < v[lp] => Divides(v, a, l, i + 1, j, lp, hp)
         /\ hp < j /\ v[hp] < v[j] => Divides(v, a, l, i, j - 1, lp, hp)
<1>1. ASSUME i < lp, v[i] < v[lp] PROVE Divides(v, a, l, i + 1, j, lp, hp)
  <2>1. \A x \in a .. i + 1 - 1 : x \in a .. i - 1 \/ x = i
    OBVIOUS
  <2> QED
    BY <1>1, <2>1 DEF Divides
<1>2. ASSUME hp < j, v[hp] < v[j] PROVE Divides(v, a, l, i, j - 1, lp, hp)
  <2>1. \A x \in j - 1 + 1 .. l - 1 : x \in j + 1 .. l - 1 \/ x = j
    OBVIOUS
  <2>2. v[hp] = v[lp]
    BY DEF Divides
  <2> QED
    BY <1>2, <2>1, <2>2 DEF Divides
<1> QED
  BY <1>1, <1>2

(* Rearranged places that all stay where they are.                         *)
LEMMA SameRearranges ==
  ASSUME NEW D, NEW P \in SUBSET D, NEW f
  PROVE  Rearranged(D, P, f, f)
<1> DEFINE g == [x \in D |-> x]
<1>1. g \in [D -> D] /\ \A x \in D : g[x] = x
  OBVIOUS
<1> HIDE DEF g
<1> QED
  BY <1>1 DEF Rearranged

---------------------------------------------------------------------------
(* The places of F, and those of each of R, are still to be sorted; all    *)
(* others are in order, among themselves and with these.                   *)
Apart(K, R) == \A k, m \in 1 .. K : k # m => R[k] \cap R[m] = {}

Outside(F, K, R) == \A k \in 1 .. K : R[k] \cap F = {}

Settled(n, v, F, K, R) ==
  \A x, y \in 1 .. n :
    x < y =>
      \/ v[x] <= v[y]
      \/ x \in F /\ y \in F
      \/ \E k \in 1 .. K : x \in R[k] /\ y \in R[k]

Open(n, v, F, K, R) == Apart(K, R) /\ Outside(F, K, R) /\ Settled(n, v, F, K, R)

(* Elements that change places within F leave the others in order.         *)
LEMMA RearrangedOpen ==
  ASSUME NEW n \in Nat, NEW v \in [1 .. n -> Int], NEW w \in [1 .. n -> Int],
         NEW a \in Int, NEW l \in Int, 1 <= a, l <= n + 1, NEW K \in Nat, NEW R,
         Open(n, v, a .. l - 1, K, R), Rearranged(1 .. n, a .. l - 1, v, w)
  PROVE  Open(n, w, a .. l - 1, K, R)
<1> DEFINE F == a .. l - 1
           D == 1 .. n
           Both(x, y) == \E k \in 1 .. K : x \in R[k] /\ y \in R[k]
<1>1. PICK g \in [D -> D] :
        /\ \A x \in D : w[x] = v[g[x]]
        /\ \A x \in F : g[x] \in F
        /\ \A x \in D \ F : g[x] = x
  BY DEF Rearranged
<1>2. \A k \in 1 .. K : R[k] \cap F = {}
  BY DEF Open, Outside
<1>3. ASSUME NEW x \in D, NEW y \in D, x < y, ~ (x \in F /\ y \in F), ~ Both(x, y)
      PROVE  v[x] <= v[y]
  BY <1>3 DEF Open, Settled
<1>4. ASSUME NEW x \in D, NEW y \in D, x < y, ~ (x \in F /\ y \in F), ~ Both(x, y)
      PROVE  w[x] <= w[y]
  <2>1. CASE x \notin F /\ y \notin F
    BY <1>1, <1>3, <1>4, <2>1
  <2>2. CASE x \in F /\ y \notin F
    <3>1. PICK z \in F : z = g[x]
      BY <1>1, <2>2
    <3>2. z \in D /\ z < y /\ ~ Both(z, y)
      <4>1. z \in D /\ z < y
        BY <1>4, <2>2
      <4>2. \A k \in 1 .. K : z \notin R[k]
        BY <1>2
      <4> QED
        BY <4>1, <4>2
    <3>3. v[z] <= v[y]
      BY <1>3, <2>2, <3>2
    <3> QED
      BY <1>1, <2>2, <3>1, <3>3
  <2>3. CASE x \notin F /\ y \in F
    <3>1. PICK z \in F : z = g[y]
      BY <1>1, <2>3
    <3>2. z \in D /\ x < z /\ ~ Both(x, z)
      <4>1. z \in D /\ x < z
        BY <1>4, <2>3
      <4>2. \A k \in 1 .. K : z \notin R[k]
        BY <1>2
      <4> QED
        BY <4>1, <4>2
    <3>3. v[x] <= v[z]
      BY <1>3, <2>3, <3>2
    <3> QED
      BY <1>1, <2>3, <3>1, <3>3
  <2> QED
    BY <1>4, <2>1, <2>2, <2>3
<1>5. ASSUME NEW x \in D, NEW y \in D, x < y
      PROVE  \/ w[x] <= w[y]
             \/ x \in F /\ y \in F
             \/ \E k \in 1 .. K : x \in R[k] /\ y \in R[k]
  BY <1>4, <1>5
<1>6. Settled(n, w, F, K, R)
  BY <1>5 DEF Settled
<1> QED
  BY <1>6 DEF Open

AreSides(F, S, a, l, lp, hp) ==
  \/ F = a .. lp - 1 /\ S = hp + 1 .. l - 1
  \/ S = a .. lp - 1 /\ F = hp + 1 .. l - 1

(* When the loop ends, what is left of its part are the two around the     *)
(* middle: one is F now, the other the last of R.                          *)
LEMMA SplitOpen ==
  ASSUME NEW n \in Nat, NEW v \in [1 .. n -> Int], NEW a \in Int, NEW l \in Int,
         1 <= a, l <= n + 1, NEW lp \in Int, NEW hp \in Int,
         Divides(v, a, l, lp, hp, lp, hp), NEW K \in Nat, NEW R, NEW Q, NEW F, NEW S,
         AreSides(F, S, a, l, lp, hp),
         \A k \in 1 .. K : Q[k] = R[k], Q[K + 1] = S,
         Open(n, v, a .. l - 1, K, R)
  PROVE  Open(n, v, F, K + 1, Q)
<1> DEFINE G == a .. l - 1
<1>1. a <= lp /\ lp <= hp /\ hp < l
  BY DEF Divides
<1>10. \/ F = a .. lp - 1 /\ S = hp + 1 .. l - 1
       \/ S = a .. lp - 1 /\ F = hp + 1 .. l - 1
  BY DEF AreSides
<1>2. F \subseteq G /\ S \subseteq G /\ F \cap S = {}
  <2>1. a .. lp - 1 \subseteq G /\ hp + 1 .. l - 1 \subseteq G
    BY <1>1
  <2>2. (a .. lp - 1) \cap (hp + 1 .. l - 1) = {}
    BY <1>1
  <2> QED
    BY <1>10, <2>1, <2>2
<1>3. ASSUME NEW x \in G, NEW y \in G, x < y
      PROVE  v[x] <= v[y] \/ (x \in F /\ y \in F) \/ (x \in S /\ y \in S)
  <2>1. PICK P \in Int : P = v[lp]
    BY <1>1
  <2>2. /\ \A z \in a .. lp - 1 : v[z] < P
        /\ \A z \in lp .. hp : v[z] = P
        /\ \A z \in hp + 1 .. l - 1 : v[z] > P
    BY <2>1 DEF Divides
  <2>0. v[x] \in Int /\ v[y] \in Int
    OBVIOUS
  <2>7. PICK X \in Int, Y \in Int : X = v[x] /\ Y = v[y]
    BY <2>0
  <2>3. CASE x \in a .. lp - 1 /\ y \notin a .. lp - 1
    <3>1. y \in lp .. hp \/ y \in hp + 1 .. l - 1
      BY <1>1, <2>3
    <3>2. Y = P \/ Y > P
      BY <2>2, <2>7, <3>1
    <3>3. X < P
      BY <2>2, <2>7, <2>3
    <3>4. X <= Y
      BY <3>2, <3>3
    <3> QED
      BY <2>7, <3>4
  <2>4. CASE x \in lp .. hp
    <3>1. y \in lp .. hp \/ y \in hp + 1 .. l - 1
      BY <1>1, <1>3, <2>4
    <3>2. Y = P \/ Y > P
      BY <2>2, <2>7, <3>1
    <3>3. X = P
      BY <2>2, <2>7, <2>4
    <3>4. X <= Y
      BY <3>2, <3>3
    <3> QED
      BY <2>7, <3>4
  <2>5. CASE x \in a .. lp - 1 /\ y \in a .. lp - 1
    BY <1>10, <2>5
  <2>6. CASE x \in hp + 1 .. l - 1
    <3>1. y \in hp + 1 .. l - 1
      BY <1>1, <1>3, <2>6
    <3> QED
      BY <1>10, <2>6, <3>1
  <2> QED
    BY <1>1, <2>3, <2>4, <2>5, <2>6
<1>4. ASSUME NEW k \in 1 .. K + 1, NEW m \in 1 .. K + 1, k # m PROVE Q[k] \cap Q[m] = {}
  <2>1. (k \in 1 .. K \/ k = K + 1) /\ (m \in 1 .. K \/ m = K + 1)
    OBVIOUS
  <2>2. \A h \in 1 .. K : R[h] \cap G = {}
    BY DEF Open, Outside
  <2>3. \A h \in 1 .. K : Q[h] \cap S = {}
    BY <1>2, <2>2
  <2>4. k \in 1 .. K /\ m \in 1 .. K => Q[k] \cap Q[m] = {}
    BY <1>4 DEF Open, Apart
  <2> QED
    BY <1>4, <2>1, <2>3, <2>4
<1>5. ASSUME NEW k \in 1 .. K + 1 PROVE Q[k] \cap F = {}
  <2>1. k \in 1 .. K \/ k = K + 1
    OBVIOUS
  <2>2. \A h \in 1 .. K : R[h] \cap G = {}
    BY DEF Open, Outside
  <2> QED
    BY <1>2, <2>1, <2>2
<1>6. ASSUME NEW x \in 1 .. n, NEW y \in 1 .. n, x < y
      PROVE  \/ v[x] <= v[y]
             \/ x \in F /\ y \in F
             \/ \E k \in 1 .. K + 1 : x \in Q[k] /\ y \in Q[k]
  <2>1. \/ v[x] <= v[y]
        \/ x \in G /\ y \in G
        \/ \E k \in 1 .. K : x \in R[k] /\ y \in R[k]
    BY <1>6 DEF Open, Settled
  <2>2. CASE x \in G /\ y \in G
    <3>1. K + 1 \in 1 .. K + 1
      OBVIOUS
    <3> QED
      BY <1>3, <1>6, <2>2, <3>1
  <2>3. CASE \E k \in 1 .. K : x \in R[k] /\ y \in R[k]
    <3>1. PICK k \in 1 .. K : x \in R[k] /\ y \in R[k]
      BY <2>3
    <3>2. k \in 1 .. K + 1 /\ Q[k] = R[k]
      OBVIOUS
    <3> QED
      BY <3>1, <3>2
  <2> QED
    BY <2>1, <2>2, <2>3
<1>7. Apart(K + 1, Q)
  BY <1>4 DEF Apart
<1>8. Outside(F, K + 1, Q)
  BY <1>5 DEF Outside
<1>9. Settled(n, v, F, K + 1, Q)
  BY <1>6 DEF Settled
<1> QED
  BY <1>7, <1>8, <1>9 DEF Open

(* When a part has no two places, its caller goes on with the last of R.   *)
LEMMA LeaveOpen ==
  ASSUME NEW n \in Nat, NEW v, NEW F, \A x, y \in F : x = y,
         NEW K \in Nat \ {0}, NEW R, NEW Q, \A k \in 1 .. K - 1 : Q[k] = R[k],
         Open(n, v, F, K, R)
  PROVE  Open(n, v, R[K], K - 1, Q)
<1>1. \A k \in 1 .. K - 1 : k \in 1 .. K /\ k # K /\ Q[k] = R[k]
  OBVIOUS
<1>2. K \in 1 .. K
  OBVIOUS
<1>3. ASSUME NEW x \in 1 .. n, NEW y \in 1 .. n, x < y
      PROVE  \/ v[x] <= v[y]
             \/ x \in R[K] /\ y \in R[K]
             \/ \E k \in 1 .. K - 1 : x \in Q[k] /\ y \in Q[k]
  <2>1. ~ (x \in F /\ y \in F)
    BY <1>3
  <2>2. \/ v[x] <= v[y]
        \/ \E k \in 1 .. K : x \in R[k] /\ y \in R[k]
    BY <1>3, <2>1 DEF Open, Settled
  <2>3. CASE \E k \in 1 .. K : x \in R[k] /\ y \in R[k]
    <3>1. PICK k \in 1 .. K : x \in R[k] /\ y \in R[k]
      BY <2>3
    <3>2. k = K \/ k \in 1 .. K - 1
      OBVIOUS
    <3> QED
      BY <3>1, <3>2
  <2> QED
    BY <2>2, <2>3
<1>4. \A k, m \in 1 .. K - 1 : k # m => Q[k] \cap Q[m] = {}
  BY <1>1 DEF Open, Apart
<1>5. \A k \in 1 .. K - 1 : Q[k] \cap R[K] = {}
  BY <1>1, <1>2 DEF Open, Apart
<1>6. Apart(K - 1, Q) /\ Outside(R[K], K - 1, Q)
  BY <1>4, <1>5 DEF Apart, Outside
<1>7. Settled(n, v, R[K], K - 1, Q)
  BY <1>3 DEF Settled
<1> QED
  BY <1>6, <1>7 DEF Open

---------------------------------------------------------------------------
Fields == [a : Int, l : Int, i : Int, j : Int, lp : Int, hp : Int]

InArray(f, n) == f \in Fields /\ 1 <= f.a /\ f.a <= f.l /\ f.l <= n + 1

(* A call that waits has divided its part.                                 *)
Waiting(f) == Size(f) > 1 /\ f.a <= f.lp /\ f.lp <= f.hp /\ f.hp < f.l

Divided(v, f) == Divides(v, f.a, f.l, f.i, f.j, f.lp, f.hp)

(* A frame at depth k has its share of n places.                           *)
Halves(n, k, f) == 2 ^ k * Size(f) <= n

RestsOf(cs) == [k \in 1 .. Len(cs) |-> PlacesOf(Rest(cs[k]))]

SortTypes ==
  /\ Len(array) \in Nat /\ array \in [1 .. Len(array) -> Elements]
  /\ InArray(frame, Len(array))
  /\ callers \in Seq(Fields)
  /\ \A k \in 1 .. Len(callers) : InArray(callers[k], Len(array)) /\ Waiting(callers[k])

Nested ==
  /\ Halves(Len(array), Len(callers), frame)
  /\ \A k \in 1 .. Len(callers) : Halves(Len(array), k - 1, callers[k])

SortInv ==
  /\ SortTypes
  /\ Looping => Divided(array, frame)
  /\ Open(Len(array), array, PlacesOf(frame), Len(callers), RestsOf(callers))
  /\ Nested

(* A part that begins is a frame of these places.                          *)
LEMMA PartIs ==
  ASSUME NEW n \in Nat, NEW a \in Int, NEW l \in Int, 1 <= a, a <= l, l <= n + 1
  PROVE  /\ InArray(Part(a, l), n) /\ Size(Part(a, l)) = l - a
         /\ PlacesOf(Part(a, l)) = a .. l - 1
         /\ \A v : l - a > 1 => Divided(v, Part(a, l))
<1>1. PICK m \in Int : m = a + (l - a) \div 2
  OBVIOUS
<1>2. Part(a, l) = [a |-> a, l |-> l, i |-> a, j |-> l - 1, lp |-> m, hp |-> m]
  BY <1>1 DEF Part
<1>3. l - a > 1 => a <= m /\ m <= l - 1
  BY <1>1
<1>4. InArray(Part(a, l), n) /\ Size(Part(a, l)) = l - a
  BY <1>2 DEF InArray, Fields, Size
<1>5. PlacesOf(Part(a, l)) = a .. l - 1
  BY <1>2 DEF PlacesOf
<1>6. ASSUME NEW v, l - a > 1 PROVE Divides(v, a, l, a, l - 1, m, m)
  <2>1. \A x \in m .. m : x = m
    OBVIOUS
  <2>2. a .. a - 1 = {} /\ l - 1 + 1 .. l - 1 = {}
    OBVIOUS
  <2> QED
    BY <1>3, <1>6, <2>1, <2>2 DEF Divides
<1> QED
  BY <1>2, <1>4, <1>5, <1>6 DEF Divided

(* The two parts around the middle.                                        *)
LEMMA PartsOf ==
  ASSUME NEW n \in Nat, NEW f, InArray(f, n), Waiting(f), NEW v
  PROVE  /\ InArray(Called(f), n) /\ InArray(Rest(f), n)
         /\ Size(Called(f)) <= Size(Rest(f)) /\ Size(Called(f)) + Size(Rest(f)) < Size(f)
         /\ Size(Called(f)) > 1 => Divided(v, Called(f))
         /\ Size(Rest(f)) > 1 => Divided(v, Rest(f))
         /\ AreSides(PlacesOf(Called(f)), PlacesOf(Rest(f)), f.a, f.l, f.lp, f.hp)
<1>1. PICK a \in Int, l \in Int, p \in Int, h \in Int :
        /\ f.a = a /\ f.l = l /\ f.lp = p /\ f.hp = h
        /\ 1 <= a /\ a <= p /\ p <= h /\ h < l /\ l <= n + 1
  BY DEF InArray, Fields, Waiting
<1>2. /\ InArray(Part(a, p), n) /\ Size(Part(a, p)) = p - a
      /\ PlacesOf(Part(a, p)) = a .. p - 1
      /\ p - a > 1 => Divided(v, Part(a, p))
  BY <1>1, PartIs
<1>3. PICK q \in Int : q = h + 1 /\ 1 <= q /\ q <= l /\ l <= n + 1
  BY <1>1
<1>4. /\ InArray(Part(q, l), n) /\ Size(Part(q, l)) = l - q
      /\ PlacesOf(Part(q, l)) = q .. l - 1
      /\ l - q > 1 => Divided(v, Part(q, l))
  BY <1>3, PartIs
<1>5. Size(f) = l - a
  BY <1>1 DEF Size
<1>6. CASE CallsBehind(f)
  <2>1. Called(f) = Part(q, l) /\ Rest(f) = Part(a, p)
    BY <1>1, <1>3, <1>6 DEF Called, Rest
  <2>2. l - q <= p - a /\ l - q + (p - a) < l - a
    BY <1>1, <1>3, <1>6 DEF CallsBehind
  <2> QED
    BY <1>1, <1>2, <1>3, <1>4, <1>5, <2>1, <2>2 DEF AreSides
<1>7. CASE ~ CallsBehind(f)
  <2>1. Called(f) = Part(a, p) /\ Rest(f) = Part(q, l)
    BY <1>1, <1>3, <1>7 DEF Called, Rest
  <2>2. p - a <= l - q /\ p - a + (l - q) < l - a
    BY <1>1, <1>3, <1>7 DEF CallsBehind
  <2> QED
    BY <1>1, <1>2, <1>3, <1>4, <1>5, <2>1, <2>2 DEF AreSides
<1> QED
  BY <1>6, <1>7

---------------------------------------------------------------------------
(* A step of the loop: the elements of the part are arranged in another    *)
(* order, and fewer are left to be compared.                               *)
LoopMove ==
  /\ frame' \in Fields /\ frame'.a = frame.a /\ frame'.l = frame.l /\ callers' = callers
  /\ array' \in [1 .. Len(array) -> Elements]
  /\ Rearranged(1 .. Len(array), PlacesOf(frame), array, array')
  /\ Divided(array', frame')
  /\ Uncompared' \in 0 .. Uncompared - 1

LoopStep == EqualLeft \/ LessLeft \/ EqualRight \/ GreaterRight \/ LessRight \/ GreaterLeft

(* Each action of the loop is such a step: what it knows of the elements   *)
(* compared is what the lemma about it needs.                              *)
LEMMA LoopMoves ==
  ASSUME SortInv, LoopStep
  PROVE  LoopMove
<1>1. PICK n \in Nat : n = Len(array)
  BY DEF SortInv, SortTypes
<1>2. PICK v \in [1 .. n -> Elements] : v = array
  BY <1>1 DEF SortInv, SortTypes
<1>3. v \in [1 .. n -> Int]
  BY <1>2, SortAssumption
<1>4. PICK a \in Int, l \in Int, i \in Int, j \in Int, lp \in Int, hp \in Int :
        /\ frame = [a |-> a, l |-> l, i |-> i, j |-> j, lp |-> lp, hp |-> hp]
        /\ 1 <= a /\ l <= n + 1
  BY <1>1 DEF SortInv, SortTypes, InArray, Fields
<1>5. Divides(v, a, l, i, j, lp, hp)
  BY <1>2, <1>4 DEF SortInv, Divided, LoopStep, EqualLeft, LessLeft, OnRight, EqualRight,
     GreaterRight, LessRight, GreaterLeft
<1>6. a <= i /\ i <= lp /\ lp <= hp /\ hp <= j /\ j < l
  BY <1>5 DEF Divides
<1>7. i \in 1 .. n /\ j \in 1 .. n /\ lp \in 1 .. n /\ hp \in 1 .. n
  BY <1>4, <1>6
<1>8. v[hp] = v[lp] /\ \A x \in 1 .. n : v[x] \in Int
  BY <1>3, <1>5, <1>6 DEF Divides
<1>9. PlacesOf(frame) = a .. l - 1 /\ Uncompared = lp - i + (j - hp)
  BY <1>4 DEF PlacesOf, Uncompared
<1>10. ASSUME NEW w \in [1 .. n -> Elements], NEW ni \in Int, NEW nj \in Int,
              NEW nlp \in Int, NEW nhp \in Int, array' = w, callers' = callers,
              frame' = [a |-> a, l |-> l, i |-> ni, j |-> nj, lp |-> nlp, hp |-> nhp],
              Rearranged(1 .. n, a .. l - 1, v, w), Divides(w, a, l, ni, nj, nlp, nhp),
              nlp - ni + (nj - nhp) < lp - i + (j - hp)
       PROVE  LoopMove
  <2>1. frame' \in Fields /\ frame'.a = frame.a /\ frame'.l = frame.l
    BY <1>4, <1>10 DEF Fields
  <2>2. Divided(array', frame')
    BY <1>10 DEF Divided
  <2>3. Uncompared' = nlp - ni + (nj - nhp)
    BY <1>10 DEF Uncompared
  <2>4. 0 <= nlp - ni + (nj - nhp)
    BY <1>10 DEF Divides
  <2> QED
    BY <1>1, <1>2, <1>9, <1>10, <2>1, <2>2, <2>3, <2>4 DEF LoopMove
<1>11. CASE EqualLeft
  <2>1. i < lp /\ v[i] = v[lp]
    BY <1>2, <1>4, <1>6, <1>11 DEF EqualLeft
  <2>2. /\ array' = qsexc(v, i, lp - 1) /\ callers' = callers
        /\ frame' = [a |-> a, l |-> l, i |-> i, j |-> j, lp |-> lp - 1, hp |-> hp]
    BY <1>2, <1>4, <1>11 DEF EqualLeft
  <2>3. qsexc(v, i, lp - 1) \in [1 .. n -> Elements]
    <3>1. lp - 1 \in 1 .. n
      BY <1>4, <1>6, <2>1
    <3> QED
      BY <1>7, <3>1 DEF qsexc
  <2>4. /\ Rearranged(1 .. n, a .. l - 1, v, qsexc(v, i, lp - 1))
        /\ Divides(qsexc(v, i, lp - 1), a, l, i, j, lp - 1, hp)
    BY <1>3, <1>4, <1>5, <2>1, EqualLeftDivides
  <2> QED
    BY <1>6, <1>10, <2>1, <2>2, <2>3, <2>4
<1>12. CASE LessLeft
  <2>1. i < lp /\ v[i] < v[lp]
    BY <1>2, <1>4, <1>6, <1>12 DEF LessLeft
  <2>2. /\ array' = v /\ callers' = callers
        /\ frame' = [a |-> a, l |-> l, i |-> i + 1, j |-> j, lp |-> lp, hp |-> hp]
    BY <1>2, <1>4, <1>12 DEF LessLeft
  <2>3. v \in [1 .. n -> Elements]
    OBVIOUS
  <2>4. /\ Rearranged(1 .. n, a .. l - 1, v, v)
        /\ Divides(v, a, l, i + 1, j, lp, hp)
    BY <1>4, <1>5, <2>1, SameRearranges, StayDivides
  <2> QED
    BY <1>6, <1>10, <2>1, <2>2, <2>3, <2>4
<1>13. CASE EqualRight
  <2>1. hp < j /\ v[hp] = v[j]
    BY <1>2, <1>4, <1>6, <1>13 DEF EqualRight, OnRight
  <2>2. /\ array' = qsexc(v, hp + 1, j) /\ callers' = callers
        /\ frame' = [a |-> a, l |-> l, i |-> i, j |-> j, lp |-> lp, hp |-> hp + 1]
    BY <1>2, <1>4, <1>13 DEF EqualRight, OnRight
  <2>3. qsexc(v, hp + 1, j) \in [1 .. n -> Elements]
    <3>1. hp + 1 \in 1 .. n
      BY <1>4, <1>6, <2>1
    <3> QED
      BY <1>7, <3>1 DEF qsexc
  <2>4. /\ Rearranged(1 .. n, a .. l - 1, v, qsexc(v, hp + 1, j))
        /\ Divides(qsexc(v, hp + 1, j), a, l, i, j, lp, hp + 1)
    BY <1>3, <1>4, <1>5, <2>1, EqualRightDivides
  <2> QED
    BY <1>6, <1>10, <2>1, <2>2, <2>3, <2>4
<1>14. CASE GreaterRight
  <2>1. hp < j /\ v[hp] < v[j]
    BY <1>2, <1>4, <1>6, <1>14 DEF GreaterRight, OnRight
  <2>2. /\ array' = v /\ callers' = callers
        /\ frame' = [a |-> a, l |-> l, i |-> i, j |-> j - 1, lp |-> lp, hp |-> hp]
    BY <1>2, <1>4, <1>14 DEF GreaterRight, OnRight
  <2>3. v \in [1 .. n -> Elements]
    OBVIOUS
  <2>4. /\ Rearranged(1 .. n, a .. l - 1, v, v)
        /\ Divides(v, a, l, i, j - 1, lp, hp)
    BY <1>4, <1>5, <2>1, SameRearranges, StayDivides
  <2> QED
    BY <1>6, <1>10, <2>1, <2>2, <2>3, <2>4
<1>15. CASE LessRight /\ frame.i = frame.lp
  <2>1. i = lp /\ hp < j /\ v[hp] > v[j]
    BY <1>2, <1>4, <1>6, <1>15 DEF LessRight, OnRight
  <2>2. /\ array' = qstexc(v, i, hp + 1, j) /\ callers' = callers
        /\ frame' = [a |-> a, l |-> l, i |-> lp + 1, j |-> j, lp |-> lp + 1, hp |-> hp + 1]
    BY <1>2, <1>4, <1>15 DEF LessRight, OnRight
  <2>3. qstexc(v, i, hp + 1, j) \in [1 .. n -> Elements]
    <3>1. hp + 1 \in 1 .. n
      BY <1>4, <1>6, <2>1
    <3> QED
      BY <1>7, <3>1 DEF qstexc
  <2>4. /\ Rearranged(1 .. n, a .. l - 1, v, qstexc(v, i, hp + 1, j))
        /\ Divides(qstexc(v, i, hp + 1, j), a, l, lp + 1, j, lp + 1, hp + 1)
    BY <1>3, <1>4, <1>5, <2>1, ToLeftDivides
  <2> QED
    BY <1>6, <1>10, <2>1, <2>2, <2>3, <2>4
<1>16. CASE LessRight /\ frame.i # frame.lp
  <2>1. i < lp /\ v[i] > v[lp] /\ hp < j /\ v[hp] > v[j]
    BY <1>2, <1>4, <1>6, <1>16 DEF LessRight, OnRight, LeftStays
  <2>2. /\ array' = qsexc(v, i, j) /\ callers' = callers
        /\ frame' = [a |-> a, l |-> l, i |-> i + 1, j |-> j - 1, lp |-> lp, hp |-> hp]
    BY <1>2, <1>4, <1>16 DEF LessRight, OnRight, LeftStays
  <2>3. qsexc(v, i, j) \in [1 .. n -> Elements]
    BY <1>7 DEF qsexc
  <2>4. /\ Rearranged(1 .. n, a .. l - 1, v, qsexc(v, i, j))
        /\ Divides(qsexc(v, i, j), a, l, i + 1, j - 1, lp, hp)
    BY <1>3, <1>4, <1>5, <2>1, ExchangeDivides
  <2> QED
    BY <1>6, <1>10, <2>1, <2>2, <2>3, <2>4
<1>17. CASE GreaterLeft
  <2>1. i < lp /\ v[i] > v[lp] /\ j = hp
    BY <1>2, <1>4, <1>6, <1>17 DEF GreaterLeft, LeftStays
  <2>2. /\ array' = qstexc(v, j, lp - 1, i) /\ callers' = callers
        /\ frame' = [a |-> a, l |-> l, i |-> i, j |-> hp - 1, lp |-> lp - 1, hp |-> hp - 1]
    BY <1>2, <1>4, <1>17 DEF GreaterLeft, LeftStays
  <2>3. qstexc(v, j, lp - 1, i) \in [1 .. n -> Elements]
    <3>1. lp - 1 \in 1 .. n
      BY <1>4, <1>6, <2>1
    <3> QED
      BY <1>7, <3>1 DEF qstexc
  <2>4. /\ Rearranged(1 .. n, a .. l - 1, v, qstexc(v, j, lp - 1, i))
        /\ Divides(qstexc(v, j, lp - 1, i), a, l, i, hp - 1, lp - 1, hp - 1)
    BY <1>3, <1>4, <1>5, <2>1, ToRightDivides
  <2> QED
    BY <1>6, <1>10, <2>1, <2>2, <2>3, <2>4
<1> QED
  BY <1>11, <1>12, <1>13, <1>14, <1>15, <1>16, <1>17 DEF LoopStep

(* A part of the same size has the same share, one of half the size that   *)
(* of a call.                                                              *)
LEMMA SharesOf ==
  ASSUME NEW n \in Nat, NEW k \in Nat, NEW f, NEW g, Size(f) \in Nat, Size(g) \in Nat,
         Halves(n, k, f)
  PROVE  /\ Size(g) <= Size(f) => Halves(n, k, g)
         /\ 2 * Size(g) <= Size(f) => Halves(n, k + 1, g)
<1>1. PICK p \in Nat : p = 2 ^ k /\ 2 ^ (k + 1) = 2 * p
  BY PowerDoubles
<1>2. PICK x \in Nat, y \in Nat : x = Size(f) /\ y = Size(g)
  OBVIOUS
<1>3. p * x <= n
  BY <1>1, <1>2 DEF Halves
<1>4. ASSUME y <= x PROVE p * y <= n
  <2>1. p * y <= p * x /\ p * y \in Nat /\ p * x \in Nat
    BY <1>4
  <2> QED
    BY <1>3, <2>1
<1>5. ASSUME 2 * y <= x PROVE (2 * p) * y <= n
  <2>1. PICK z \in Nat : z = 2 * y
    OBVIOUS
  <2>2. p * z <= p * x /\ p * z \in Nat /\ p * x \in Nat
    BY <1>5, <2>1
  <2>3. (2 * p) * y = p * z
    BY <2>1
  <2> QED
    BY <1>3, <2>2, <2>3
<1> QED
  BY <1>1, <1>2, <1>4, <1>5 DEF Halves

(* A step of the loop keeps the invariant: it disturbs the part of the     *)
(* frame only, and that as a whole stays where it was in the order.        *)
LEMMA LoopKeeps ==
  ASSUME SortInv, LoopMove
  PROVE  SortInv' /\ SameElements /\ Closer
<1>1. PICK n \in Nat : n = Len(array)
  BY DEF SortInv, SortTypes
<1>2. array \in [1 .. n -> Elements] /\ array' \in [1 .. n -> Elements] /\ Len(array') = n
  BY <1>1, LengthIs DEF SortInv, SortTypes, LoopMove
<1>3. array \in [1 .. n -> Int] /\ array' \in [1 .. n -> Int]
  BY <1>2, SortAssumption
<1>4. PICK a \in Int, l \in Int :
        /\ frame.a = a /\ frame.l = l /\ frame'.a = a /\ frame'.l = l
        /\ 1 <= a /\ a <= l /\ l <= n + 1
  BY <1>1 DEF SortInv, SortTypes, InArray, Fields, LoopMove
<1>5. /\ PlacesOf(frame) = a .. l - 1 /\ PlacesOf(frame') = a .. l - 1
      /\ Size(frame) = l - a /\ Size(frame') = l - a
  BY <1>4 DEF PlacesOf, Size
<1>6. callers' = callers /\ Rearranged(1 .. n, a .. l - 1, array, array')
  BY <1>1, <1>5 DEF LoopMove
<1>7. SortTypes'
  BY <1>1, <1>2, <1>4, <1>6 DEF SortInv, SortTypes, InArray, LoopMove
<1>8. (Looping => Divided(array, frame))'
  BY DEF LoopMove
<1>9. Open(Len(array), array, PlacesOf(frame), Len(callers), RestsOf(callers))'
  <2>4. PICK K \in Nat : K = Len(callers)
    BY LenProperties DEF SortInv, SortTypes
  <2>5. PICK R : R = RestsOf(callers)
    OBVIOUS
  <2>1. K = Len(callers) /\ R = RestsOf(callers)
    BY <2>4, <2>5
  <2>2. Open(n, array, a .. l - 1, K, R)
    BY <1>1, <1>5, <2>1 DEF SortInv
  <2>3. Open(n, array', a .. l - 1, K, R)
    BY <1>3, <1>4, <1>6, <2>2, RearrangedOpen
  <2> QED
    BY <1>2, <1>5, <1>6, <2>1, <2>3
<1>10. Nested'
  BY <1>1, <1>2, <1>5, <1>6 DEF SortInv, Nested, Halves
<1>11. SameElements
  <2>1. DOMAIN array = 1 .. n /\ DOMAIN array' = 1 .. n /\ IsFiniteSet(1 .. n)
    BY <1>2, FS_Interval
  <2>2. ASSUME NEW e \in Elements
        PROVE  Cardinality({x \in 1 .. n : array[x] = e})
                 = Cardinality({x \in 1 .. n : array'[x] = e})
    <3>1. PICK v, w, P : v = array /\ w = array' /\ P = a .. l - 1
      OBVIOUS
    <3>2. Rearranged(1 .. n, P, v, w)
      BY <1>6, <3>1
    <3>3. Cardinality(Holding(1 .. n, v, e)) = Cardinality(Holding(1 .. n, w, e))
      BY <2>1, <3>2, CountsKept
    <3> QED
      BY <3>1, <3>3 DEF Holding
  <2> QED
    BY <2>1, <2>2 DEF SameElements
<1>12. Closer
  <2>1. Unsorted' = Unsorted
    BY <1>5, <1>6 DEF Unsorted
  <2> QED
    BY <1>6, <2>1 DEF Closer, LoopMove
<1> QED
  BY <1>7, <1>8, <1>9, <1>10, <1>11, <1>12 DEF SortInv

(* The call for the smaller part: the places of the middle are sorted now, *)
(* and the share of the called one is half of that of the caller.          *)
LEMMA CallKeeps ==
  ASSUME SortInv, Call
  PROVE  SortInv' /\ SameElements /\ Closer
<1>1. PICK n \in Nat, K \in Nat : n = Len(array) /\ K = Len(callers)
  BY LenProperties DEF SortInv, SortTypes
<1>2. PICK a \in Int, l \in Int, lp \in Int, hp \in Int :
        /\ frame.a = a /\ frame.l = l /\ frame.lp = lp /\ frame.hp = hp
        /\ 1 <= a /\ l <= n + 1 /\ Divides(array, a, l, lp, hp, lp, hp)
  <2>1. Divided(array, frame)
    BY DEF SortInv, Call
  <2>2. frame.j = frame.hp /\ frame.i = frame.lp
    BY <2>1 DEF SortInv, SortTypes, InArray, Fields, Call, Divided, Divides
  <2> QED
    BY <1>1, <2>1, <2>2 DEF SortInv, SortTypes, InArray, Fields, Divided
<1>3. a <= lp /\ lp <= hp /\ hp < l
  BY <1>2 DEF Divides
<1>4. InArray(frame, n) /\ Waiting(frame)
  BY <1>1, <1>2, <1>3 DEF SortInv, SortTypes, Call, Looping, Waiting
<1>5. /\ InArray(Called(frame), n) /\ InArray(Rest(frame), n)
      /\ Size(Called(frame)) <= Size(Rest(frame))
      /\ Size(Called(frame)) + Size(Rest(frame)) < Size(frame)
      /\ Size(Called(frame)) > 1 => Divided(array, Called(frame))
  BY <1>4, PartsOf
<1>6. PICK F, S :
        /\ F = PlacesOf(Called(frame)) /\ S = PlacesOf(Rest(frame))
        /\ AreSides(F, S, a, l, lp, hp)
  BY <1>2, <1>4, PartsOf
<1>7. /\ callers \in Seq(Fields) /\ frame \in Fields /\ frame' = Called(frame)
      /\ callers' = Append(callers, frame) /\ array' = array
  BY DEF SortInv, SortTypes, InArray, Call
<1>8. /\ callers' \in Seq(Fields) /\ Len(callers') = K + 1
      /\ callers'[K + 1] = frame /\ \A k \in 1 .. K : callers'[k] = callers[k]
  BY <1>1, <1>7
<1>9. \A k \in 1 .. K + 1 : k = K + 1 \/ k \in 1 .. K
  OBVIOUS
<1>10. SortTypes'
  BY <1>1, <1>4, <1>5, <1>7, <1>8, <1>9 DEF SortInv, SortTypes
<1>11. (Looping => Divided(array, frame))'
  BY <1>5, <1>7 DEF Looping
<1>12. PICK R, Q : R = RestsOf(callers) /\ Q = RestsOf(callers')
  OBVIOUS
<1>13. Q[K + 1] = S /\ \A k \in 1 .. K : Q[k] = R[k]
  BY <1>1, <1>6, <1>8, <1>9, <1>12 DEF RestsOf
<1>14. Open(n, array, a .. l - 1, K, R)
  BY <1>1, <1>2, <1>12 DEF SortInv, PlacesOf
<1>15. Open(n, array, F, K + 1, Q)
  <2>1. array \in [1 .. n -> Int]
    BY <1>1, SortAssumption DEF SortInv, SortTypes
  <2> QED
    BY <1>2, <1>6, <1>13, <1>14, <2>1, SplitOpen
<1>16. Nested'
  <2>1. PICK x \in Nat, y \in Nat, z \in Nat :
          x = Size(frame) /\ y = Size(Called(frame)) /\ z = Size(Rest(frame))
    BY <1>4, <1>5 DEF InArray, Fields, Size
  <2>2. 2 * y <= x
    BY <1>5, <2>1
  <2>3. Halves(n, K, frame)
    BY <1>1 DEF SortInv, Nested
  <2>4. Halves(n, K + 1, Called(frame))
    BY <2>1, <2>2, <2>3, SharesOf
  <2>5. ASSUME NEW k \in 1 .. K + 1 PROVE Halves(n, k - 1, callers'[k])
    <3>1. CASE k = K + 1
      <4>1. k - 1 = K
        BY <3>1
      <4> QED
        BY <1>8, <2>3, <3>1, <4>1
    <3>2. CASE k \in 1 .. K
      BY <1>1, <1>8, <3>2 DEF SortInv, Nested
    <3> QED
      BY <1>9, <3>1, <3>2
  <2> QED
    BY <1>1, <1>7, <1>8, <2>4, <2>5 DEF Nested
<1>17. SameElements
  BY <1>7 DEF SameElements
<1>18. Closer
  <2> DEFINE U == (a .. l - 1) \cup UNION {R[k] : k \in 1 .. K}
             W == F \cup UNION {Q[k] : k \in 1 .. K + 1}
  <2>1. DOMAIN callers = 1 .. K /\ DOMAIN callers' = 1 .. K + 1
    BY <1>1, <1>7, <1>8
  <2>2. /\ \A k \in 1 .. K : R[k] = PlacesOf(Rest(callers[k]))
        /\ \A k \in 1 .. K + 1 : Q[k] = PlacesOf(Rest(callers'[k]))
    BY <1>1, <1>8, <1>12 DEF RestsOf
  <2>3. Unsorted = U
    BY <1>2, <2>1, <2>2 DEF Unsorted, PlacesOf
  <2>4. Unsorted' = W
    BY <1>6, <1>7, <2>1, <2>2 DEF Unsorted
  <2>5. F \subseteq a .. l - 1 /\ S \subseteq a .. l - 1 /\ lp \notin F /\ lp \notin S
    BY <1>3, <1>6 DEF AreSides
  <2>6. W = F \cup S \cup UNION {R[k] : k \in 1 .. K}
    BY <1>9, <1>13
  <2>7. lp \in a .. l - 1 /\ \A k \in 1 .. K : lp \notin R[k]
    BY <1>3, <1>14 DEF Open, Outside
  <2>8. W \subseteq U /\ lp \in U /\ lp \notin W
    BY <2>5, <2>6, <2>7
  <2> QED
    BY <2>3, <2>4, <2>8 DEF Closer
<1> QED
  BY <1>1, <1>6, <1>7, <1>8, <1>10, <1>11, <1>12, <1>15, <1>16, <1>17, <1>18 DEF SortInv

(* A part without two places is sorted, and its caller goes on with the    *)
(* rest of its own, which is apart from those of the callers before it.    *)
LEMMA ResumeKeeps ==
  ASSUME SortInv, Resume
  PROVE  SortInv' /\ SameElements /\ Closer
<1>1. PICK n \in Nat, K \in Nat \ {0} : n = Len(array) /\ K = Len(callers)
  BY EmptySeq DEF SortInv, SortTypes, Resume
<1>2. PICK f : f = callers[K]
  OBVIOUS
<1>3. K \in 1 .. K /\ \A k \in 1 .. K - 1 : k \in 1 .. K
  OBVIOUS
<1>4. InArray(f, n) /\ Waiting(f)
  BY <1>1, <1>2, <1>3 DEF SortInv, SortTypes
<1>5. /\ InArray(Rest(f), n) /\ InArray(Called(f), n)
      /\ Size(Called(f)) + Size(Rest(f)) < Size(f)
      /\ Size(Rest(f)) > 1 => Divided(array, Rest(f))
  BY <1>4, PartsOf
<1>6. /\ callers \in Seq(Fields) /\ frame' = Rest(f) /\ array' = array
      /\ callers' = SubSeq(callers, 1, K - 1)
  BY <1>1, <1>2 DEF SortInv, SortTypes, Resume
<1>7. /\ callers' \in Seq(Fields) /\ Len(callers') = K - 1
      /\ \A k \in 1 .. K - 1 : callers'[k] = callers[k]
  BY <1>1, <1>6
<1>8. SortTypes'
  BY <1>1, <1>3, <1>5, <1>6, <1>7 DEF SortInv, SortTypes
<1>9. (Looping => Divided(array, frame))'
  BY <1>5, <1>6 DEF Looping
<1>10. PICK R, Q : R = RestsOf(callers) /\ Q = RestsOf(callers')
  OBVIOUS
<1>11. R[K] = PlacesOf(Rest(f)) /\ \A k \in 1 .. K - 1 : Q[k] = R[k]
  BY <1>1, <1>2, <1>3, <1>7, <1>10 DEF RestsOf
<1>12. Open(n, array, PlacesOf(frame), K, R)
  BY <1>1, <1>10 DEF SortInv
<1>13. \A x, y \in PlacesOf(frame) : x = y
  <2>1. PICK a \in Int, l \in Int : frame.a = a /\ frame.l = l /\ ~ (l - a > 1)
    BY DEF Resume, Looping, Size, SortInv, SortTypes, InArray, Fields
  <2>2. PlacesOf(frame) = a .. l - 1
    BY <2>1 DEF PlacesOf
  <2>3. \A x, y \in a .. l - 1 : x = y
    BY <2>1
  <2> QED
    BY <2>2, <2>3
<1>14. Open(n, array, PlacesOf(Rest(f)), K - 1, Q)
  BY <1>11, <1>12, <1>13, LeaveOpen
<1>15. Nested'
  <2>1. Size(f) \in Nat /\ Size(Rest(f)) \in Nat /\ Size(Called(f)) \in Nat
    BY <1>4, <1>5 DEF InArray, Fields, Size
  <2>2. Halves(n, K - 1, f) /\ K - 1 \in Nat
    BY <1>1, <1>2, <1>3 DEF SortInv, Nested
  <2>3. Size(Rest(f)) <= Size(f)
    BY <1>5, <2>1
  <2>4. Halves(n, K - 1, Rest(f))
    BY <2>1, <2>2, <2>3, SharesOf
  <2> QED
    BY <1>1, <1>3, <1>6, <1>7, <2>4 DEF SortInv, Nested
<1>16. SameElements
  BY <1>6 DEF SameElements
<1>17. Closer
  <2>1. DOMAIN callers = 1 .. K /\ DOMAIN callers' = 1 .. K - 1
    BY <1>1, <1>6, <1>7
  <2>2. Unsorted' \subseteq Unsorted
    BY <1>2, <1>3, <1>6, <1>7, <2>1 DEF Unsorted
  <2> QED
    BY <1>1, <1>7, <2>2 DEF Closer
<1> QED
  BY <1>1, <1>6, <1>7, <1>8, <1>9, <1>10, <1>14, <1>15, <1>16, <1>17 DEF SortInv

(* At first all places are still to be sorted, in one frame.               *)
LEMMA SortStarts ==
  ASSUME SortInit
  PROVE  SortInv
<1>1. PICK n \in Nat : array \in [1 .. n -> Elements]
  BY SortAssumption DEF SortInit
<1>2. Len(array) = n
  BY <1>1, LengthIs
<1>3. PICK l \in Int : l = n + 1 /\ 1 <= l /\ l <= n + 1
  OBVIOUS
<1>4. frame = Part(1, l) /\ callers = <<>> /\ callers \in Seq(Fields) /\ Len(callers) = 0
  BY <1>2, <1>3, EmptySeq DEF SortInit
<1>5. /\ InArray(frame, n) /\ Size(frame) = l - 1 /\ PlacesOf(frame) = 1 .. l - 1
      /\ l - 1 > 1 => Divided(array, frame)
  BY <1>3, <1>4, PartIs
<1>6. SortTypes
  BY <1>1, <1>2, <1>4, <1>5 DEF SortTypes
<1>7. Looping => Divided(array, frame)
  BY <1>5 DEF Looping
<1>8. Nested
  <2>1. 2 ^ 0 = 1
    OBVIOUS
  <2>2. Size(frame) = n
    BY <1>3, <1>5
  <2>3. Halves(n, 0, frame)
    BY <2>1, <2>2 DEF Halves
  <2> QED
    BY <1>2, <1>4, <2>3 DEF Nested
<1>9. Open(Len(array), array, PlacesOf(frame), Len(callers), RestsOf(callers))
  <2>1. PlacesOf(frame) = 1 .. n
    BY <1>3, <1>5
  <2> QED
    BY <1>2, <1>4, <2>1 DEF Open, Apart, Outside, Settled
<1> QED
  BY <1>6, <1>7, <1>8, <1>9 DEF SortInv

(* What holds of the end: nothing is left to be sorted.                    *)
LEMMA FinishedInOrder ==
  ASSUME SortInv, Finished
  PROVE  InOrder
<1>1. PICK n \in Nat : n = Len(array) /\ DOMAIN array = 1 .. n
  BY DEF SortInv, SortTypes
<1>2. Len(callers) = 0
  BY EmptySeq DEF Finished
<1>3. Settled(n, array, PlacesOf(frame), 0, RestsOf(callers))
  BY <1>1, <1>2 DEF SortInv, Open
<1>4. PICK a \in Int, l \in Int : frame.a = a /\ frame.l = l /\ ~ (l - a > 1)
  BY DEF Finished, Looping, Size, SortInv, SortTypes, InArray, Fields
<1>5. \A x, y \in PlacesOf(frame) : x = y
  BY <1>4 DEF PlacesOf
<1>6. ASSUME NEW x \in 1 .. n, NEW y \in 1 .. n, x < y PROVE array[x] <= array[y]
  BY <1>3, <1>5, <1>6 DEF Settled
<1> QED
  BY <1>1, <1>6 DEF InOrder

(* A caller at depth k has at least two places and no more than its share  *)
(* of them, which bounds k.                                                *)
LEMMA AlwaysShallow ==
  ASSUME SortInv
  PROVE  Shallow
<1> SUFFICES ASSUME callers # <<>> PROVE 2 ^ Len(callers) <= Len(array)
  BY DEF Shallow
<1>1. PICK n \in Nat, K \in Nat \ {0} : n = Len(array) /\ K = Len(callers)
  BY EmptySeq DEF SortInv, SortTypes
<1>2. PICK k \in Nat : k = K - 1 /\ K = k + 1 /\ K \in 1 .. K
  OBVIOUS
<1>3. InArray(callers[K], n) /\ Waiting(callers[K]) /\ Halves(n, k, callers[K])
  BY <1>1, <1>2 DEF SortInv, SortTypes, Nested
<1>4. PICK x \in Nat : x = Size(callers[K]) /\ x >= 2
  BY <1>3 DEF InArray, Waiting, Fields, Size
<1>5. PICK p \in Nat : p = 2 ^ k /\ 2 ^ K = 2 * p
  BY <1>2, PowerDoubles
<1>6. p * x <= n
  BY <1>3, <1>4, <1>5 DEF Halves
<1>7. p * 2 <= p * x /\ p * x \in Nat
  BY <1>4
<1> QED
  BY <1>1, <1>5, <1>6, <1>7

(* The three together: a step of the sort.                                 *)
LEMMA SortStep ==
  ASSUME SortInv, SortNext
  PROVE  SortInv' /\ SameElements /\ Closer
<1>1. CASE LoopStep
  BY <1>1, LoopMoves, LoopKeeps
<1>2. CASE Call
  BY <1>2, CallKeeps
<1>3. CASE Resume
  BY <1>3, ResumeKeeps
<1> QED
  BY <1>1, <1>2, <1>3 DEF SortNext, LoopStep

(* The inductive invariant of qs1: what is still to be sorted are the part *)
(* of the frame and the rests of the callers, which are apart; all other   *)
(* pairs of places are in order; the loop has divided its part; and a call *)
(* has its share of the array.                                             *)
THEOREM SortInvariant == SortSpec => []SortInv
<1>1. SortInit => SortInv
  BY SortStarts
<1>2. SortInv /\ [SortNext]_svars => SortInv'
  <2> SUFFICES ASSUME SortInv, [SortNext]_svars PROVE SortInv'
    OBVIOUS
  <2>1. CASE SortNext
    BY <2>1, SortStep
  <2>2. CASE UNCHANGED svars
    <3>1. array' = array /\ frame' = frame /\ callers' = callers
      BY <2>2 DEF svars
    <3> QED
      BY <3>1 DEF SortInv, SortTypes, Looping, Nested
  <2> QED
    BY <2>1, <2>2
<1> QED
  BY <1>1, <1>2, PTL DEF SortSpec

(* qsort sorts any array of any length: when it ends the elements are in   *)
(* order, every step keeps them and brings the end closer, and the calls   *)
(* of qs1 nest no deeper than the logarithm of the length.                 *)
THEOREM QsortSorts == SortSpec => Sorts
<1>1. SortInv => (Finished => InOrder) /\ Shallow
  BY FinishedInOrder, AlwaysShallow
<1>2. SortInv /\ [SortNext]_svars => [SameElements /\ Closer]_svars
  <2> SUFFICES ASSUME SortInv, SortNext PROVE SameElements /\ Closer
    OBVIOUS
  <2> QED
    BY SortStep
<1> QED
  BY <1>1, <1>2, SortInvariant, PTL DEF SortSpec, Sorts
=============================================================================
