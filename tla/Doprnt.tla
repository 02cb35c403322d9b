------------------------------- MODULE Doprnt -------------------------------
(***************************************************************************)
(* Formatted output (lib/libxc/doprnt.c): _doprnt, which kprintf calls for *)
(* every message of the kernel and sprintf for programs.                   *)
(*                                                                         *)
(* A string is the sequence of its characters, which are their ASCII       *)
(* numbers.  A word has WORD bits, 32 in the code; where the code has a    *)
(* number of digits of such a word, so has the model.  longflag is 1       *)
(* everywhere, as INT_NOT_LONG is not defined: a number is a long.         *)
(*                                                                         *)
(* A definition whose name ends in _Capitalised is a variant of the one    *)
(* below it with a mistake in it, which no specification uses.             *)
(***************************************************************************)
EXTENDS Integers, Sequences, FiniteSetsExt

CONSTANTS
  WORD,     \* the bits of an int and of a long
  DECIMAL,  \* the decimal digits of a word: 10 of 32 bits
  StringSize, \* the bytes of string: 20
  MAXSTR    \* the widest field

(* A word of digits 1 0 .. 0 fits twice below the sign: the subtraction in *)
(* Decimal needs it.                                                       *)
ASSUME WordAssumption ==
  /\ WORD \in Nat \ {0} /\ WORD % 4 = 0 /\ DECIMAL \in Nat \ {0} /\ MAXSTR \in Nat
  /\ StringSize \in Nat \ {0}
  /\ 2 * 10 ^ (DECIMAL - 1) <= 2 ^ (WORD - 1) /\ 2 ^ (WORD - 1) <= 10 ^ DECIMAL \div 2

Percent == 37
Minus   == 45
Point   == 46
Star    == 42
Space   == 32
Zero    == 48
ell     == 108   \* 'l'

UNDEFINED == 256   \* a character that was never set, or overwritten

IsDigit(c) == c \in 48 .. 57

DigitChar(d) == IF d < 10 THEN 48 + d ELSE 87 + d

(* A number as the word that is left of it.                                *)
ToWord(n) == ((n + 2 ^ (WORD - 1)) % 2 ^ WORD) - 2 ^ (WORD - 1)

(* The digits without leading zeros, from the lowest-first ones of temp.   *)
Significant(temp) ==
  LET k == Max({1} \cup {i \in DOMAIN temp : temp[i] # 0})
  IN  [j \in 1 .. k |-> DigitChar(temp[k + 1 - j])]

(* _prtl10, _prtl8, _prtl16, _prtl2: a shift of a negative number keeps    *)
(* its sign; the top octal digit has what bits are left.                   *)
_prtl10(num) == Significant([i \in 1 .. DECIMAL |-> (num \div 10 ^ (i - 1)) % 10])

Octal == (WORD + 2) \div 3

_prtl8(num) ==
  Significant([i \in 1 .. Octal |->
                 (num \div 8 ^ (i - 1)) % (IF i = Octal THEN 2 ^ (WORD - 3 * (i - 1)) ELSE 8)])

_prtl16(num) == Significant([i \in 1 .. WORD \div 4 |-> (num \div 16 ^ (i - 1)) % 16])

_prtl2(num) == Significant([i \in 1 .. WORD |-> (num \div 2 ^ (i - 1)) % 2])

(* 'u', and 'd' after its sign: a word that is negative as a long is made  *)
(* positive in steps of 10 .. 0, which its first digit gets back.          *)
Decimal_NoDigit1(arg) == _prtl10(IF arg < 0 THEN arg + 2 ^ (WORD - 1) ELSE arg)

RECURSIVE Decimal(_)
Decimal(arg) ==
  IF arg >= 0 THEN _prtl10(arg)
  ELSE [Decimal(ToWord(arg - 10 ^ (DECIMAL - 1))) EXCEPT ![1] = @ + 1]

---------------------------------------------------------------------------
(* A directive: what follows a '%' that no other '%' follows.              *)

RECURSIVE Number(_, _)
Number(f, n) ==   \* the number at the start of f, and what is behind it
  IF f # <<>> /\ IsDigit(f[1]) THEN Number(Tail(f), n * 10 + (f[1] - 48))
                               ELSE [n |-> n, f |-> f, args |-> 0]

(* A number or, for a '*', the next argument; used of them.                *)
NumberOrStar(f, args) ==
  IF f # <<>> /\ f[1] = Star THEN [n |-> args[1], f |-> Tail(f), args |-> 1]
                             ELSE Number(f, 0)

Skip(f, c) == IF f # <<>> /\ f[1] = c THEN Tail(f) ELSE f

Directive(f, args) ==
  LET f1 == Skip(f, Minus)
      f2 == Skip(f1, Zero)
      min == NumberOrStar(f2, args)
      args1 == SubSeq(args, 1 + min.args, Len(args))
      max == IF min.f # <<>> /\ min.f[1] = Point THEN NumberOrStar(Tail(min.f), args1)
                                                 ELSE [n |-> 0, f |-> min.f, args |-> 0]
  IN  [leftjust |-> f1 # f, fill |-> IF f2 # f1 THEN Zero ELSE Space,
       fmin |-> min.n, fmax |-> max.n, f |-> Skip(max.f, ell),
       args |-> SubSeq(args1, 1 + max.args, Len(args1))]

Fill(n, c) == [i \in 1 .. n |-> c]

InRange(n) == IF n > MAXSTR \/ n < 0 THEN 0 ELSE n

Field_SignNotCounted(d, sign, str) ==
  LET fmin   == InRange(d.fmin)
      length == Len(str)
      fill   == Fill(fmin - length, d.fill)
  IN  (IF sign /\ d.fill = Zero THEN <<Minus>> ELSE <<>>)
        \o (IF d.leftjust THEN <<>> ELSE fill)
        \o (IF sign /\ d.fill = Space THEN <<Minus>> ELSE <<>>)
        \o str \o (IF d.leftjust THEN fill ELSE <<>>)

Field(d, sign, str) ==
  LET fmin   == InRange(d.fmin)
      fmax   == InRange(d.fmax)
      length == IF fmax # 0 THEN Min({Len(str), fmax}) ELSE Len(str)
      fill   == Fill(IF fmin = 0 THEN 0 ELSE fmin - length - (IF sign THEN 1 ELSE 0), d.fill)
  IN  (IF sign /\ d.fill = Zero THEN <<Minus>> ELSE <<>>)
        \o (IF d.leftjust THEN <<>> ELSE fill)
        \o (IF sign /\ d.fill = Space THEN <<Minus>> ELSE <<>>)
        \o SubSeq(str, 1, length) \o (IF d.leftjust THEN fill ELSE <<>>)

(* The conversions, by their letters, which for numbers may be capitals.   *)
LetterD == {68, 100}
LetterU == {85, 117}
LetterO == {79, 111}
LetterX == {88, 120}
LetterB == {66, 98}
LetterC == 99
LetterS == 115

(* The digits and the NUL in string.  What is longer, which only binary    *)
(* numerals are, overwrites the variables behind it: then nothing is said. *)
InString(s) == IF Len(s) < StringSize THEN s ELSE <<UNDEFINED>>

Numeral(f, arg) == InString(
  CASE f \in LetterD -> Decimal(IF arg < 0 THEN ToWord(-arg) ELSE arg)
    [] f \in LetterU -> Decimal(arg)
    [] f \in LetterO -> _prtl8(arg)
    [] f \in LetterX -> _prtl16(arg)
    [] f \in LetterB -> _prtl2(arg))

Converted(d, f, arg) ==
  CASE f = LetterC -> Field([d EXCEPT !.fmax = 0, !.fill = Space], FALSE,
                            IF arg = 0 THEN <<>> ELSE <<arg>>)
    [] f = LetterS -> Field([d EXCEPT !.fill = Space], FALSE, arg)
    [] f \in LetterD \cup LetterU \cup LetterO \cup LetterX \cup LetterB ->
         Field([d EXCEPT !.fmax = 0], f \in LetterD /\ arg < 0, Numeral(f, arg))
    [] OTHER -> <<f, UNDEFINED>>   \* and string, which no number was put into

(* What is put by _doprnt(fmt, args).                                      *)
RECURSIVE _doprnt(_, _)
_doprnt(fmt, args) ==
  IF fmt = <<>> THEN <<>>
  ELSE IF fmt[1] # Percent THEN <<fmt[1]>> \o _doprnt(Tail(fmt), args)
  ELSE IF Len(fmt) > 1 /\ fmt[2] = Percent
       THEN <<Percent>> \o _doprnt(SubSeq(fmt, 3, Len(fmt)), args)
  ELSE LET d == Directive(Tail(fmt), args)
       IN  IF d.f = <<>> THEN <<Percent>>
           ELSE Converted(d, d.f[1], d.args[1]) \o _doprnt(Tail(d.f), Tail(d.args))
=============================================================================
