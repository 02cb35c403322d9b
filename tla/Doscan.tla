------------------------------- MODULE Doscan -------------------------------
(***************************************************************************)
(* Formatted input from a string (lib/libxc/doscan.c, sscanf of scanf.c)   *)
(* and atol.  The input is a string and the position p of the next         *)
(* character; behind its end getch finds EOF and stays there.              *)
(*                                                                         *)
(* A definition whose name ends in _Capitalised is a variant of the one    *)
(* below it with a mistake in it, which no specification uses.             *)
(***************************************************************************)
EXTENDS Doprnt

EOF == -1

getch(s, p) == IF p \in DOMAIN s THEN s[p] ELSE EOF

Blanks == {32, 9, 10}   \* ' ', '\t', '\n'

RECURSIVE SkipBlanks(_, _)
SkipBlanks(s, p) == IF getch(s, p) \in Blanks THEN SkipBlanks(s, p + 1) ELSE p

FullLength == 30000   \* when a directive gives none

---------------------------------------------------------------------------
(* _innum: a number, in any case of its letters.                           *)

DigitOf(c, base) ==
  CASE c \in 48 .. 57 -> c - 48
    [] base = 16 /\ c \in 97 .. 102 -> c - 87
    [] base = 16 /\ c \in 65 .. 70 -> c - 55
    [] OTHER -> EOF

(* At most len digits at p; in base 8 and 16, too, 8 and 9 are digits.     *)
RECURSIVE Digits(_, _, _, _, _)
Digits(s, p, len, base, val) ==
  LET d == DigitOf(getch(s, p), base)
  IN  IF len <= 0 \/ d = EOF THEN [p |-> p, val |-> val]
      ELSE Digits(s, p + 1, len - 1, base, ToWord(val * base + d))

Base(type) == CASE type = 111 -> 8 [] type = 120 -> 16 [] OTHER -> 10

_innum_NoSign(s, p, type, len) ==
  LET p1 == SkipBlanks(s, p)
      d  == Digits(s, IF getch(s, p1) \in {43, Minus} THEN p1 + 1 ELSE p1, len, Base(type), 0)
  IN  [ok |-> d.p > p1, val |-> d.val, p |-> d.p, ended |-> getch(s, d.p) = EOF]

(* A '-' alone is a number, too: it is in numbuf.  With all of len read,   *)
(* the character behind is read as well, and pushed back unless it is EOF. *)
_innum(s, p, type, len) ==
  LET p1   == SkipBlanks(s, p)
      neg  == getch(s, p1) = Minus
      sign == neg \/ getch(s, p1) = 43
      p2   == IF sign THEN p1 + 1 ELSE p1
      d    == Digits(s, p2, IF sign THEN len - 1 ELSE len, Base(type), 0)
  IN  [ok |-> neg \/ d.p > p2, val |-> IF neg THEN ToWord(-d.val) ELSE d.val,
       p |-> d.p, ended |-> getch(s, d.p) = EOF]

---------------------------------------------------------------------------
(* _instr: characters, up to one of the set stop, at most len.             *)

RECURSIVE Until(_, _, _, _)
Until(s, p, len, stop) ==
  IF getch(s, p) \in stop \cup {EOF} \/ len <= 0 THEN p ELSE Until(s, p + 1, len - 1, stop)

(* When len characters were read, the one behind them was not looked at.   *)
_instr(s, p, type, len, stop) ==
  LET p1 == IF type = LetterS THEN SkipBlanks(s, p) ELSE p
      n  == IF type = LetterC /\ len = FullLength THEN 1 ELSE len
      q  == Until(s, p1, n, CASE type = LetterS -> {9, 10, 32}
                              [] type = LetterC -> {}
                              [] OTHER -> stop)
  IN  [ok |-> q > p1, val |-> SubSeq(s, p1, q - 1), p |-> q,
       ended |-> q - p1 < n /\ getch(s, q) = EOF]

(* _getccl: the characters that stop, from a class at the start of f that  *)
(* a ']' ends, and what is behind it.  A '-' is a character like others.   *)
Bracket == 91
Caret   == 94

_getccl(f) ==
  LET g == Skip(f, Caret)
      n == Min({i \in DOMAIN g : g[i] = 93})
      c == {g[i] : i \in 1 .. n - 1}
  IN  [stop |-> IF g # f THEN c ELSE (0 .. 127) \ c, f |-> SubSeq(g, n + 1, Len(g))]

---------------------------------------------------------------------------
(* A directive: what follows a '%'.                                        *)

ScanDirective(f) ==
  LET f1   == Skip(f, Star)
      num  == Number(f1, 0)
      long == num.f # <<>> /\ num.f[1] \in {ell, 104}   \* or 'h'
      f2   == IF long THEN Tail(num.f) ELSE num.f
      ccl  == f2[1] = Bracket /\ ~long
      k    == IF ccl THEN _getccl(Tail(f2)) ELSE [stop |-> {}, f |-> Tail(f2)]
  IN  IF f2 = <<>> THEN [type |-> 0]
      ELSE [assign |-> f1 = f, len |-> IF num.n = 0 THEN FullLength ELSE num.n,
            short |-> long /\ num.f[1] = 104,
            type |-> IF f2[1] \in 65 .. 90 THEN f2[1] + 32 ELSE f2[1],
            stop |-> k.stop, f |-> k.f]

(* With 'h', the half of the word that is left of a number.                *)
ToShort(n) == ((n + 2 ^ (WORD \div 2 - 1)) % 2 ^ (WORD \div 2)) - 2 ^ (WORD \div 2 - 1)

Scanned(s, p, d) ==
  IF d.type \in {LetterC, LetterS, Bracket} THEN _instr(s, p, d.type, d.len, d.stop)
  ELSE IF d.short THEN [_innum(s, p, d.type, d.len) EXCEPT !.val = ToShort(@)]
  ELSE _innum(s, p, d.type, d.len)

(* _doscan from the format f on, with the values vals assigned: how many   *)
(* they are or -1, and where it stops.  The end of the input ends it even  *)
(* when the directive was satisfied.                                       *)
Stopped(n, p, vals) == [n |-> n, p |-> p, vals |-> vals]

RECURSIVE _doscan(_, _, _, _)
_doscan(f, s, p, vals) ==
  IF f = <<>> THEN Stopped(Len(vals), p, vals)
  ELSE IF f[1] = Percent /\ ~(Len(f) > 1 /\ f[2] = Percent)
  THEN LET d == ScanDirective(Tail(f))
           r == Scanned(s, p, d)
           v == IF r.ok /\ d.assign THEN Append(vals, r.val) ELSE vals
       IN  IF d.type = 0 THEN Stopped(-1, p, vals)
           ELSE IF r.ended THEN Stopped(IF v = <<>> THEN -1 ELSE Len(v), r.p, v)
           ELSE _doscan(d.f, s, r.p, v)
  ELSE IF f[1] \in Blanks THEN _doscan(Tail(f), s, SkipBlanks(s, p), vals)
  ELSE IF getch(s, p) = f[1]
  THEN _doscan(IF f[1] = Percent THEN SubSeq(f, 3, Len(f)) ELSE Tail(f), s, p + 1, vals)
  ELSE Stopped(IF getch(s, p) = EOF THEN -1 ELSE Len(vals), p, vals)

sscanf(s, f) == _doscan(f, s, 1, <<>>)

---------------------------------------------------------------------------
RECURSIVE SkipSpaces(_, _)
SkipSpaces(s, p) == IF getch(s, p) \in {32, 9} THEN SkipSpaces(s, p + 1) ELSE p

(* A number with a sign that no space follows.                             *)
atol(s) ==
  LET p == SkipSpaces(s, 1)
      f == getch(s, p) = Minus
      v == Digits(s, IF getch(s, p) \in {Minus, 43} THEN p + 1 ELSE p, FullLength, 10, 0).val
  IN  IF f THEN ToWord(-v) ELSE v
=============================================================================
