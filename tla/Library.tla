------------------------------ MODULE Library ------------------------------
(***************************************************************************)
(* The routines that work on their arguments alone, called one at a time:  *)
(* formatted output and input, and the tables of the boot decompressor;    *)
(* and the sort, and the console, which kprintf calls for each character.  *)
(* A step is a call, one of the sort, or a character.                      *)
(***************************************************************************)
EXTENDS Doscan, Qsort, Huft, Console

CONSTANTS
  Numbers,   \* the words that are printed
  ScanNumbers, \* and those of them that are scanned, too, two at a time
  Widths,    \* the widths of fields
  CodeLens   \* the lengths of codes: sequences

VARIABLES call, result

NoCall   == [op |-> "none"]
NoResult == [set |-> FALSE]

vars == <<call, result, screen, crtat, at, array, frame, callers>>

NumberLetters == LetterD \cup LetterU \cup LetterO \cup LetterX \cup LetterB

Calls ==
  [op : {"sprintf"}, letter : NumberLetters, arg : Numbers]
    \cup [op : {"field"}, leftjust : BOOLEAN, zero : BOOLEAN, width : Widths, arg : Numbers]
    \cup [op : {"sscanf"}, letter : {100, 111, 120}, args : ScanNumbers \X ScanNumbers]
    \cup [op : {"qsort"}]
    \cup [op : {"huft_build"}, lens : CodeLens, bits : 1 .. 3]

(* The console and the sort stand still beside a call of the others, in    *)
(* any one state.                                                          *)
Init ==
  /\ call \in Calls \cup {NoCall} /\ result = NoResult
  /\ ConsoleInit
  /\ call # NoCall => screen[0] = Min(Chars) /\ at = Min(BootCursors)
  /\ IF call.op = "qsort" THEN TRUE ELSE array = <<>>
  /\ SortInit

Return(x) == result' = x /\ UNCHANGED <<call, cvars, svars>>

Asked(op) == call.op = op /\ ~result.set

(* "%u" and the like.                                                      *)
sprintf == Asked("sprintf")
             /\ Return([set |-> TRUE, s |-> _doprnt(<<Percent, call.letter>>, <<call.arg>>)])

(* "%-0*d", with or without the '-' and the '0'.                           *)
sprintf_field ==
  Asked("field")
    /\ Return([set |-> TRUE,
               s |-> _doprnt(<<Percent>> \o (IF call.leftjust THEN <<Minus>> ELSE <<>>)
                               \o (IF call.zero THEN <<Zero>> ELSE <<>>) \o <<Star, 100>>,
                             <<call.width, call.arg>>)])

(* Two numbers are printed by "%u %u", or "%d %d", and scanned again.      *)
TwoOf(letter) == <<Percent, letter, Space, Percent, letter>>

sprintf_sscanf ==
  Asked("sscanf")
    /\ LET s == _doprnt(TwoOf(call.letter), call.args)
       IN  Return([set |-> TRUE, scan |-> sscanf(s, TwoOf(call.letter)), atol |-> atol(s),
                   length |-> Len(s)])

qsort == Asked("qsort") /\ SortNext /\ UNCHANGED <<call, result, cvars>>

huft_build_call ==
  Asked("huft_build")
    /\ Return(huft_build(call.lens, Len(call.lens), <<>>, <<>>, call.bits) @@ [set |-> TRUE])

kprintf == call = NoCall /\ ConsoleNext /\ UNCHANGED <<call, result, svars>>

Next == sprintf \/ sprintf_field \/ sprintf_sscanf \/ qsort \/ huft_build_call \/ kprintf

Spec == Init /\ [][Next]_vars

Returned(op) == call.op = op /\ result.set

---------------------------------------------------------------------------
(* The number that a numeral denotes.                                      *)
Denoted(s, base) ==
  LET n[i \in 0 .. Len(s)] ==
        IF i = 0 THEN 0
        ELSE n[i - 1] * base + (IF s[i] >= 97 THEN s[i] - 87 ELSE s[i] - 48)
  IN  n[Len(s)]

BaseOf(letter) == CASE letter \in LetterO -> 8 [] letter \in LetterX -> 16
                    [] letter \in LetterB -> 2 [] OTHER -> 10

NumeralRight ==
  LET neg    == call.letter \in LetterD /\ call.arg < 0
      digits == IF neg THEN Tail(result.s) ELSE result.s
  IN  /\ neg => result.s[1] = Minus
      /\ Denoted(digits, BaseOf(call.letter)) = (IF neg THEN -call.arg ELSE call.arg % 2 ^ WORD)
      /\ digits[1] = Zero => digits = <<Zero>>

(* Every word is printed in every base as the number it is, INT_MIN and    *)
(* the unsigned words past INT_MAX too, with no leading zero, but for      *)
(* binary numerals that do not fit into string: see BinaryFits.            *)
NumeralsRight ==
  Returned("sprintf") =>
    (call.letter \in LetterB /\ call.arg \notin 0 .. 2 ^ (StringSize - 1) - 1) \/ NumeralRight

(* The comment of string says that the output of the number conversions    *)
(* is in it: of all of them.                                               *)
BinaryFits == Returned("sprintf") => NumeralRight

(* A field has its width, or that of a longer number, is filled on the     *)
(* side and with the character that were asked for, and does not change    *)
(* the number.  This leaves out zeros to the right: see LeftZeros.         *)
FieldOf(sign, digits, width) ==
  LET pad == Fill(width - Len(sign) - Len(digits), IF call.zero THEN Zero ELSE Space)
  IN  CASE call.leftjust -> sign \o digits \o Fill(Len(pad), Space)
        [] ~call.leftjust /\ call.zero -> sign \o pad \o digits
        [] OTHER -> pad \o sign \o digits

FieldRight ==
  LET plain == _doprnt(<<Percent, 100>>, <<call.arg>>)
      n     == IF call.arg < 0 THEN 1 ELSE 0
  IN  result.s = FieldOf(SubSeq(plain, 1, n), SubSeq(plain, n + 1, Len(plain)),
                         InRange(call.width))

FieldsRight == (Returned("field") /\ ~(call.leftjust /\ call.zero)) => FieldRight

(* With zeros to the right, too, which change the number.                  *)
LeftZeros == Returned("field") => FieldRight

(* What is printed is scanned as what it was, number by number, up to the  *)
(* end of the string; atol makes the same number of its start.             *)
ScansBack ==
  Returned("sscanf") =>
    /\ result.scan = [n |-> 2, p |-> result.length + 1, vals |-> call.args]
    /\ call.letter = 100 => result.atol = call.args[1]

---------------------------------------------------------------------------
(* The code of symbol x, first bit highest: the codes are in the order of  *)
(* their lengths and, for one length, of their symbols.                    *)
Used(lens) == {i \in DOMAIN lens : lens[i] # 0}

CodeOf(lens, x) ==
  LET before == {i \in Used(lens) : lens[i] < lens[x]}
  IN  MapThenSumSet(LAMBDA i : 2 ^ (lens[x] - lens[i]), before)
        + Cardinality({i \in Used(lens) : lens[i] = lens[x] /\ i < x})

Reversed(c, k) == MapThenSumSet(LAMBDA i : 2 ^ (k - 1 - i), {i \in 0 .. k - 1 : (c \div 2 ^ i) % 2 = 1})

(* The value found by the tables t for the bits b, and how many it took.   *)
RECURSIVE Found(_, _, _, _, _)
Found(t, h, bits, b, n) ==
  LET r == t[h][b % 2 ^ bits]
  IN  IF IsLink(r) THEN Found(t, r.v, r.e - LITERAL, b \div 2 ^ r.b, n + r.b)
      ELSE [v |-> r.v, n |-> n + r.b]

(* The patterns of g bits that codes of these lengths take.                *)
Taken(lens, g) == MapThenSumSet(LAMBDA i : 2 ^ (g - lens[i]), Used(lens))

(* When the decompressor may rely on the tables: two levels of them are    *)
(* enough, or the codes take all patterns and are no more than the root    *)
(* has entries.  See IncompleteRight for the others.                       *)
Relied(lens, g) == g <= 2 * result.m \/ (result.r = 0 /\ Cardinality(Used(lens)) <= 2 ^ result.m)

FindsAll(lens, g) ==
  \A x \in Used(lens) : \A rest \in 0 .. 2 ^ (g - lens[x]) - 1 :
    Found(result.t, 1, result.m, Reversed(CodeOf(lens, x), lens[x]) + rest * 2 ^ lens[x], 0)
      = [v |-> x - 1, n |-> lens[x]]

Longest(lens) == Max({lens[i] : i \in DOMAIN lens})

Free(lens) == LET g == Longest(lens) IN 2 ^ g - Taken(lens, g)

HasTables == Returned("huft_build") /\ Used(call.lens) # {} /\ Free(call.lens) >= 0

(* The tables find each symbol by its code, whatever bits follow it; they  *)
(* are not made of lengths that leave no room for all codes, and that      *)
(* codes are left over is told, but for a single code of one bit.          *)
TablesRight ==
  Returned("huft_build") /\ Used(call.lens) # {} =>
    LET g == Longest(call.lens)
    IN  /\ result.r = CASE Free(call.lens) < 0 -> 2
                         [] Free(call.lens) > 0 /\ g > 1 -> 1
                         [] OTHER -> 0
        /\ HasTables /\ Relied(call.lens, g) => FindsAll(call.lens, g)

(* The tables of lengths that leave codes over find the symbols, too.  The *)
(* comment of huft_build says that they are built in this case, but where  *)
(* the lengths jump by more than the bits of a table, one is linked that   *)
(* is larger than was filled.                                              *)
IncompleteRight == HasTables => FindsAll(call.lens, Longest(call.lens))

(* What the comment of huft_build says of lengths that are all zero.       *)
AllZeroIsInvalid ==
  Returned("huft_build") /\ Used(call.lens) = {} => result.r = 2

=============================================================================
