------------------------------- MODULE Huft -------------------------------
(***************************************************************************)
(* The decoding tables of the boot decompressor (boot/zBoot/inflate.c):    *)
(* huft_build makes, from the lengths of a set of codes, a tree of lookup  *)
(* tables indexed by the next bits of the input, first bit lowest.         *)
(*                                                                         *)
(* A set of tables is a sequence of functions, the root first; an entry    *)
(* has the bits to drop (b), an operation (e) and a value (v): that of the *)
(* symbol or, when e links to another table, the number of that table.     *)
(*                                                                         *)
(* A definition whose name ends in _Capitalised is a variant of the one    *)
(* below it with a mistake in it, which no specification uses.             *)
(***************************************************************************)
EXTENDS Integers, Sequences, FiniteSets, FiniteSetsExt, TLC

CONSTANT BMAX   \* the maximum length of a code

(* The operations of an entry: less than 15 extra bits, or                 *)
EOB     == 15
LITERAL == 16     \* and 16 + j links to a table of j bits
INVALID == 99
JUNK    == 1000   \* read from the part of v that is not set

IsLink(r) == r.e > LITERAL /\ r.e \notin {INVALID, JUNK}

Junk == [b |-> 0, e |-> JUNK, v |-> 0]

---------------------------------------------------------------------------
(* The lengths: lens[i] is that of symbol i - 1, 0 when it is not used.    *)

Counts(lens) == [k \in 0 .. BMAX |-> Cardinality({i \in DOMAIN lens : lens[i] = k})]

UsedLengths(c) == {k \in 1 .. BMAX : c[k] # 0}

(* y: the codes of j bits that are left over by those of 1 to j bits.      *)
Spare(c, j) ==
  LET y[i \in 0 .. j] == IF i = 0 THEN 1 ELSE 2 * y[i - 1] - c[i] IN y[j]

Oversubscribed(c) == \E j \in UsedLengths(c) : Spare(c, j) < 0

(* v: the symbols in the order of their codes.                             *)
Values(lens, g) ==
  LET v[k \in 0 .. g] ==
        IF k = 0 THEN <<>>
        ELSE v[k - 1] \o SelectSeq([i \in DOMAIN lens |-> i - 1], LAMBDA x : lens[x + 1] = k)
  IN  v[g]

(* The lengths of the codes in order.                                      *)
CodeLengths(c, g) ==
  LET s[k \in 0 .. g] == IF k = 0 THEN <<>> ELSE s[k - 1] \o [i \in 1 .. c[k] |-> k]
  IN  s[g]

---------------------------------------------------------------------------
(* A code set cs: the counts c, the last filled up; n symbols, the values  *)
(* v and code lengths len in order, the longest g, l bits per table; of    *)
(* the symbols, those from s on have base values d and extra bits e.       *)

(* The bits of a new table at bit w, for the codes from q on: as many as   *)
(* the codes that are left can fill, from those of code q up to z.         *)
RECURSIVE Fewest(_, _, _, _, _)
Fewest(cs, w, z, j, f) ==
  IF j + 1 >= z \/ 2 * f <= cs.c[w + j + 1] THEN j + 1
  ELSE Fewest(cs, w, z, j + 1, 2 * f - cs.c[w + j + 1])

TableBits(cs, q, w) ==
  LET k    == cs.len[q]
      left == Cardinality({r \in q .. Len(cs.len) : cs.len[r] = k})
  IN  IF 2 ^ (k - w) <= left THEN k - w
      ELSE Fewest(cs, w, Min({cs.g - w, cs.l}), k - w, 2 ^ (k - w) - left)

(* The entry of code q, which has bits bits in its table.  Codes past the  *)
(* values are invalid; v has room for n values but, when a symbol is not   *)
(* used, holds fewer.                                                      *)
EntryOf(cs, q, bits) ==
  CASE q > cs.n -> [b |-> bits, e |-> INVALID, v |-> 0]
    [] q \in Len(cs.v) + 1 .. cs.n -> Junk
    [] OTHER ->
         LET x == cs.v[q]
         IN  IF x < cs.s THEN [b |-> bits, e |-> IF x < 256 THEN LITERAL ELSE EOB, v |-> x]
             ELSE [b |-> bits, e |-> cs.e[x - cs.s + 1], v |-> cs.d[x - cs.s + 1]]

(* The state of the construction: the code i, bits reversed; the tables T; *)
(* u: the open table of each level and the pattern x that leads to it.     *)
Width(cs, st) == cs.l * (Len(st.u) - 1)   \* w, -l when no table is open

RECURSIVE MakeTables(_, _, _)
MakeTables(cs, st, q) ==
  IF cs.len[q] <= Width(cs, st) + cs.l THEN st
  ELSE LET w   == Width(cs, st) + cs.l
           j   == TableBits(cs, q, w)
           new == Len(st.T) + 1
           T   == Append(st.T, [p \in 0 .. 2 ^ j - 1 |-> Junk])
           t   == IF st.u = <<>> THEN 0 ELSE st.u[Len(st.u)].t
       IN  MakeTables(cs,
             [i |-> st.i,
              u |-> Append(st.u, [t |-> new, x |-> IF t = 0 THEN 0 ELSE st.i]),
              T |-> IF t = 0 THEN T
                    ELSE [T EXCEPT ![t][st.i \div 2 ^ (w - cs.l)] =
                                     [b |-> cs.l, e |-> 16 + j, v |-> new]]],
             q)

(* Increment the code from its last bit, j, which is its highest here.     *)
RECURSIVE NextCode(_, _)
NextCode(i, j) ==
  IF j = 0 THEN i
  ELSE IF (i \div j) % 2 = 1 THEN NextCode(i - j, j \div 2) ELSE i + j

(* The levels whose tables are finished are left.                          *)
BackUp_NoBackUp(cs, u, i) == u

RECURSIVE BackUp(_, _, _)
BackUp(cs, u, i) ==
  IF i % 2 ^ (cs.l * (Len(u) - 1)) = u[Len(u)].x THEN u
  ELSE BackUp(cs, SubSeq(u, 1, Len(u) - 1), i)

AddCode(cs, st, q) ==
  LET k  == cs.len[q]
      m  == MakeTables(cs, st, q)
      w  == Width(cs, m)
      r  == EntryOf(cs, q, k - w)
      t  == m.u[Len(m.u)].t
      i1 == NextCode(m.i, 2 ^ (k - 1))
  IN  [i |-> i1,
       u |-> BackUp(cs, m.u, i1),
       T |-> [m.T EXCEPT ![t] =
                [p \in {p \in DOMAIN @ : p % 2 ^ (k - w) = m.i \div 2 ^ w} |-> r] @@ @]]

(* The codes from q to r, by halves; the test makes TLC finish the first.  *)
RECURSIVE AddCodes(_, _, _, _)
AddCodes(cs, st, q, r) ==
  IF q = r THEN AddCode(cs, st, q)
  ELSE LET mid == (q + r) \div 2
           m   == AddCodes(cs, st, q, mid)
       IN  IF m.T = <<>> THEN m ELSE AddCodes(cs, m, mid + 1, r)

Tables(cs) == AddCodes(cs, [i |-> 0, u |-> <<>>, T |-> <<>>], 1, Len(cs.len)).T

(* huft_build(b, n, s, d, e, t, m): the result r, the tables t and the     *)
(* bits m of the first.                                                    *)
huft_build(lens, s, d, e, m) ==
  LET c  == Counts(lens)
      g  == Max(UsedLengths(c))
      l  == Min({g, Max({m, Min(UsedLengths(c))})})
      y  == Spare(c, g)
      cf == [c EXCEPT ![g] = @ + y]
  IN  IF UsedLengths(c) = {} THEN [r |-> 0, t |-> <<>>, m |-> 0]
      ELSE IF Oversubscribed(c) THEN [r |-> 2, t |-> <<>>, m |-> l]
      ELSE [r |-> IF y # 0 /\ g # 1 THEN 1 ELSE 0,
            t |-> Tables([c |-> cf, len |-> CodeLengths(cf, g), v |-> Values(lens, g),
                          n |-> Len(lens), s |-> s, d |-> d, e |-> e, g |-> g, l |-> l]),
            m |-> l]
===========================================================================
