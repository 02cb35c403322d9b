-------------------------------- MODULE Crc --------------------------------
(***************************************************************************)
(* The checksum of the boot decompressor (boot/zBoot/misc.c).  A 32-bit    *)
(* word is the set of the numbers of its bits that are 1.                  *)
(***************************************************************************)
EXTENDS Integers, Sequences

Xor(x, y) == (x \ y) \cup (y \ x)

ShiftRight(x, n) == {i - n : i \in {j \in x : j >= n}}

Bits(n) == {i \in 0 .. 30 : (n \div 2 ^ i) % 2 = 1}

(* p: the terms of the polynomial but x^32, whose pattern is reversed.     *)
Polynomial == {31 - p : p \in {0, 1, 2, 4, 5, 7, 8, 10, 11, 12, 16, 22, 23, 26}}

ShiftOnce(c) == IF 0 \in c THEN Xor(ShiftRight(c, 1), Polynomial) ELSE ShiftRight(c, 1)

crc_32_tab == \* makecrc: the bits of i enter one by one, the lowest first
  [i \in 0 .. 255 |->
     LET c[k \in 0 .. 8] ==
           IF k = 0 THEN {}
           ELSE Xor(ShiftOnce(c[k - 1]), IF k - 1 \in Bits(i) THEN Polynomial ELSE {})
     IN  c[8]]

(* The number of a word's low byte.                                        *)
LowByte(x) ==
  LET n[i \in 0 .. 8] == IF i = 8 THEN 0 ELSE 2 * n[i + 1] + (IF i \in x THEN 1 ELSE 0)
  IN  n[0]

CrcStart == 0 .. 31

UpdateByte(c, x) == Xor(crc_32_tab[LowByte(Xor(c, Bits(x)))], ShiftRight(c, 8))

RECURSIVE updcrc(_, _)
updcrc(c, s) == IF s = <<>> THEN c ELSE updcrc(UpdateByte(c, Head(s)), Tail(s))

(* What updcrc returns is c ^ 0xffffffff.                                  *)
CrcOf(c) == (0 .. 31) \ c
=============================================================================
