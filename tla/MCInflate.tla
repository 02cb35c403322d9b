----------------------------- MODULE MCInflate -----------------------------
(* Small files for the model of the boot decompressor. *)
EXTENDS Inflate

(* A gzip file with the flags f, no name and no time. *)
File(f, body, orig) ==
  [gz |-> <<31, 139, 8, f, 0, 0, 0, 0, 2, 3>> \o body, orig |-> orig,
   damaged |-> FALSE, EXT_MEM_K |-> 4096]

Repeat(x, n) == [i \in 1 .. n |-> x]

Stored == File(0,
  <<0, 8, 0, 247, 255, 10, 20, 30, 40, 50, 1, 2, 3, 0, 0, 0, 255, 255, 1,
    8, 0, 247, 255, 60, 70, 80, 90, 100, 4, 5, 6, 150, 33, 107, 58, 16, 0,
    0, 0>>,
  <<10, 20, 30, 40, 50, 1, 2, 3, 60, 70, 80, 90, 100, 4, 5, 6>>)

Fixed == File(20,
  <<2, 0, 9, 9, 104, 105, 0, 115, 60, 1, 134, 112, 224, 4, 164, 32, 52, 0,
    52, 68, 16, 243, 26, 0, 0, 0>>,
  <<65, 200, 65, 200, 65, 200, 65, 65, 65, 65, 65, 65, 65, 65, 65, 65, 66,
    65, 65, 65, 65, 65, 65, 65, 66, 65>>)

Dynamic == File(0,
  <<13, 199, 185, 129, 35, 65, 18, 4, 65, 89, 239, 201, 106, 15, 16, 163,
    63, 185, 102, 30, 89, 13, 252, 231, 191, 255, 251, 255, 189, 175, 253,
    252, 242, 254, 199, 253, 253, 3, 170, 123, 144, 1, 21, 0, 0, 0>>,
  <<97, 98, 99, 100, 101, 102, 103, 104, 105, 106, 97, 98, 99, 104, 105,
    106, 97, 104, 105, 106, 110>>)

OneDistance == File(0,
  <<13, 193, 1, 9, 0, 0, 0, 128, 160, 173, 245, 127, 68, 33, 206, 0, 203,
    140, 11, 134, 6, 0, 0, 0>>,
  <<97, 98, 97, 98, 97, 98>>)

Reuse == File(0,
  <<0, 84, 1, 171, 254>> \o Repeat(7, 340) \o <<12, 193, 1, 1, 0, 0, 0,
    128, 144, 173, 245, 127, 68, 129, 36, 39, 32, 0, 204, 9, 8, 0, 219,
    64, 229, 238, 95, 1, 0, 0>>,
  Repeat(7, 340) \o <<97, 98, 97, 66, 66, 66, 66, 66, 66, 66, 66>>)

Tight == File(0,
  <<114, 2, 2, 128, 156, 128, 0, 32, 39, 32, 0, 204, 9, 8, 0, 108, 245,
    88, 162, 16, 0, 0, 0>>,
  Repeat(66, 16))

Mixed == File(0,
  <<114, 4, 0, 2, 0, 253, 255, 66, 67, 236, 194, 129, 9, 0, 0, 12, 195,
    160, 91, 147, 255, 143, 72, 247, 199, 68, 206, 111, 32, 12, 0, 169,
    120, 247, 138, 14, 1, 0, 0>>,
  <<65, 66, 67>> \o Repeat(97, 267))

Ahead == File(0,
  <<13, 193, 1, 130, 228, 48, 12, 195, 176, 183, 82, 78, 103, 239, 255,
    47, 192, 1, 237, 127, 148, 111, 52, 215, 5, 0, 0, 0>>,
  <<97, 98, 97, 98, 97>>)

Undamaged == {Stored, Fixed, Dynamic, OneDistance, Reuse, Tight, Mixed, Ahead}

Flip(x, k) == IF (x \div 2 ^ k) % 2 = 1 THEN x - 2 ^ k ELSE x + 2 ^ k

OneBit(f) ==
  {[f EXCEPT !.gz[i] = Flip(@, k), !.damaged = TRUE] : i \in DOMAIN f.gz, k \in 0 .. 7}

CutOff(f) == {[f EXCEPT !.gz = SubSeq(@, 1, n), !.damaged = TRUE] : n \in 0 .. Len(f.gz) - 1}

(* The files above; one on a machine without memory behind 1M; and damage  *)
(* to three of them: a wrong bit, or the end missing.                      *)
Files ==
  Undamaged \cup {[Fixed EXCEPT !.EXT_MEM_K = 640]}
    \cup UNION {OneBit(f) : f \in {Ahead, Fixed, OneDistance, Mixed}}
    \cup UNION {CutOff(f) : f \in {Ahead, Stored}}

(* Fixed with a name in its header.                                        *)
Named ==
  {[Fixed EXCEPT !.gz = SubSeq(@, 1, 3) \o <<28>> \o SubSeq(@, 5, 14) \o <<120, 0>>
                          \o SubSeq(@, 15, Len(@))]}
=============================================================================
