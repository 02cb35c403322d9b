------------------------------ MODULE Inflate ------------------------------
(***************************************************************************)
(* The boot decompressor (boot/zBoot/misc.c, unzip.c, inflate.c): the      *)
(* machine starts in it, with the kernel as a gzip file in input_data, and *)
(* it either jumps to the kernel it has put at 1M or stops with a message. *)
(*                                                                         *)
(* A step is a header, a code or a byte of the file, with the refills of   *)
(* the input buffer and the writes of the window that it makes.            *)
(*                                                                         *)
(* A definition whose name ends in _Capitalised is a variant of the one    *)
(* below it with a mistake in it, which no specification uses.             *)
(***************************************************************************)
EXTENDS Huft, Crc

CONSTANTS
  Images,           \* what is linked as input_data: the records of ImageOK
  lbits, dbits,     \* the bits of the root tables
  WSIZE, INBUFSIZ,
  HuftSize,         \* sizeof(struct huft)
  InputData,        \* &input_data[0]
  BSS,              \* the bytes of variables behind input_data
  HeapEnd           \* 0x90000

Byte == 0 .. 255

(* gz: the file; orig: the kernel that was compressed, when the file is    *)
(* undamaged; EXT_MEM_K: the machine's memory above 1M.                    *)
ImageOK(i) == /\ i.gz \in Seq(Byte) /\ i.orig \in Seq(Byte)
              /\ i.damaged \in BOOLEAN /\ i.EXT_MEM_K \in Nat

ASSUME BootAssumption ==
  /\ \A i \in Images : ImageOK(i) /\ InputData + Len(i.gz) + BSS < HeapEnd
  /\ lbits \in 1 .. BMAX /\ dbits \in 1 .. BMAX
  /\ \E n \in 3 .. 15 : WSIZE = 2 ^ n
  /\ INBUFSIZ \in Nat \ {0} /\ HuftSize \in Nat \ {0}
  /\ {InputData, BSS, HeapEnd} \subseteq Nat
  /\ \A m \in {lbits, dbits, 7} : (2 ^ m + 1) * HuftSize < BSS

VARIABLES
  img,    \* the image
  io,     \* the input: inptr, insize, input_ptr, the bits b, k of them; eof
  win,    \* the output: the window slide, w bytes of it used, out, crc
  heap,   \* free_mem_ptr; the blocks live that hold tables in use; full
  dyn,    \* a dynamic header: nl, nd; the table tl of bl bits; lengths ll, l
  tab,    \* the tables in use: tl of bl bits and td of bd
  blk,    \* the block: whether it is the last, bytes n left when stored
  pc,     \* what is read next, or how it ended
  err     \* the error that halted the system

End == InputData + Len(img.gz) + BSS   \* &end: the heap starts there

vars == <<img, io, win, heap, dyn, tab, blk, pc, err>>

NoDyn == [nl |-> 0, nd |-> 0, tl |-> <<>>, bl |-> 0, ll |-> <<>>, l |-> 0]
NoTab == [tl |-> <<>>, td |-> <<>>, bl |-> 0, bd |-> 0]

Init ==
  /\ img \in Images
  /\ io = [inptr |-> 0, insize |-> 0, input_ptr |-> 0, b |-> 0, k |-> 0, eof |-> FALSE]
  /\ win = [slide |-> [i \in 0 .. WSIZE - 1 |-> 0], w |-> 0, out |-> <<>>, crc |-> CrcStart]
  /\ heap = [free_mem_ptr |-> End, live |-> {}, full |-> FALSE]
  /\ dyn = NoDyn /\ tab = NoTab /\ blk = [last |-> FALSE, n |-> 0]
  /\ pc = "start" /\ err = "none"

error(e) == pc' = "halted" /\ err' = e /\ UNCHANGED <<img, io, win, heap, dyn, tab, blk>>

(* What was never set is used: nothing is said of what follows.            *)
Undefined == pc' = "undefined" /\ UNCHANGED <<img, io, win, heap, dyn, tab, blk, err>>

---------------------------------------------------------------------------
(* The input.  inbuf holds the insize bytes of input_data before input_ptr. *)

fill_inbuf_NoEnd(x) == [x EXCEPT !.insize = INBUFSIZ, !.input_ptr = @ + INBUFSIZ, !.inptr = 1]

(* The last fill takes the byte behind the file, too.                      *)
fill_inbuf(x) ==
  LET len == Min({INBUFSIZ, Len(img.gz) - x.input_ptr + 1})
  IN  IF len <= 0 THEN [x EXCEPT !.insize = 0, !.eof = TRUE]
      ELSE [x EXCEPT !.insize = len, !.input_ptr = @ + len, !.inptr = 1]

get_byte(x) == IF x.inptr < x.insize THEN [x EXCEPT !.inptr = @ + 1] ELSE fill_inbuf(x)

(* The byte of inbuf that was read last.                                   *)
LastByte(x) ==
  LET i == x.input_ptr - x.insize + x.inptr IN IF i \in DOMAIN img.gz THEN img.gz[i] ELSE 0

(* The next n bytes, or as many as there are before the end of the file.   *)
RECURSIVE GetBytes(_, _)
GetBytes(x, n) ==
  LET y == get_byte(x)
      r == GetBytes(y, n - 1)
  IN  CASE n = 0 -> [io |-> x, s |-> <<>>]
        [] n > 0 /\ y.eof -> [io |-> y, s |-> <<>>]
        [] OTHER -> [io |-> r.io, s |-> <<LastByte(y)>> \o r.s]

RECURSIVE SkipString(_)
SkipString(x) ==
  LET y == get_byte(x) IN IF y.eof \/ LastByte(y) = 0 THEN y ELSE SkipString(y)

RECURSIVE NeedBits(_, _)
NeedBits(x, n) ==
  IF x.k >= n \/ x.eof THEN x
  ELSE LET y == get_byte(x)
       IN  NeedBits([y EXCEPT !.b = @ + 2 ^ y.k * LastByte(y), !.k = @ + 8], n)

DumpBits(x, n) == [x EXCEPT !.b = @ \div 2 ^ n, !.k = @ - n]

TakeBits(x, n) ==
  LET y == NeedBits(x, n) IN [v |-> y.b % 2 ^ n, io |-> DumpBits(y, n)]

(* A code by the tables t, the first of bits bits.  A NULL table is read   *)
(* like one that is not set.                                               *)
RECURSIVE Lookup(_, _, _, _)
Lookup(x, t, h, bits) ==
  LET y == NeedBits(x, bits)
      r == IF t = <<>> THEN Junk ELSE t[h][y.b % 2 ^ bits]
  IN  IF IsLink(r) THEN Lookup(DumpBits(y, r.b), t, r.v, r.e - LITERAL)
      ELSE [e |-> r.e, v |-> r.v, io |-> DumpBits(y, r.b)]

---------------------------------------------------------------------------
(* The output.                                                             *)

flush_window(s) ==
  LET bytes == [i \in 1 .. s.w |-> s.slide[i - 1]]
  IN  [s EXCEPT !.out = @ \o bytes, !.crc = updcrc(@, bytes), !.w = 0]

FlushFull(s) == IF s.w = WSIZE THEN flush_window(s) ELSE s

PutByte(s, c) == FlushFull([s EXCEPT !.slide[s.w] = c, !.w = @ + 1])

(* The copy of n bytes from d, in pieces that stay inside the window at    *)
(* both ends; a piece that overlaps its source repeats it.                 *)
RECURSIVE CopyFrom_NoOverlap(_, _, _)
CopyFrom_NoOverlap(s, n, d) ==
  LET e == Min({n, WSIZE - Max({d, s.w})})
      t == FlushFull([s EXCEPT
             !.slide = [i \in DOMAIN @ |->
                          IF i \in s.w .. s.w + e - 1 THEN @[d + (i - s.w)] ELSE @[i]],
             !.w = @ + e])
  IN  IF e = n THEN t ELSE CopyFrom_NoOverlap(t, n - e, (d + e) % WSIZE)

RECURSIVE CopyFrom(_, _, _)
CopyFrom(s, n, d) ==
  LET e == Min({n, WSIZE - Max({d, s.w})})
      From(i) == IF d < s.w THEN d + ((i - s.w) % (s.w - d)) ELSE d + (i - s.w)
      t == FlushFull([s EXCEPT
             !.slide = [i \in DOMAIN @ |-> IF i \in s.w .. s.w + e - 1 THEN @[From(i)] ELSE @[i]],
             !.w = @ + e])
  IN  IF e = n THEN t ELSE CopyFrom(t, n - e, (d + e) % WSIZE)

---------------------------------------------------------------------------
(* The heap.  When it is used up, malloc goes on in the part of input_data *)
(* that inbuf has taken, up to input_ptr; free does nothing.               *)

Align(a) == ((a + 3) \div 4) * 4

RECURSIVE malloc_NoCheck(_, _, _)
malloc_NoCheck(h, size, input_ptr) ==
  LET p == Align(h.free_mem_ptr)
  IN  IF p + size < HeapEnd
      THEN [h EXCEPT !.free_mem_ptr = p + size, !.live = @ \cup {[at |-> p, size |-> size]}]
      ELSE malloc_NoCheck([h EXCEPT !.free_mem_ptr = InputData], size, input_ptr)

RECURSIVE malloc(_, _, _)
malloc(h, size, input_ptr) ==
  LET p == Align(h.free_mem_ptr)
  IN  IF p + size < HeapEnd
      THEN [free_mem_ptr |-> p + size, live |-> h.live \cup {[at |-> p, size |-> size]},
            full |-> h.full \/ (p + size < End /\ p + size > InputData + input_ptr)]
      ELSE malloc([h EXCEPT !.free_mem_ptr = InputData], size, input_ptr)

(* The tables of t, from number i on, each with an entry that links them;  *)
(* x is the input when they are built.                                     *)
RECURSIVE AllocTables(_, _, _, _)
AllocTables(h, t, i, x) ==
  IF h.full \/ i > Len(t) THEN h
  ELSE AllocTables(malloc(h, (Cardinality(DOMAIN t[i]) + 1) * HuftSize, x.input_ptr),
                   t, i + 1, x)

huft_free(h) == [h EXCEPT !.live = {}]   \* all that are in use

---------------------------------------------------------------------------
(* get_method: the header of the file.                                     *)

GZIP_MAGIC     == <<31, 139>>
OLD_GZIP_MAGIC == <<31, 158>>

(* memcmp counts in an i that is not set, from 0, 1 or past 1 on; from 0   *)
(* on it compares the byte behind m, too, with 0.                          *)
memcmp(m, magic, i, behind) ==
  CASE i = 0 -> m = magic /\ behind = 0
    [] i = 1 -> m = magic
    [] i = 2 -> m[1] = magic[1]

CONTINUATION == 1   \* the bits of flags
EXTRA_FIELD  == 2
ORIG_NAME    == 3
COMMENT      == 4
ENCRYPTED    == 5
RESERVED     == {6, 7}

DEFLATED == 8

(* The input behind the optional fields; a name is taken for the data.     *)
SkipFields(x, flags) ==
  LET len == GetBytes(x, 2)
      y   == IF EXTRA_FIELD \notin flags THEN x
             ELSE IF len.io.eof THEN len.io
             ELSE GetBytes(len.io, len.s[1] + 256 * len.s[2]).io
  IN  IF COMMENT \in flags /\ ~y.eof THEN SkipString(y) ELSE y

get_method ==
  /\ pc = "start"
  /\ LET h == GetBytes(io, 10)
         x == SkipFields(h.io, Bits(h.s[4]))
     IN  \E i, j \in 0 .. 2, behind \in 0 .. 1 :
           CASE img.EXT_MEM_K < 1024 -> error("memory")
             [] Len(h.s) < 2 -> error("input")
             [] ~memcmp(SubSeq(h.s, 1, 2), GZIP_MAGIC, i, behind)
                  /\ ~memcmp(SubSeq(h.s, 1, 2), OLD_GZIP_MAGIC, j, behind) -> error("magic")
             [] Len(h.s) < 4 -> error("input")
             [] Bits(h.s[4]) \cap ({CONTINUATION, ENCRYPTED} \cup RESERVED) # {} ->
                  error("flags")
             [] h.io.eof \/ x.eof -> error("input")
             [] h.s[3] # DEFLATED -> error("method")
             [] OTHER -> /\ io' = x /\ pc' = "block"
                         /\ UNCHANGED <<img, win, heap, dyn, tab, blk, err>>

---------------------------------------------------------------------------
(* inflate_block: the header of a block.                                   *)

Header ==
  LET e == TakeBits(io, 1)
      t == TakeBits(e.io, 2)
  IN  [last |-> e.v = 1, t |-> t.v, io |-> t.io]

BadBlock == pc = "block" /\ (Header.io.eof \/ Header.t = 3) /\ error("format")

Complement == 65535   \* of 16 bits

inflate_stored ==
  /\ pc = "block" /\ Header.t = 0
  /\ LET n == TakeBits(DumpBits(Header.io, Header.io.k % 8), 16)
         c == TakeBits(n.io, 16)
     IN  IF c.io.eof \/ n.v # Complement - c.v THEN error("format")
         ELSE /\ io' = c.io /\ blk' = [last |-> Header.last, n |-> n.v] /\ pc' = "stored"
              /\ UNCHANGED <<img, win, heap, dyn, tab, err>>

cplens == <<3, 4, 5, 6, 7, 8, 9, 10, 11, 13, 15, 17, 19, 23, 27, 31, 35, 43, 51, 59, 67, 83,
            99, 115, 131, 163, 195, 227, 258, 0, 0>>
cplext == <<0, 0, 0, 0, 0, 0, 0, 0, 1, 1, 1, 1, 2, 2, 2, 2, 3, 3, 3, 3, 4, 4,
            4, 4, 5, 5, 5, 5, 0, INVALID, INVALID>>
cpdist == <<1, 2, 3, 4, 5, 7, 9, 13, 17, 25, 33, 49, 65, 97, 129, 193, 257, 385, 513, 769,
            1025, 1537, 2049, 3073, 4097, 6145, 8193, 12289, 16385, 24577>>
cpdext == [i \in 1 .. 30 |-> IF i < 5 THEN 0 ELSE (i - 3) \div 2]

LiteralTables(lens, bits)  == huft_build(lens, 257, cplens, cplext, bits)
DistanceTables(lens, bits) == huft_build(lens, 0, cpdist, cpdext, bits)

FixedLiterals ==
  LiteralTables([i \in 1 .. 288 |-> CASE i <= 144 -> 8 [] i \in 145 .. 256 -> 9
                                      [] i \in 257 .. 280 -> 7 [] OTHER -> 8], 7)
FixedDistances == DistanceTables([i \in 1 .. 30 |-> 5], 5)

(* The codes of a block follow, at x, by the tables tl and td.             *)
UseTables(tl, td, x, last) ==
  LET h == AllocTables(huft_free(heap), tl.t \o td.t, 1, x)
  IN  IF h.full THEN error("memory")
      ELSE /\ tab' = [tl |-> tl.t, td |-> td.t, bl |-> tl.m, bd |-> td.m]
           /\ io' = x /\ heap' = h /\ dyn' = NoDyn /\ pc' = "codes"
           /\ blk' = [last |-> last, n |-> 0]
           /\ UNCHANGED <<img, win, err>>

inflate_fixed ==
  /\ pc = "block" /\ ~Header.io.eof /\ Header.t = 1
  /\ UseTables(FixedLiterals, FixedDistances, Header.io, Header.last)

---------------------------------------------------------------------------
(* inflate_dynamic: the lengths of the codes, themselves in a code.        *)

border == <<16, 17, 18, 0, 8, 7, 9, 6, 10, 5, 11, 4, 12, 3, 13, 2, 14, 1, 15>>

(* n lengths of three bits.                                                *)
RECURSIVE Lengths(_, _)
Lengths(x, n) ==
  IF n = 0 THEN [io |-> x, s |-> <<>>]
  ELSE LET y == TakeBits(x, 3)
           r == Lengths(y.io, n - 1)
       IN  [io |-> r.io, s |-> <<y.v>> \o r.s]

inflate_dynamic ==
  /\ pc = "block" /\ ~Header.io.eof /\ Header.t = 2
  /\ LET l == TakeBits(Header.io, 5)
         d == TakeBits(l.io, 5)
         n == TakeBits(d.io, 4)
         r == Lengths(n.io, 4 + n.v)
         t == huft_build([i \in 1 .. 19 |->
                            LET j == CHOOSE j \in 1 .. 19 : border[j] = i - 1
                            IN  IF j <= 4 + n.v THEN r.s[j] ELSE 0], 19, <<>>, <<>>, 7)
         h == AllocTables(heap, t.t, 1, r.io)
     IN  IF r.io.eof \/ 257 + l.v > 286 \/ 1 + d.v > 30 \/ t.r # 0 THEN error("format")
         ELSE IF h.full THEN error("memory")
         ELSE /\ dyn' = [nl |-> 257 + l.v, nd |-> 1 + d.v, tl |-> t.t, bl |-> t.m,
                         ll |-> <<>>, l |-> 0]
              /\ io' = r.io /\ heap' = h /\ blk' = [last |-> Header.last, n |-> 0]
              /\ pc' = "lengths"
              /\ UNCHANGED <<img, win, tab, err>>

(* A length or, from 16 on, a number of repeats of the last one or of 0.   *)
Repeats(v, x) ==
  CASE v < 16 -> 1
    [] v = 16 -> 3 + TakeBits(x, 2).v
    [] v = 17 -> 3 + TakeBits(x, 3).v
    [] v = 18 -> 11 + TakeBits(x, 7).v

AfterRepeats(v, x) ==
  CASE v < 16 -> x
    [] v = 16 -> TakeBits(x, 2).io
    [] v = 17 -> TakeBits(x, 3).io
    [] v = 18 -> TakeBits(x, 7).io

RepeatedLength(v) == CASE v < 16 -> v [] v = 16 -> dyn.l [] OTHER -> 0

ReadLength ==
  /\ pc = "lengths" /\ Len(dyn.ll) < dyn.nl + dyn.nd
  /\ LET c == Lookup(io, dyn.tl, 1, dyn.bl)
         j == Repeats(c.v, c.io)
         x == AfterRepeats(c.v, c.io)
         l == RepeatedLength(c.v)
     IN  IF ~c.io.eof /\ c.e = JUNK THEN Undefined
         ELSE IF x.eof \/ Len(dyn.ll) + j > dyn.nl + dyn.nd THEN error("format")
         ELSE /\ dyn' = [dyn EXCEPT !.ll = @ \o [i \in 1 .. j |-> l], !.l = l]
              /\ io' = x
              /\ UNCHANGED <<img, win, heap, tab, blk, pc, err>>

BuildTables ==
  /\ pc = "lengths" /\ Len(dyn.ll) = dyn.nl + dyn.nd
  /\ LET tl == LiteralTables(SubSeq(dyn.ll, 1, dyn.nl), lbits)
         td == DistanceTables(SubSeq(dyn.ll, dyn.nl + 1, dyn.nl + dyn.nd), dbits)
     IN  IF tl.r # 0 \/ td.r # 0 THEN error("format")
         ELSE UseTables(tl, td, io, blk.last)

---------------------------------------------------------------------------
(* inflate_codes and the data of a stored block.                           *)

(* inflate, after the last block: the bytes that were read ahead are put   *)
(* back; the other bits are not used again.                                *)
PutBack_Not(x) == [x EXCEPT !.b = 0, !.k = 0]

PutBack(x) == [x EXCEPT !.inptr = @ - x.k \div 8, !.b = 0, !.k = 0]

EndBlock(x) ==
  /\ IF blk.last THEN io' = PutBack(x) /\ win' = flush_window(win) /\ pc' = "trailer"
                 ELSE io' = x /\ pc' = "block" /\ UNCHANGED win
  /\ heap' = huft_free(heap) /\ tab' = NoTab
  /\ UNCHANGED <<img, dyn, blk, err>>

StoredByte ==
  /\ pc = "stored" /\ blk.n > 0
  /\ LET c == TakeBits(io, 8)
     IN  IF c.io.eof THEN error("input")
         ELSE /\ io' = c.io /\ win' = PutByte(win, c.v) /\ blk' = [blk EXCEPT !.n = @ - 1]
              /\ UNCHANGED <<img, heap, dyn, tab, pc, err>>

EndStored == pc = "stored" /\ blk.n = 0 /\ EndBlock(io)

Code == Lookup(io, tab.tl, 1, tab.bl)

Literal ==
  /\ pc = "codes" /\ ~Code.io.eof /\ Code.e = LITERAL
  /\ io' = Code.io /\ win' = PutByte(win, Code.v)
  /\ UNCHANGED <<img, heap, dyn, tab, blk, pc, err>>

EndOfBlock == pc = "codes" /\ ~Code.io.eof /\ Code.e = EOB /\ EndBlock(Code.io)

(* The length and the distance of a copy, from the length code on.         *)
Match ==
  LET n == TakeBits(Code.io, Code.e)
      c == Lookup(n.io, tab.td, 1, tab.bd)
      d == TakeBits(c.io, c.e)
  IN  IF Code.e > EOB THEN [e |-> Code.e, io |-> Code.io]
      ELSE IF c.e > EOB THEN [e |-> c.e, io |-> c.io]
      ELSE [e |-> 0, n |-> Code.v + n.v, d |-> (win.w - c.v - d.v) % WSIZE, io |-> d.io]

Copy ==
  /\ pc = "codes" /\ Code.e \notin {LITERAL, EOB} /\ Match.e = 0 /\ ~Match.io.eof
  /\ io' = Match.io /\ win' = CopyFrom(win, Match.n, Match.d)
  /\ UNCHANGED <<img, heap, dyn, tab, blk, pc, err>>

BadCode ==
  /\ pc = "codes" /\ (Code.io.eof \/ Code.e \notin {LITERAL, EOB})
  /\ Code.io.eof \/ Match.io.eof \/ Match.e = INVALID
  /\ error("format")

JunkCode ==
  /\ pc = "codes" /\ ~Code.io.eof /\ Code.e \notin {LITERAL, EOB}
  /\ ~Match.io.eof /\ Match.e = JUNK
  /\ Undefined

---------------------------------------------------------------------------
(* unzip, after inflate: the checksum and the length.                      *)

Long(s) == UNION {{8 * (i - 1) + j : j \in Bits(s[i])} : i \in 1 .. 4}

Matches_LengthOnly(t) == Long(SubSeq(t, 5, 8)) = Bits(Len(win.out))

Matches(t) == /\ Long(SubSeq(t, 1, 4)) = CrcOf(win.crc)
              /\ Long(SubSeq(t, 5, 8)) = Bits(Len(win.out))

Trailer ==
  /\ pc = "trailer"
  /\ LET t == GetBytes(io, 8)
     IN  IF t.io.eof \/ ~Matches(t.s) THEN error("check")
         ELSE /\ io' = t.io /\ pc' = "booted"
              /\ UNCHANGED <<img, win, heap, dyn, tab, blk, err>>

Next ==
  \/ get_method
  \/ inflate_stored \/ inflate_fixed \/ inflate_dynamic \/ BadBlock
  \/ ReadLength \/ BuildTables
  \/ StoredByte \/ EndStored
  \/ Literal \/ Copy \/ EndOfBlock \/ BadCode \/ JunkCode
  \/ Trailer

(* The processor runs nothing else: it goes on until it has ended.  This   *)
(* is WF_vars(Next), as a step is possible just until then.                *)
Ended == pc \in {"booted", "halted", "undefined"}

Fairness == []<>Ended \/ []<><<TRUE>>_vars

Spec == Init /\ [][Next]_vars /\ Fairness

---------------------------------------------------------------------------
(* The buffers are used within their bounds: bytes are put back into inbuf *)
(* only as far as they came from it, and the bits fit into the word bb.    *)
InflateTypeOK ==
  /\ ImageOK(img)
  /\ io.insize \in 0 .. INBUFSIZ /\ io.inptr \in 0 .. io.insize
  /\ io.input_ptr \in 0 .. Len(img.gz) + 1
  /\ io.k \in 0 .. 24 /\ io.b \in 0 .. 2 ^ io.k - 1
  /\ win.slide \in [0 .. WSIZE - 1 -> Byte] /\ win.w \in 0 .. WSIZE - 1
  /\ win.crc \subseteq 0 .. 31
  /\ Len(dyn.ll) <= dyn.nl + dyn.nd /\ dyn.nl <= 286 /\ dyn.nd <= 30
  /\ blk.n \in 0 .. 65535

Written == win.out \o [i \in 1 .. win.w |-> win.slide[i - 1]]

(* What an undamaged file is decompressed to is, at every step, a prefix   *)
(* of the kernel that was compressed: no code, block type, copy over       *)
(* itself or over the end of the window puts down a wrong byte.            *)
OutputIsPrefix ==
  ~img.damaged =>
    /\ Len(Written) <= Len(img.orig)
    /\ Written = SubSeq(img.orig, 1, Len(Written))

(* The system never jumps to anything but the kernel that was compressed,  *)
(* whichever bit of the file is wrong and wherever the file is cut off.    *)
NeverBootsWrong == pc = "booted" => win.out = img.orig

(* The tables in use lie in the heap or in the part of the file that inbuf *)
(* has taken, never over input that is still to be read, and do not        *)
(* overlap each other.                                                     *)
TablesInFreeMemory ==
  \A x \in heap.live :
    /\ \/ x.at >= End /\ x.at + x.size <= HeapEnd
       \/ x.at >= InputData /\ x.at + x.size <= InputData + io.input_ptr
    /\ \A y \in heap.live \ {x} : x.at + x.size <= y.at \/ y.at + y.size <= x.at

(* An undamaged file is decompressed to its end, checksum and length, and  *)
(* started, unless memory is too small for it or memcmp, with its counter  *)
(* not set, takes its magic number for another.                            *)
GoodFileBoots ==
  ~img.damaged => <>(pc = "booted" \/ (pc = "halted" /\ err \in {"magic", "memory"}))

(* Without the excuse for memcmp, which the code does not keep.            *)
MagicIsKnown == (~img.damaged /\ pc = "halted") => err = "memory"
===========================================================================
