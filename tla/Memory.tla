------------------------------ MODULE Memory ------------------------------
(***************************************************************************)
(* The memory manager (c/mem.c): a first-fit allocator of the stacks of    *)
(* processes.  A struct memheader of 16 bytes stands in front of every     *)
(* block; the headers of the free blocks form a doubly linked list that    *)
(* starts at freemem.  Addresses and sizes are in bytes, as in the code;   *)
(* size, next and prev are the header fields as functions of the address   *)
(* of the header.                                                          *)
(*                                                                         *)
(* The kernel calls kmalloc in create and kfree in kkillproc, with         *)
(* interrupts off: each is one step.  Blocks are freed once, by the exit   *)
(* of the process whose stack they hold, and processes stay inside their   *)
(* stacks.  The kernel reads and writes the fields of a header at address  *)
(* 0 through NULL pointers: that is memory too, where nothing else lives.  *)
(*                                                                         *)
(* A definition whose name ends in _Capitalised is a variant of the one    *)
(* below it with a mistake in it, which no specification uses.             *)
(***************************************************************************)
EXTENDS Integers, FiniteSets

CONSTANTS
  KernelEnd,  \* freemem as i386.c sets it: the end of the kernel image
  HOLESTART, HOLEEND,   \* the I/O hole
  maxaddr,    \* the last byte of memory: a multiple of 16, less one
  StackSizes, \* the stack sizes programs pass to create
  Careful     \* whether programs avoid the calls of SafeCall below

HDR  == 16    \* sizeof(struct memheader), and the paragraph size
NULL == 0

FirstHeader_Unaligned == KernelEnd

(* freemem += 0x10 - (freemem % 0x10)                                      *)
FirstHeader == KernelEnd + HDR - (KernelEnd % HDR)

ASSUME LayoutAssumption ==
  /\ KernelEnd \in Nat \ {0} /\ maxaddr \in Nat
  /\ HOLESTART \in Nat /\ HOLEEND \in Nat
  /\ HOLESTART % HDR = 0 /\ HOLEEND % HDR = 0 /\ (maxaddr + 1) % HDR = 0
  /\ FirstHeader + HDR < HOLESTART /\ HOLESTART < HOLEEND
  /\ HOLEEND + HDR < maxaddr
  /\ StackSizes \subseteq Nat /\ Careful \in BOOLEAN

Addr == {HDR * k : k \in 0 .. maxaddr \div HDR}

VARIABLES
  freemem, size, next, prev,
  used      \* the headers of the blocks that processes hold

vars == <<freemem, size, next, prev, used>>

MinOf(S) == CHOOSE x \in S : \A y \in S : x <= y

Init ==   \* kmeminit
  /\ freemem = FirstHeader
  /\ size = [a \in Addr |-> CASE a = FirstHeader -> HOLESTART - FirstHeader
                              [] a = HOLEEND     -> maxaddr - HOLEEND
                              [] OTHER           -> 0]
  /\ next = [a \in Addr |-> IF a = FirstHeader THEN HOLEEND ELSE NULL]
  /\ prev = [a \in Addr |-> IF a = HOLEEND THEN FirstHeader ELSE NULL]
  /\ used = {}

---------------------------------------------------------------------------
(* The k-th header of the free list, NULL behind its end.  Headers stand   *)
(* at different paragraphs: a list without a cycle is not longer.          *)
Walk[k \in 0 .. maxaddr \div HDR] ==
  IF k = 0 THEN freemem
  ELSE LET h == Walk[k - 1] IN IF h = NULL THEN NULL ELSE next[h]

(* A field of a header, or of the memory at NULL, that no later step reads *)
(* is not kept: NULL->prev here, and in Insert the headers merged away.    *)
SetPrev(f, a, b) == IF a = NULL THEN f ELSE [f EXCEPT ![a] = b]

FreeHeaders == {Walk[k] : k \in DOMAIN Walk} \ {NULL}

(* size rounded up to paragraphs, and a header.                            *)
SizeToBeAllocated(n) == ((n + HDR - 1) \div HDR) * HDR + HDR

(* The first header with size >= n: room for the stack, but the header of  *)
(* the block is not counted.                                               *)
FittingPlaces(n) == {k \in DOMAIN Walk : Walk[k] # NULL /\ size[Walk[k]] >= n}

findFreeMemHeader(n) ==
  IF FittingPlaces(n) = {} THEN NULL ELSE Walk[MinOf(FittingPlaces(n))]

Splits(b, n) == size[b] > SizeToBeAllocated(n) + HDR

LeftOver_Whole(b, f) == size[b]

LeftOver(b, f) == b + size[b] - f

(* The calls for which the block found holds its header as well, and       *)
(* which leave at least one free block.                                    *)
SafeCall(n) ==
  LET b == findFreeMemHeader(n)
  IN  b # NULL => /\ size[b] >= SizeToBeAllocated(n)
                  /\ Splits(b, n) \/ Cardinality(FreeHeaders) > 1

(* What is left of block b, or the next free block, takes the place of b   *)
(* in the free list.                                                       *)
Allocate(b, n) ==
  LET s     == SizeToBeAllocated(n)
      f     == IF Splits(b, n) THEN b + s ELSE next[b]
      next1 == IF Splits(b, n) THEN [next EXCEPT ![f] = next[b]] ELSE next
      prev1 == SetPrev(prev, f, prev[b])
      size1 == IF Splits(b, n) THEN [size EXCEPT ![f] = LeftOver(b, f)] ELSE size
      next2 == IF b = freemem THEN next1 ELSE [next1 EXCEPT ![prev[b]] = f]
      prev2 == IF next2[f] = NULL THEN prev1 ELSE SetPrev(prev1, next2[f], f)
  IN  /\ freemem' = IF b = freemem THEN f ELSE freemem
      /\ size' = [size1 EXCEPT ![b] = s]
      /\ next' = [next2 EXCEPT ![b] = NULL]
      /\ prev' = [prev2 EXCEPT ![b] = NULL]
      /\ used' = used \cup {b}

(* create does not test the result: without a block the stack starts at    *)
(* address 0, and the kfree of it finds it out of range.                   *)
kmalloc(n) ==
  IF findFreeMemHeader(n) = NULL THEN UNCHANGED vars
  ELSE Allocate(findFreeMemHeader(n), n)

---------------------------------------------------------------------------
(* The free list is in the order of addresses: the first header behind b.  *)
Behind(b) == {k \in DOMAIN Walk : Walk[k] > b}

JoinsNext_Never(b, c) == FALSE

JoinsNext(b, c) == b + size[b] = c

JoinsPrev(p, b) == p + size[p] = b

BackLink_Stale(c2, prev2, p) == prev2

BackLink(c2, prev2, p) == SetPrev(prev2, c2, p)

(* AddToFreeList: b goes in front of c, is merged with c when it ends      *)
(* there, and is merged into its predecessor p when p ends at b.           *)
Insert(b, c) ==
  LET p     == prev[c]
      next1 == [next EXCEPT ![p] = b, ![b] = c]
      prev1 == [prev EXCEPT ![c] = b, ![b] = p]
      n     == next[c]
      joins == JoinsNext(b, c)
      size2 == IF joins THEN [size EXCEPT ![b] = @ + size[c], ![c] = 0] ELSE size
      next2 == IF joins THEN [next1 EXCEPT ![b] = n, ![c] = NULL] ELSE next1
      prev2 == IF joins THEN [SetPrev(prev1, n, b) EXCEPT ![c] = NULL] ELSE prev1
      c2    == IF joins THEN n ELSE c
  IN  /\ freemem' = IF c = freemem THEN b ELSE freemem
      /\ IF JoinsPrev(p, b)
         THEN /\ size' = [size2 EXCEPT ![p] = @ + size2[b], ![b] = 0]
              /\ next' = [next2 EXCEPT ![p] = c2, ![b] = NULL]
              /\ prev' = [BackLink(c2, prev2, p) EXCEPT ![b] = NULL]
         ELSE size' = size2 /\ next' = next2 /\ prev' = prev2

(* A block behind the last free one is not inserted anywhere.              *)
kfree(b) ==
  /\ b \in used
  /\ used' = used \ {b}
  /\ IF Behind(b) = {} THEN UNCHANGED <<freemem, size, next, prev>>
     ELSE Insert(b, Walk[MinOf(Behind(b))])

---------------------------------------------------------------------------
(* Programs may be careful; kmalloc is not.                                *)
Next == \/ \E n \in StackSizes : (Careful => SafeCall(n)) /\ kmalloc(n)
        \/ \E b \in used : kfree(b)

Spec == Init /\ [][Next]_vars

---------------------------------------------------------------------------
(* Properties.                                                             *)
TypeOK ==
  /\ freemem \in Addr /\ used \subseteq Addr
  /\ size \in [Addr -> Nat] /\ next \in [Addr -> Addr] /\ prev \in [Addr -> Addr]

(* The free list is a doubly linked list in the order of addresses, which  *)
(* AddToFreeList relies on, and freemem is its first node (kmalloc,        *)
(* AddToFreeList).                                                         *)
FreeListLinked ==
  /\ freemem # NULL /\ prev[freemem] = NULL
  /\ \A f \in FreeHeaders : next[f] # NULL => next[f] > f /\ prev[next[f]] = f

(* No byte belongs to two blocks, used or free, and no block reaches into  *)
(* the I/O hole or past the end of memory.                                 *)
BlocksDisjoint ==
  LET B == used \cup FreeHeaders
  IN  /\ used \cap FreeHeaders = {}
      /\ \A a \in B : /\ \A b \in B : a < b => a + size[a] <= b
                      /\ \/ FirstHeader <= a /\ a + size[a] <= HOLESTART
                         \/ HOLEEND <= a /\ a + size[a] <= maxaddr

(* Freed memory is merged: no two free blocks touch, so a stack is refused *)
(* only when no run of free memory holds it (AddToFreeList).               *)
Coalesced == \A f, g \in FreeHeaders : f + size[f] # g

(* freemem "Should always be the first node in the linked list" (c/mem.c). *)
FreememIsNode == freemem # NULL

(* "check to see if remaining space in free memheader is enough" (c/mem.c, *)
(* kmalloc): the block handed out is cut from the free one, so that it     *)
(* takes no memory of its neighbours.                                      *)
CutFromFree == [][\A b \in used' \ used : size'[b] <= size[b]]_vars

(* "Inserts a free memory node into the freemem linked list." (c/mem.c,    *)
(* AddToFreeList): the memory of a process that ended is free again.       *)
FreedIsFree ==
  [][\A b \in used \ used' : \E f \in FreeHeaders' :
       f <= b /\ b + size[b] <= f + size'[f]]_vars
===========================================================================
