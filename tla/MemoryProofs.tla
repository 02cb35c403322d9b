--------------------------- MODULE MemoryProofs ---------------------------
(***************************************************************************)
(* Theorems about the memory manager, for any layout of memory, any stack  *)
(* sizes and any number of blocks.                                         *)
(*                                                                         *)
(* The properties of Memory speak of FreeHeaders, what a walk along next   *)
(* meets.  The invariant speaks of a set F of headers instead: ListOf says *)
(* that it is a list in the order of addresses, locally, and HeadersAre    *)
(* that the walk then meets all of F and nothing else.                     *)
(***************************************************************************)
EXTENDS Memory, FiniteSetTheorems, WellFoundedInduction, TLAPS

(* F is a doubly linked list in the order of addresses, h its first node.  *)
ListOf(F, h, nx, pv) ==
  /\ h \in F /\ pv[h] = NULL
  /\ \A f \in F : /\ h <= f
                  /\ nx[f] \in F \cup {NULL}
                  /\ nx[f] # NULL => f < nx[f]
                  /\ nx[f] # NULL => pv[nx[f]] = f
                  /\ f # h => pv[f] \in F
                  /\ f # h => nx[pv[f]] = f
  /\ \A f, g \in F : f < g => nx[f] # NULL /\ nx[f] <= g

(* The block at a lies on one side of the hole.                            *)
InRegion(a, sz) ==
  \/ FirstHeader <= a /\ a + sz[a] <= HOLESTART
  \/ HOLEEND <= a /\ a + sz[a] <= maxaddr

(* The blocks at B do not overlap.                                         *)
Apart(B, sz) ==
  /\ \A a \in B : InRegion(a, sz)
  /\ \A a, b \in B : a < b => a + sz[a] <= b

(* No free block ends where another one starts.                            *)
Merged(F, sz) == \A f, g \in F : f + sz[f] # g

(* The inductive invariant.  The words at NULL are memory that the code    *)
(* writes: size stays 0 there, or a first block would be merged with it,   *)
(* and next is no block behind the first one.                              *)
HeapInv(F) ==
  /\ TypeOK
  /\ F \subseteq Addr \ {NULL} /\ used \subseteq Addr \ {NULL}
  /\ used \cap F = {}
  /\ ListOf(F, freemem, next, prev)
  /\ Apart(used \cup F, size)
  /\ Merged(F, size) /\ \A a \in used : size[a] # 0
  /\ next[NULL] <= freemem /\ size[NULL] = 0

---------------------------------------------------------------------------
(* Arithmetic.                                                             *)

(* A set of naturals that is not empty has a least element: among its      *)
(* initial segments 0..x one is least for strict inclusion.                *)
LEMMA LeastExists ==
  ASSUME NEW S \in SUBSET Nat, S # {}
  PROVE  MinOf(S) \in S /\ \A y \in S : MinOf(S) <= y
<1> DEFINE T == {0 .. x : x \in S}
           R == StrictSubsetOrdering(Nat)
<1>1. T \subseteq FiniteSubsetsOf(Nat) /\ T # {}
  <2>1. ASSUME NEW x \in S PROVE 0 .. x \in FiniteSubsetsOf(Nat)
    <3>1. x \in Int /\ 0 \in Int /\ 0 .. x \in SUBSET Nat
      OBVIOUS
    <3> QED
      BY <3>1, FS_Interval DEF FiniteSubsetsOf
  <2> QED
    BY <2>1
<1>2. PICK t \in T : \A u \in T : ~ (<<u, t>> \in R)
  <2> HIDE DEF T, R
  <2>1. IsWellFoundedOn(R, FiniteSubsetsOf(Nat))
    BY FS_StrictSubsetOrderingWellFounded DEF R
  <2> QED
    BY <1>1, <2>1, WFMin
<1>3. PICK x \in S : t = 0 .. x
  OBVIOUS
<1>4. ASSUME NEW y \in S, y < x PROVE FALSE
  <2>1. 0 .. y \in T /\ 0 .. y \in SUBSET Nat /\ t \in SUBSET Nat
    BY <1>3
  <2>2. 0 .. y \subseteq t /\ 0 .. y # t
    BY <1>3, <1>4
  <2> QED
    BY <2>1, <2>2, <1>2 DEF StrictSubsetOrdering
<1>5. \E x1 \in S : \A y \in S : x1 <= y
  BY <1>4
<1> QED
  BY <1>5 DEF MinOf

(* The layout of memory, with the constants of the code expanded.          *)
LEMMA Layout ==
  /\ FirstHeader \in Nat /\ FirstHeader > 0 /\ FirstHeader % 16 = 0
  /\ HOLESTART \in Nat /\ HOLEEND \in Nat /\ maxaddr \in Nat
  /\ HOLEEND % 16 = 0 /\ (maxaddr + 1) % 16 = 0
  /\ FirstHeader + 16 < HOLESTART /\ HOLESTART < HOLEEND /\ HOLEEND + 16 < maxaddr
BY LayoutAssumption DEF FirstHeader, HDR

(* The addresses are the paragraphs of memory.                             *)
LEMMA AddrIs ==
  /\ \A a : a \in Addr <=> a \in Nat /\ a % 16 = 0 /\ a <= maxaddr
  /\ NULL \in Addr
<1>1. maxaddr \in Nat
  BY Layout
<1>2. ASSUME NEW a \in Addr PROVE a \in Nat /\ a % 16 = 0 /\ a <= maxaddr
  <2>1. PICK k \in 0 .. maxaddr \div 16 : a = 16 * k
    BY DEF Addr, HDR
  <2> QED
    BY <2>1, <1>1
<1>3. ASSUME NEW a \in Nat, a % 16 = 0, a <= maxaddr PROVE a \in Addr
  <2>1. a \div 16 \in 0 .. maxaddr \div 16 /\ a = 16 * (a \div 16)
    BY <1>3, <1>1
  <2> QED
    BY <2>1 DEF Addr, HDR
<1> QED
  BY <1>1, <1>2, <1>3 DEF NULL

(* The space a stack takes is whole paragraphs, with room for the header.  *)
LEMMA SizeIs ==
  ASSUME NEW n \in Nat
  PROVE  /\ SizeToBeAllocated(n) \in Nat /\ SizeToBeAllocated(n) % 16 = 0
         /\ SizeToBeAllocated(n) >= n + 16
BY DEF SizeToBeAllocated, HDR

---------------------------------------------------------------------------
(* The walk along the free list.                                           *)

(* A function of k in 0..n that satisfies the equations of Walk.           *)
WalkUpTo(n, f) ==
  f = [k \in 0 .. n |->
         IF k = 0 THEN freemem
         ELSE LET h == f[k - 1] IN IF h = NULL THEN NULL ELSE next[h]]

LEMMA WalkExists ==
  ASSUME NEW n \in Nat
  PROVE  \E f : WalkUpTo(n, f)
<1> DEFINE Bad == {m \in Nat : ~ \E f : WalkUpTo(m, f)}
<1> SUFFICES ASSUME Bad # {} PROVE FALSE
  OBVIOUS
<1>1. PICK m \in Bad : \A y \in Bad : m <= y
  BY LeastExists
<1>2. CASE m = 0
  <2> DEFINE g == [k \in 0 .. 0 |-> freemem]
  <2>1. WalkUpTo(0, g)
    BY DEF WalkUpTo
  <2> QED
    BY <1>2, <2>1
<1>3. CASE m # 0
  <2>1. m - 1 \in Nat /\ m - 1 \notin Bad
    BY <1>1, <1>3
  <2>2. PICK f : WalkUpTo(m - 1, f)
    BY <2>1
  <2> DEFINE V(e, k) == IF k = 0 THEN freemem
                        ELSE LET h == e[k - 1] IN IF h = NULL THEN NULL ELSE next[h]
             g == [k \in 0 .. m |-> V(f, k)]
  <2>3. ASSUME NEW k \in 0 .. m - 1 PROVE f[k] = V(f, k) /\ g[k] = f[k]
    BY <2>2, <2>1 DEF WalkUpTo
  <2>4. ASSUME NEW k \in 0 .. m PROVE V(f, k) = V(g, k)
    <3>1. k # 0 => k - 1 \in 0 .. m - 1
      BY <2>1
    <3> QED
      BY <3>1, <2>3
  <2>5. g = [k \in 0 .. m |-> V(g, k)]
    BY <2>4
  <2>6. WalkUpTo(m, g)
    BY <2>5 DEF WalkUpTo
  <2> QED
    BY <2>6
<1> QED
  BY <1>2, <1>3

LEMMA WalkIs ==
  /\ DOMAIN Walk = 0 .. maxaddr \div 16
  /\ Walk[0] = freemem
  /\ \A k \in 1 .. maxaddr \div 16 :
       Walk[k] = IF Walk[k - 1] = NULL THEN NULL ELSE next[Walk[k - 1]]
<1>1. maxaddr \div 16 \in Nat
  BY Layout
<1>2. \E f : WalkUpTo(maxaddr \div 16, f)
  BY <1>1, WalkExists
<1>3. WalkUpTo(maxaddr \div 16, Walk)
  BY <1>2 DEF WalkUpTo, Walk, HDR
<1> QED
  BY <1>1, <1>3 DEF WalkUpTo

(* The walk stays on the list, and moves up by a paragraph at least.       *)
LEMMA WalkClimbs ==
  ASSUME NEW F \in SUBSET (Addr \ {NULL}), ListOf(F, freemem, next, prev),
         NEW k \in 0 .. maxaddr \div 16
  PROVE  /\ Walk[k] \in F \cup {NULL}
         /\ Walk[k] # NULL => Walk[k] >= 16 * (k + 1)
<1> DEFINE Good(j) == Walk[j] \in F \cup {NULL} /\ (Walk[j] # NULL => Walk[j] >= 16 * (j + 1))
           Bad == {j \in 0 .. maxaddr \div 16 : ~ Good(j)}
<1>0. maxaddr \div 16 \in Nat
  BY Layout
<1> SUFFICES ASSUME Bad # {} PROVE FALSE
  OBVIOUS
<1>1. PICK j \in Bad : \A y \in Bad : j <= y
  <2> HIDE DEF Good
  <2>1. Bad \in SUBSET Nat
    BY <1>0
  <2> QED
    BY <2>1, LeastExists
<1>2. \A f \in F : f \in Nat /\ f % 16 = 0 /\ f # 0
  BY AddrIs DEF NULL
<1>3. Good(0)
  <2>1. Walk[0] = freemem /\ freemem \in F
    BY WalkIs DEF ListOf
  <2> QED
    BY <2>1, <1>2
<1>4. j # 0 /\ j - 1 \in 0 .. maxaddr \div 16 /\ j - 1 \notin Bad
  BY <1>0, <1>1, <1>3
<1>5. Good(j - 1)
  BY <1>4
<1>6. Walk[j] = IF Walk[j - 1] = NULL THEN NULL ELSE next[Walk[j - 1]]
  BY <1>0, <1>4, WalkIs
<1>7. CASE Walk[j - 1] # NULL
  <2> DEFINE f == Walk[j - 1]
  <2>1. f \in F /\ f >= 16 * j
    BY <1>5, <1>7, <1>4
  <2>2. next[f] \in F \cup {NULL} /\ (next[f] # NULL => f < next[f])
    BY <2>1 DEF ListOf
  <2>3. next[f] # NULL => next[f] >= 16 * (j + 1)
    BY <2>1, <2>2, <1>2
  <2> QED
    BY <1>6, <1>7, <2>2, <2>3
<1> QED
  BY <1>6, <1>7

(* What the walk meets is the list.                                        *)
LEMMA HeadersAre ==
  ASSUME NEW F \in SUBSET (Addr \ {NULL}), ListOf(F, freemem, next, prev)
  PROVE  FreeHeaders = F
<1>0. maxaddr \div 16 \in Nat /\ DOMAIN Walk = 0 .. maxaddr \div 16
  BY Layout, WalkIs
<1>1. FreeHeaders \subseteq F
  BY <1>0, WalkClimbs DEF FreeHeaders
<1> DEFINE Missed == F \ FreeHeaders
<1> SUFFICES ASSUME Missed # {} PROVE FALSE
  BY <1>1
<1>2. \A f \in F : f \in Nat /\ f % 16 = 0 /\ f # 0 /\ f <= maxaddr
  BY AddrIs DEF NULL
<1>3. PICK m \in Missed : \A y \in Missed : m <= y
  <2>1. Missed \in SUBSET Nat
    BY <1>2
  <2> QED
    BY <2>1, LeastExists
<1>4. m # freemem
  BY <1>0, <1>2, <1>3, WalkIs DEF FreeHeaders, NULL
<1>5. prev[m] \in F /\ next[prev[m]] = m /\ prev[m] < m
  <2>1. prev[m] \in F /\ next[prev[m]] = m
    BY <1>3, <1>4 DEF ListOf
  <2>2. next[prev[m]] # NULL
    BY <2>1, <1>2, <1>3 DEF NULL
  <2> QED
    BY <2>1, <2>2 DEF ListOf
<1>6. prev[m] \in FreeHeaders
  BY <1>2, <1>3, <1>5
<1>7. PICK k \in 0 .. maxaddr \div 16 : Walk[k] = prev[m]
  BY <1>0, <1>6 DEF FreeHeaders
<1>8. Walk[k] # NULL /\ Walk[k] >= 16 * (k + 1)
  BY <1>5, <1>7, WalkClimbs
<1>9. k + 1 \in 1 .. maxaddr \div 16
  BY <1>0, <1>2, <1>3, <1>5, <1>7, <1>8, Layout
<1>10. Walk[k + 1] = m
  <2>1. PICK j \in 1 .. maxaddr \div 16 : j = k + 1 /\ j - 1 = k
    BY <1>9
  <2>2. Walk[j] = next[Walk[k]]
    BY <2>1, <1>8, WalkIs
  <2> QED
    BY <2>1, <2>2, <1>7, <1>5
<1> QED
  BY <1>0, <1>9, <1>10, <1>2, <1>3 DEF FreeHeaders, NULL

(* The block that kmalloc finds is free, and has room for the stack.       *)
LEMMA FoundIsFree ==
  ASSUME NEW F \in SUBSET (Addr \ {NULL}), ListOf(F, freemem, next, prev),
         NEW n, findFreeMemHeader(n) # NULL
  PROVE  findFreeMemHeader(n) \in F /\ size[findFreeMemHeader(n)] >= n
<1>1. FittingPlaces(n) # {} /\ findFreeMemHeader(n) = Walk[MinOf(FittingPlaces(n))]
  BY DEF findFreeMemHeader
<1>2. DOMAIN Walk = 0 .. maxaddr \div 16 /\ maxaddr \div 16 \in Nat
  BY Layout, WalkIs
<1>3. FittingPlaces(n) \in SUBSET Nat
  BY <1>2 DEF FittingPlaces
<1>4. MinOf(FittingPlaces(n)) \in FittingPlaces(n)
  BY <1>1, <1>3, LeastExists
<1> QED
  BY <1>1, <1>2, <1>4, WalkClimbs DEF FittingPlaces

(* The header in front of which kfree inserts b is the first one behind b. *)
LEMMA FirstBehind ==
  ASSUME NEW F \in SUBSET (Addr \ {NULL}), ListOf(F, freemem, next, prev),
         NEW b \in Addr, Behind(b) # {}
  PROVE  LET c == Walk[MinOf(Behind(b))]
         IN  c \in F /\ b < c /\ \A g \in F : b < g => c <= g
<1> DEFINE k == MinOf(Behind(b))
           c == Walk[k]
<1>1. DOMAIN Walk = 0 .. maxaddr \div 16 /\ maxaddr \div 16 \in Nat
  BY Layout, WalkIs
<1>2. k \in Behind(b) /\ \A y \in Behind(b) : k <= y
  <2>1. Behind(b) \in SUBSET Nat
    BY <1>1 DEF Behind
  <2> QED
    BY <2>1, LeastExists
<1>3. k \in 0 .. maxaddr \div 16 /\ c > b
  BY <1>1, <1>2 DEF Behind
<1> HIDE DEF k
<1>4. \A f \in F : f \in Nat
  BY AddrIs
<1>5. b \in Nat /\ c \in F
  BY <1>3, WalkClimbs, AddrIs DEF NULL
<1>6. ASSUME NEW g \in F, b < g PROVE c <= g
  <2>1. CASE k = 0
    BY <2>1, WalkIs DEF ListOf
  <2>2. CASE k # 0
    <3> DEFINE p == Walk[k - 1]
    <3>1. k - 1 \in 0 .. maxaddr \div 16 /\ k \in 1 .. maxaddr \div 16
      BY <1>1, <1>3, <2>2
    <3>2. c = IF p = NULL THEN NULL ELSE next[p]
      BY <3>1, WalkIs
    <3>3. p # NULL /\ p \in F /\ c = next[p]
      BY <3>1, <3>2, <1>3, <1>5, WalkClimbs DEF NULL
    <3>4. ~ (p > b)
      <4>1. p > b => k - 1 \in Behind(b)
        BY <1>1, <3>1 DEF Behind
      <4>2. ~ (k <= k - 1)
        BY <1>1, <1>3
      <4> QED
        BY <4>1, <4>2, <1>2
    <3>5. p < g
      <4>1. p \in Nat /\ g \in Nat
        BY <3>3, <1>4
      <4> HIDE DEF p
      <4> QED
        BY <4>1, <3>4, <1>5, <1>6
    <3> QED
      BY <3>3, <3>5 DEF ListOf
  <2> QED
    BY <2>1, <2>2
<1> QED
  BY <1>3, <1>5, <1>6 DEF k

---------------------------------------------------------------------------
(* Operations on a list.                                                   *)

(* In a list, prev and next are inverse to each other.                     *)
LEMMA BackAndForth ==
  ASSUME NEW F \in SUBSET (Addr \ {NULL}), NEW h, NEW nx, NEW pv, ListOf(F, h, nx, pv),
         NEW x \in F, NEW y \in F
  PROVE  nx[x] = y <=> pv[y] = x
BY DEF ListOf

(* A list stays one when its nodes keep their fields.                      *)
LEMMA ListKept ==
  ASSUME NEW F \in SUBSET (Addr \ {NULL}), NEW h, NEW nx, NEW pv, ListOf(F, h, nx, pv),
         NEW nx1, NEW pv1, \A x \in F : nx1[x] = nx[x] /\ pv1[x] = pv[x]
  PROVE  ListOf(F, h, nx1, pv1)
BY DEF ListOf

(* The node f takes the place of b: what is left of b, or b joined to a    *)
(* block in front of it.                                                   *)
LEMMA ListReplace ==
  ASSUME NEW F \in SUBSET (Addr \ {NULL}), NEW h, NEW nx, NEW pv, ListOf(F, h, nx, pv),
         NEW b \in F, NEW f \in Addr \ {NULL}, f \notin F,
         \A g \in F \ {b} : (g < b => g < f) /\ (b < g => f < g),
         NEW h1, NEW nx1, NEW pv1, b = h => h1 = f, b # h => h1 = h,
         nx1[f] = nx[b], pv1[f] = pv[b],
         \A x \in F \ {b} : /\ nx1[x] = IF nx[x] = b THEN f ELSE nx[x]
                            /\ pv1[x] = IF pv[x] = b THEN f ELSE pv[x]
  PROVE  ListOf((F \ {b}) \cup {f}, h1, nx1, pv1)
<1> DEFINE F1 == (F \ {b}) \cup {f}
<1>1. \A x \in F \cup {f} : x \in Nat /\ x # NULL
  BY AddrIs
<1>2. h1 \in F1 /\ pv1[h1] = NULL
  BY <1>1 DEF ListOf
<1>3. \A x \in F1 : h1 <= x
  BY <1>1 DEF ListOf
<1>4. \A x \in F1 : nx1[x] \in F1 \cup {NULL}
  BY <1>1 DEF ListOf
<1>5. \A x \in F1 : nx1[x] # NULL => x < nx1[x]
  BY <1>1 DEF ListOf
<1>6. \A x \in F1 : nx1[x] # NULL => pv1[nx1[x]] = x
  BY <1>1 DEF ListOf
<1>7. \A x \in F1 : x # h1 => pv1[x] \in F1
  BY <1>1 DEF ListOf
<1>8. \A x \in F1 : x # h1 => nx1[pv1[x]] = x
  BY <1>1 DEF ListOf
<1>9. ASSUME NEW x \in F1, NEW y \in F1, x < y
      PROVE  nx1[x] # NULL /\ nx1[x] <= y
  <2>1. CASE x = f /\ y # f
    <3>1. b < y
      BY <2>1, <1>1, <1>9
    <3> QED
      BY <2>1, <3>1 DEF ListOf
  <2>2. CASE x # f /\ y = f
    <3>1. x < b
      BY <2>2, <1>1, <1>9
    <3>2. nx[x] # NULL /\ nx[x] <= b /\ nx[x] \in F
      BY <2>2, <3>1 DEF ListOf
    <3> QED
      BY <2>2, <3>2, <1>1
  <2>3. CASE x # f /\ y # f
    <3>1. nx[x] # NULL /\ nx[x] <= y
      BY <2>3, <1>9 DEF ListOf
    <3> QED
      BY <2>3, <3>1, <1>1
  <2> QED
    BY <2>1, <2>2, <2>3, <1>1, <1>9
<1> HIDE DEF F1
<1>10. ListOf(F1, h1, nx1, pv1)
  BY <1>2, <1>3, <1>4, <1>5, <1>6, <1>7, <1>8, <1>9 DEF ListOf
<1> QED
  BY <1>10 DEF F1

(* The node b leaves the list: it was used up, or joined to the block in   *)
(* front of it.                                                            *)
LEMMA ListRemove ==
  ASSUME NEW F \in SUBSET (Addr \ {NULL}), NEW h, NEW nx, NEW pv, ListOf(F, h, nx, pv),
         NEW b \in F, b # h \/ nx[b] # NULL,
         NEW h1, NEW nx1, NEW pv1, b = h => h1 = nx[b], b # h => h1 = h,
         \A x \in F \ {b} : nx1[x] = IF nx[x] = b THEN nx[b] ELSE nx[x],
         \A x \in F \ {b} : pv1[x] = IF pv[x] = b THEN pv[b] ELSE pv[x]
  PROVE  ListOf(F \ {b}, h1, nx1, pv1)
<1> DEFINE F1 == F \ {b}
<1>1. \A x \in F : x \in Nat /\ x # NULL
  BY AddrIs
<1>2. h1 \in F1 /\ pv1[h1] = NULL
  BY <1>1 DEF ListOf
<1>3. \A x \in F1 : h1 <= x
  BY <1>1 DEF ListOf
<1>4. \A x \in F1 : nx1[x] \in F1 \cup {NULL}
  BY <1>1 DEF ListOf
<1>5. \A x \in F1 : nx1[x] # NULL => x < nx1[x]
  BY <1>1 DEF ListOf
<1>6. \A x \in F1 : nx1[x] # NULL => pv1[nx1[x]] = x
  BY <1>1 DEF ListOf
<1>7. \A x \in F1 : x # h1 => pv1[x] \in F1
  BY <1>1 DEF ListOf
<1>8. \A x \in F1 : x # h1 => nx1[pv1[x]] = x
  BY <1>1 DEF ListOf
<1>9. \A x, y \in F1 : x < y => nx1[x] # NULL /\ nx1[x] <= y
  BY <1>1 DEF ListOf
<1> HIDE DEF F1
<1>10. ListOf(F1, h1, nx1, pv1)
  BY <1>2, <1>3, <1>4, <1>5, <1>6, <1>7, <1>8, <1>9 DEF ListOf
<1> QED
  BY <1>10 DEF F1

(* The node b is inserted in front of c, the first one behind it.          *)
LEMMA ListInsert ==
  ASSUME NEW F \in SUBSET (Addr \ {NULL}), NEW h, NEW nx, NEW pv, ListOf(F, h, nx, pv),
         NEW b \in Addr \ {NULL}, b \notin F,
         NEW c \in F, b < c, \A g \in F : b < g => c <= g,
         NEW h1, NEW nx1, NEW pv1, c = h => h1 = b, c # h => h1 = h,
         nx1[b] = c, pv1[b] = pv[c], pv1[c] = b,
         \A x \in F : nx1[x] = IF nx[x] = c THEN b ELSE nx[x],
         \A x \in F \ {c} : pv1[x] = pv[x]
  PROVE  ListOf(F \cup {b}, h1, nx1, pv1)
<1> DEFINE F1 == F \cup {b}
<1>1. \A x \in F1 : x \in Nat /\ x # NULL
  BY AddrIs
<1>2. h1 \in F1 /\ pv1[h1] = NULL
  BY <1>1 DEF ListOf
<1>3. \A x \in F1 : h1 <= x
  BY <1>1 DEF ListOf
<1>4. \A x \in F1 : nx1[x] \in F1 \cup {NULL}
  BY <1>1 DEF ListOf
<1>5. \A x \in F1 : nx1[x] # NULL => x < nx1[x]
  BY <1>1 DEF ListOf
<1>6. \A x \in F1 : nx1[x] # NULL => pv1[nx1[x]] = x
  BY <1>1 DEF ListOf
<1>7. \A x \in F1 : x # h1 => pv1[x] \in F1
  BY <1>1 DEF ListOf
<1>8. \A x \in F1 : x # h1 => nx1[pv1[x]] = x
  BY <1>1 DEF ListOf
<1>9. \A x, y \in F1 : x < y => nx1[x] # NULL /\ nx1[x] <= y
  BY <1>1 DEF ListOf
<1> HIDE DEF F1
<1>10. ListOf(F1, h1, nx1, pv1)
  BY <1>2, <1>3, <1>4, <1>5, <1>6, <1>7, <1>8, <1>9 DEF ListOf
<1> QED
  BY <1>10 DEF F1

---------------------------------------------------------------------------
(* kmalloc.                                                                *)

(* What the invariant says of the values involved.                         *)
LEMMA HeapTypes ==
  ASSUME NEW F, HeapInv(F)
  PROVE  /\ F \in SUBSET (Addr \ {NULL}) /\ freemem \in F
         /\ ListOf(F, freemem, next, prev)
         /\ \A a \in Addr : /\ a \in Nat /\ a % 16 = 0 /\ a <= maxaddr
                            /\ size[a] \in Nat /\ next[a] \in Addr /\ prev[a] \in Addr
         /\ \A a \in used \cup F : a \in Addr /\ a # NULL
BY AddrIs DEF HeapInv, TypeOK, ListOf

(* The rest of a block that is split is a block in its place.              *)
LEMMA SplitKeeps ==
  ASSUME NEW F, HeapInv(F), NEW n \in Nat, NEW b \in F,
         Splits(b, n), Allocate(b, n)
  PROVE  \E F1 : HeapInv(F1)'
<1> DEFINE s == SizeToBeAllocated(n)
           f == b + s
<1>1. s \in Nat /\ s % 16 = 0 /\ s >= 16
  BY SizeIs
<1>2. /\ F \in SUBSET (Addr \ {NULL}) /\ freemem \in F
      /\ ListOf(F, freemem, next, prev)
      /\ \A a \in Addr : /\ a \in Nat /\ a % 16 = 0 /\ a <= maxaddr
                         /\ size[a] \in Nat /\ next[a] \in Addr /\ prev[a] \in Addr
      /\ \A a \in used \cup F : a \in Addr /\ a # NULL
  BY HeapTypes
<1>3. size[b] > s + 16
  BY DEF Splits, HDR
<1> HIDE DEF s
<1>4. f \in Nat /\ f % 16 = 0 /\ b < f /\ f + 16 < b + size[b] /\ f # NULL
  BY <1>1, <1>2, <1>3 DEF NULL
<1>5. InRegion(b, size) /\ b + size[b] <= maxaddr
  <2>1. InRegion(b, size)
    BY DEF HeapInv, Apart
  <2> QED
    BY <2>1, <1>2, Layout DEF InRegion
<1>6. f \in Addr
  <2>1. b \in Nat /\ size[b] \in Nat /\ maxaddr \in Nat
    BY <1>2, Layout
  <2>2. f <= maxaddr
    BY <2>1, <1>4, <1>5
  <2> QED
    BY <2>2, <1>4, AddrIs
<1>7. \A a \in used \cup F : b < a => f < a
  BY <1>2, <1>4 DEF HeapInv, Apart
<1>8. f \notin used \cup F
  BY <1>2, <1>4, <1>7
<1>9. /\ used' = used \cup {b}
      /\ freemem' = IF b = freemem THEN f ELSE freemem
      /\ size' = [size EXCEPT ![f] = b + size[b] - f, ![b] = s]
      /\ next' = IF b = freemem
                 THEN [next EXCEPT ![f] = next[b], ![b] = NULL]
                 ELSE [next EXCEPT ![f] = next[b], ![prev[b]] = f, ![b] = NULL]
  BY DEF Allocate, LeftOver, s
<1>10. /\ size \in [Addr -> Nat] /\ next \in [Addr -> Addr] /\ prev \in [Addr -> Addr]
       /\ used \in SUBSET Addr
  BY DEF HeapInv, TypeOK
<1>11. b # freemem => prev[b] \in F /\ next[prev[b]] = b /\ prev[b] # b
  BY <1>2 DEF ListOf
<1>12. next[b] \in F \cup {NULL} /\ next[b] # b /\ next[b] # f
  BY <1>2, <1>4, <1>8 DEF ListOf
<1>13. prev' = IF next[b] = NULL
               THEN [prev EXCEPT ![f] = prev[b], ![b] = NULL]
               ELSE [prev EXCEPT ![f] = prev[b], ![next[b]] = f, ![b] = NULL]
  <2> DEFINE next1 == [next EXCEPT ![f] = next[b]]
             next2 == IF b = freemem THEN next1 ELSE [next1 EXCEPT ![prev[b]] = f]
  <2>1. next2[f] = next[b]
    BY <1>6, <1>8, <1>10, <1>11
  <2> QED
    BY <2>1, <1>4 DEF Allocate, SetPrev, s
<1>14. /\ next' \in [Addr -> Addr] /\ prev' \in [Addr -> Addr] /\ size' \in [Addr -> Nat]
       /\ freemem' \in Addr /\ used' \subseteq Addr
  <2>1. b \in Addr /\ NULL \in Addr /\ prev[b] \in Addr /\ next[b] \in Addr
    BY <1>2, AddrIs
  <2>2. next' \in [Addr -> Addr]
    BY <2>1, <1>6, <1>9, <1>10
  <2>3. prev' \in [Addr -> Addr]
    BY <2>1, <1>6, <1>13, <1>10
  <2>4. size' \in [Addr -> Nat]
    <3>1. b + size[b] - f \in Nat
      BY <2>1, <1>2, <1>4
    <3> QED
      BY <3>1, <2>1, <1>1, <1>6, <1>9, <1>10
  <2> QED
    BY <2>1, <2>2, <2>3, <2>4, <1>2, <1>6, <1>9
<1>15. /\ size'[b] = s /\ size'[f] = b + size[b] - f
       /\ \A x \in Addr \ {b, f} : size'[x] = size[x]
  BY <1>2, <1>4, <1>6, <1>9, <1>10
<1>16. /\ next'[f] = next[b]
       /\ \A x \in F \ {b} : next'[x] = IF next[x] = b THEN f ELSE next[x]
  <2>1. \A x \in F \ {b} : next[x] = b <=> b # freemem /\ x = prev[b]
    BY <1>2 DEF ListOf
  <2> QED
    BY <2>1, <1>2, <1>4, <1>6, <1>8, <1>9, <1>10, <1>11
<1>17. /\ prev'[f] = prev[b]
       /\ \A x \in F \ {b} : prev'[x] = IF prev[x] = b THEN f ELSE prev[x]
  <2>1. \A x \in F \ {b} : prev[x] = b <=> x = next[b]
    BY <1>2, BackAndForth
  <2> QED
    BY <2>1, <1>2, <1>4, <1>6, <1>8, <1>10, <1>12, <1>13
<1>18. PICK F1 : F1 = (F \ {b}) \cup {f}
  OBVIOUS
<1>19. ListOf(F1, freemem', next', prev')
  <2>1. \A g \in F \ {b} : (g < b => g < f) /\ (b < g => f < g)
    BY <1>2, <1>4, <1>7
  <2>2. f \in Addr \ {NULL} /\ f \notin F
    BY <1>4, <1>6, <1>8
  <2>3. (b = freemem => freemem' = f) /\ (b # freemem => freemem' = freemem)
    BY <1>9
  <2> HIDE DEF f
  <2>4. F \in SUBSET (Addr \ {NULL}) /\ ListOf(F, freemem, next, prev)
    BY <1>2
  <2>5. ListOf((F \ {b}) \cup {f}, freemem', next', prev')
    BY <2>1, <2>2, <2>3, <2>4, <1>16, <1>17, ListReplace
  <2> QED
    BY <2>5, <1>18
<1>20. next'[NULL] <= freemem' /\ size'[NULL] = 0
  <2>1. next'[NULL] = next[NULL] /\ size'[NULL] = size[NULL]
    BY <1>2, <1>4, <1>6, <1>9, <1>10, <1>11, <1>15, AddrIs
  <2> QED
    BY <2>1, <1>2, <1>4, <1>9, AddrIs DEF HeapInv
<1>21. /\ F1 \subseteq Addr \ {NULL} /\ used' \subseteq Addr \ {NULL}
       /\ used' \cap F1 = {} /\ used' \cup F1 = used \cup F \cup {f}
  BY <1>2, <1>4, <1>6, <1>8, <1>9, <1>18 DEF HeapInv
<1>22. Apart(used \cup F \cup {f}, size')
  <2>1. \A a \in used \cup F \cup {f} : InRegion(a, size')
    <3>1. \A a \in used \cup F : InRegion(a, size)
      BY DEF HeapInv, Apart
    <3>2. \A a \in (used \cup F) \ {b} : a \in Addr /\ size'[a] = size[a]
      BY <1>2, <1>8, <1>15
    <3>3. InRegion(b, size')
      BY <3>1, <1>1, <1>2, <1>4, <1>15, Layout DEF InRegion
    <3>4. InRegion(f, size')
      <4>1. /\ f + size'[f] = b + size[b] /\ b < f
            /\ b \in Nat /\ f \in Nat /\ size[b] \in Nat
        BY <1>2, <1>4, <1>15
      <4>2. InRegion(b, size)
        BY <3>1
      <4> HIDE DEF f
      <4> QED
        BY <4>1, <4>2, Layout DEF InRegion
    <3> QED
      BY <3>1, <3>2, <3>3, <3>4 DEF InRegion
  <2>2. \A a, c \in used \cup F : a < c => a + size[a] <= c
    BY DEF HeapInv, Apart
  <2>3. \A a, c \in used \cup F \cup {f} : a < c => a + size'[a] <= c
    BY <2>2, <1>1, <1>2, <1>4, <1>6, <1>15
  <2> QED
    BY <2>1, <2>3 DEF Apart
<1>23. Merged(F1, size')
  <2>1. \A g, h \in F : g + size[g] # h
    BY DEF HeapInv, Merged
  <2>2. ASSUME NEW g \in F1, NEW h \in F1 PROVE g + size'[g] # h
    <3>1. CASE g = f /\ h = f
      BY <3>1, <1>4, <1>15, <1>2
    <3>2. CASE g = f /\ h # f
      <4>1. f + size'[f] = b + size[b]
        BY <1>15, <1>4, <1>2
      <4> QED
        BY <4>1, <3>2, <2>1, <1>18
    <3>3. CASE g # f /\ h = f
      <4>1. g \in F /\ size'[g] = size[g] /\ g \in Nat /\ g # b
        BY <3>3, <1>2, <1>15, <1>18
      <4>2. g < b => g + size[g] <= b
        BY <4>1 DEF HeapInv, Apart
      <4>3. b < g => f < g
        BY <4>1, <1>7
      <4> QED
        BY <4>1, <4>2, <4>3, <1>2, <1>4, <3>3
    <3>4. CASE g # f /\ h # f
      BY <3>4, <2>1, <1>2, <1>15, <1>18
    <3> QED
      BY <3>1, <3>2, <3>3, <3>4
  <2> QED
    BY <2>2 DEF Merged
<1>24. \A a \in used' : size'[a] # 0
  <2>1. \A a \in used : size[a] # 0
    BY DEF HeapInv
  <2>2. \A a \in used : a \in Addr /\ a # f
    BY <1>2, <1>8
  <2>3. size'[b] # 0
    BY <1>1, <1>15
  <2>4. \A a \in used : a # b => size'[a] = size[a]
    BY <2>2, <1>15
  <2> QED
    BY <2>1, <2>3, <2>4, <1>9
<1> QED
  BY <1>14, <1>19, <1>20, <1>21, <1>22, <1>23, <1>24 DEF HeapInv, TypeOK

(* A block that is used up leaves the free list.                           *)
LEMMA TakeKeeps ==
  ASSUME NEW F, HeapInv(F), NEW n \in Nat, NEW b \in F, SizeToBeAllocated(n) <= size[b],
         b # freemem \/ next[b] # NULL, ~ Splits(b, n), Allocate(b, n)
  PROVE  \E F1 : HeapInv(F1)'
<1> DEFINE s == SizeToBeAllocated(n)
           f == next[b]
<1>1. s \in Nat /\ s <= size[b] /\ s # 0
  BY SizeIs
<1>2. /\ F \in SUBSET (Addr \ {NULL}) /\ freemem \in F
      /\ ListOf(F, freemem, next, prev)
      /\ \A a \in Addr : /\ a \in Nat /\ a % 16 = 0 /\ a <= maxaddr
                         /\ size[a] \in Nat /\ next[a] \in Addr /\ prev[a] \in Addr
      /\ \A a \in used \cup F : a \in Addr /\ a # NULL
  BY HeapTypes
<1> HIDE DEF s
<1>3. /\ size \in [Addr -> Nat] /\ next \in [Addr -> Addr] /\ prev \in [Addr -> Addr]
      /\ used \in SUBSET Addr /\ b \in Addr /\ NULL \in Addr
  BY <1>2, AddrIs DEF HeapInv, TypeOK
<1>4. b # freemem => prev[b] \in F /\ next[prev[b]] = b /\ prev[b] # b /\ prev[b] < b
  BY <1>2 DEF ListOf
<1>5. f \in F \cup {NULL} /\ (f # NULL => b < f /\ prev[f] = b)
  BY <1>2 DEF ListOf
<1>6. f # NULL => next[f] # b /\ next[f] # f /\ next[f] \in F \cup {NULL}
  BY <1>2, <1>5 DEF ListOf
<1>7. /\ used' = used \cup {b}
      /\ freemem' = IF b = freemem THEN f ELSE freemem
      /\ size' = [size EXCEPT ![b] = s]
      /\ next' = IF b = freemem THEN [next EXCEPT ![b] = NULL]
                 ELSE [next EXCEPT ![prev[b]] = f, ![b] = NULL]
  BY DEF Allocate, s
<1>8. /\ next'[b] = NULL /\ size'[b] = s
      /\ \A x \in Addr \ {b} : size'[x] = size[x]
      /\ \A x \in F \ {b} : next'[x] = IF next[x] = b THEN f ELSE next[x]
  <2>1. \A x \in F \ {b} : next[x] = b <=> b # freemem /\ x = prev[b]
    BY <1>2 DEF ListOf
  <2> QED
    BY <2>1, <1>2, <1>3, <1>4, <1>7
<1>9. ASSUME f # NULL
      PROVE  prev' = IF next[f] = NULL
                     THEN [prev EXCEPT ![f] = prev[b], ![b] = NULL]
                     ELSE [prev EXCEPT ![f] = prev[b], ![next[f]] = f, ![b] = NULL]
  <2> DEFINE next2 == IF b = freemem THEN next ELSE [next EXCEPT ![prev[b]] = f]
  <2>1. next2[f] = next[f]
    <3>1. b # freemem => prev[b] # f
      BY <1>2, <1>4, <1>5
    <3> QED
      BY <3>1, <1>2, <1>3, <1>4
  <2> QED
    BY <2>1, <1>9 DEF Allocate, SetPrev, s
<1>10. ASSUME f = NULL
       PROVE  prev' = IF next[NULL] = NULL THEN [prev EXCEPT ![b] = NULL]
                      ELSE [prev EXCEPT ![next[NULL]] = NULL, ![b] = NULL]
  <2> DEFINE next2 == [next EXCEPT ![prev[b]] = f]
  <2>1. b # freemem /\ prev[b] # NULL
    BY <1>2, <1>4, <1>10
  <2>2. next2[f] = next[NULL]
    BY <2>1, <1>2, <1>3, <1>10
  <2> QED
    BY <2>1, <2>2, <1>10 DEF Allocate, SetPrev, s
<1>11. ASSUME NEW x \in F \ {b}
       PROVE  prev'[x] = IF prev[x] = b THEN prev[b] ELSE prev[x]
  <2>1. prev[x] = b <=> x = f
    <3>1. x \in F /\ F \in SUBSET (Addr \ {NULL}) /\ ListOf(F, freemem, next, prev)
      BY <1>2
    <3>2. next[b] = x <=> prev[x] = b
      BY <3>1, BackAndForth
    <3> QED
      BY <3>2
  <2>2. x \in Addr /\ x \in Nat /\ x # NULL
    BY <1>2
  <2>3. CASE f # NULL
    <3>1. next[f] # NULL => next[f] # f /\ prev[next[f]] = f /\ next[f] \in Addr
      BY <2>3, <1>2, <1>5, <1>6 DEF ListOf
    <3> QED
      BY <3>1, <2>1, <2>2, <2>3, <1>3, <1>9
  <2>4. CASE f = NULL
    <3>1. x = next[NULL] => prev[x] = NULL
      <4>1. freemem <= x /\ next[NULL] <= freemem /\ freemem \in Nat /\ prev[freemem] = NULL
        BY <1>2 DEF ListOf, HeapInv
      <4> QED
        BY <4>1, <2>2
    <3>2. next[NULL] \in Addr
      BY <1>2, <1>3
    <3> QED
      BY <3>1, <3>2, <2>1, <2>2, <2>4, <1>3, <1>10
  <2> QED
    BY <2>3, <2>4
<1>12. f \in Addr /\ (f # NULL => next[f] \in Addr) /\ prev[b] \in Addr /\ next[NULL] \in Addr
  BY <1>2, <1>3
<1>13. /\ next' \in [Addr -> Addr] /\ prev' \in [Addr -> Addr] /\ size' \in [Addr -> Nat]
       /\ freemem' \in Addr /\ used' \subseteq Addr
  <2>1. next' \in [Addr -> Addr]
    BY <1>3, <1>7, <1>12
  <2>2. prev' \in [Addr -> Addr]
    BY <1>3, <1>9, <1>10, <1>12
  <2>3. size' \in [Addr -> Nat]
    BY <1>1, <1>3, <1>7
  <2> QED
    BY <2>1, <2>2, <2>3, <1>2, <1>3, <1>7, <1>12
<1>14. PICK F1 : F1 = F \ {b}
  OBVIOUS
<1>15. ListOf(F1, freemem', next', prev')
  <2>1. (b = freemem => freemem' = next[b]) /\ (b # freemem => freemem' = freemem)
    BY <1>7
  <2>2. \A x \in F \ {b} : next'[x] = IF next[x] = b THEN next[b] ELSE next[x]
    BY <1>8
  <2>3. \A x \in F \ {b} : prev'[x] = IF prev[x] = b THEN prev[b] ELSE prev[x]
    BY <1>11
  <2>4. F \in SUBSET (Addr \ {NULL}) /\ ListOf(F, freemem, next, prev)
    BY <1>2
  <2> HIDE DEF f
  <2>5. ListOf(F \ {b}, freemem', next', prev')
    BY <2>1, <2>2, <2>3, <2>4, ListRemove
  <2> QED
    BY <2>5, <1>14
<1>16. next'[NULL] <= freemem' /\ size'[NULL] = 0
  <2>1. next'[NULL] = next[NULL] /\ size'[NULL] = size[NULL]
    BY <1>2, <1>3, <1>4, <1>7
  <2>3. next[NULL] \in Nat /\ next[NULL] <= freemem /\ size[NULL] = 0
    BY <1>2, <1>12 DEF HeapInv
  <2>2. freemem <= freemem' /\ freemem' \in Nat /\ freemem \in Nat
    BY <1>2, <1>5, <1>7, <1>13
  <2> QED
    BY <2>1, <2>2, <2>3
<1>17. /\ F1 \subseteq Addr \ {NULL} /\ used' \subseteq Addr \ {NULL}
       /\ used' \cap F1 = {} /\ used' \cup F1 = used \cup F
  BY <1>2, <1>7, <1>14 DEF HeapInv
<1>18. Apart(used \cup F, size')
  <2>1. \A a \in used \cup F : size'[a] <= size[a] /\ size'[a] \in Nat
    BY <1>1, <1>2, <1>8
  <2>2. \A a \in used \cup F : InRegion(a, size')
    BY <2>1, <1>2, Layout DEF HeapInv, Apart, InRegion
  <2>3. \A a, c \in used \cup F : a < c => a + size'[a] <= c
    BY <2>1, <1>2 DEF HeapInv, Apart
  <2> QED
    BY <2>2, <2>3 DEF Apart
<1>19. Merged(F1, size')
  BY <1>2, <1>8, <1>14 DEF HeapInv, Merged
<1>20. \A a \in used' : size'[a] # 0
  BY <1>1, <1>2, <1>7, <1>8 DEF HeapInv
<1> QED
  BY <1>13, <1>15, <1>16, <1>17, <1>18, <1>19, <1>20 DEF HeapInv, TypeOK

(* kmalloc keeps the invariant, if the call is safe.                       *)
LEMMA KmallocKeeps ==
  ASSUME NEW F, HeapInv(F), NEW n \in StackSizes, SafeCall(n), kmalloc(n)
  PROVE  \E F1 : HeapInv(F1)'
<1>1. /\ F \in SUBSET (Addr \ {NULL}) /\ ListOf(F, freemem, next, prev)
      /\ freemem \in F
  BY HeapTypes
<1>2. n \in Nat /\ SafeCall(n)
  BY LayoutAssumption
<1>3. CASE findFreeMemHeader(n) = NULL
  <2>1. UNCHANGED vars
    BY <1>3 DEF kmalloc
  <2>2. HeapInv(F)'
    BY <2>1 DEF HeapInv, TypeOK, vars
  <2> QED
    BY <2>2
<1>4. CASE findFreeMemHeader(n) # NULL
  <2>1. PICK b \in F : b = findFreeMemHeader(n)
    BY <1>1, <1>4, FoundIsFree
  <2>2. Allocate(b, n)
    BY <2>1, <1>4 DEF kmalloc
  <2>3. CASE Splits(b, n)
    BY <2>2, <2>3, <1>2, SplitKeeps
  <2>4. CASE ~ Splits(b, n)
    <3>1. SizeToBeAllocated(n) <= size[b] /\ Cardinality(F) > 1
      <4>1. size[b] >= SizeToBeAllocated(n)
        BY <2>1, <1>2, <1>4 DEF SafeCall
      <4>2. Cardinality(FreeHeaders) > 1
        BY <2>1, <2>4, <1>2, <1>4 DEF SafeCall
      <4>3. size[b] \in Nat /\ SizeToBeAllocated(n) \in Nat
        BY <1>1, <1>2, SizeIs DEF HeapInv, TypeOK
      <4> QED
        BY <4>1, <4>2, <4>3, <1>1, HeadersAre
    <3>2. F # {b}
      <4>1. Cardinality({b}) = 1
        BY FS_Singleton
      <4> QED
        BY <3>1, <4>1
    <3>3. PICK g \in F : g # b
      BY <3>2
    <3>4. b # freemem \/ next[b] # NULL
      <4>1. g \in Nat /\ b \in Nat
        BY <1>1, AddrIs
      <4> QED
        BY <4>1, <3>3 DEF HeapInv, ListOf
    <3> QED
      BY <2>2, <2>4, <3>1, <3>4, <1>2, TakeKeeps
  <2> QED
    BY <2>3, <2>4
<1> QED
  BY <1>3, <1>4

---------------------------------------------------------------------------
(* kfree.                                                                  *)

(* b is freed in front of c, the first free block behind it, and p is the  *)
(* free block in front of both, if there is one.                           *)
Between(F, p, b, c) ==
  /\ b \in used /\ c \in F /\ p = prev[c]
  /\ b < c /\ \A g \in F : b < g => c <= g

LEMMA PlaceOfFreed ==
  ASSUME NEW F, HeapInv(F), NEW p, NEW b, NEW c, Between(F, p, b, c)
  PROVE  /\ b \in Addr /\ b # NULL /\ b \notin F /\ c \in Addr /\ c # NULL /\ p \in Addr
         /\ b + size[b] <= c
         /\ c = freemem => p = NULL
         /\ c # freemem => p \in F /\ p # NULL /\ next[p] = c /\ p < b /\ p + size[p] <= b
         /\ next[c] \in Addr /\ (next[c] # NULL => c < next[c] /\ next[c] \in F /\ prev[next[c]] = c)
         /\ \A x \in used \cup F : x # b => x + size[x] <= b \/ b + size[b] <= x
         /\ \A x \in F : x < c => x < b
<1>1. /\ F \in SUBSET (Addr \ {NULL}) /\ freemem \in F
      /\ ListOf(F, freemem, next, prev)
      /\ \A a \in Addr : /\ a \in Nat /\ a % 16 = 0 /\ a <= maxaddr
                         /\ size[a] \in Nat /\ next[a] \in Addr /\ prev[a] \in Addr
      /\ \A a \in used \cup F : a \in Addr /\ a # NULL
  BY HeapTypes
<1>2. b \in used /\ c \in F /\ p = prev[c] /\ b < c /\ b \notin F
  BY DEF Between, HeapInv
<1>3. b \in Addr /\ b # NULL /\ c \in Addr /\ c # NULL /\ p \in Addr /\ next[c] \in Addr
  BY <1>1, <1>2
<1>4. \A x, y \in used \cup F : x < y => x + size[x] <= y
  BY DEF HeapInv, Apart
<1>5. \A x \in F : x < c => x < b
  <2>1. \A x \in F : x # b /\ x \in Nat
    BY <1>1, <1>2
  <2>2. \A g \in F : b < g => c <= g
    BY DEF Between
  <2> QED
    BY <2>1, <2>2, <1>1, <1>3
<1>6. c # freemem => p \in F /\ p # NULL /\ next[p] = c /\ p < b /\ p + size[p] <= b
  <2>1. c # freemem => p \in F /\ next[p] = c
    BY <1>1, <1>2 DEF ListOf
  <2>2. c # freemem => p < c
    BY <2>1, <1>1, <1>3 DEF ListOf
  <2> QED
    BY <2>1, <2>2, <1>1, <1>2, <1>4, <1>5
<1>7. next[c] # NULL => c < next[c] /\ next[c] \in F /\ prev[next[c]] = c
  BY <1>1, <1>2 DEF ListOf
<1>8. c = freemem => p = NULL
  BY <1>1, <1>2 DEF ListOf
<1>9. \A x \in used \cup F : x # b => x + size[x] <= b \/ b + size[b] <= x
  <2>1. \A x \in used \cup F : x \in Nat
    BY <1>1
  <2> QED
    BY <2>1, <1>2, <1>4
<1>10. b + size[b] <= c
  BY <1>2, <1>4
<1> QED
  BY <1>2, <1>3, <1>5, <1>6, <1>7, <1>8, <1>9, <1>10

(* Only c can start where b ends.                                          *)
LEMMA NotJoinedNext ==
  ASSUME NEW F, HeapInv(F), NEW p, NEW b, NEW c, Between(F, p, b, c), ~ JoinsNext(b, c),
         NEW h \in F
  PROVE  b + size[b] # h
<1>1. /\ F \in SUBSET (Addr \ {NULL}) /\ freemem \in F
      /\ ListOf(F, freemem, next, prev)
      /\ \A a \in Addr : /\ a \in Nat /\ a % 16 = 0 /\ a <= maxaddr
                         /\ size[a] \in Nat /\ next[a] \in Addr /\ prev[a] \in Addr
      /\ \A a \in used \cup F : a \in Addr /\ a # NULL
  BY HeapTypes
<1>2. b \in Addr /\ b \notin F /\ c \in Addr /\ b + size[b] <= c /\ (b < h => c <= h)
  BY PlaceOfFreed DEF Between
<1>3. b \in Nat /\ c \in Nat /\ h \in Nat /\ size[b] \in Nat /\ h # b
  BY <1>1, <1>2
<1> QED
  BY <1>2, <1>3 DEF JoinsNext

(* Only p can end where b starts.                                          *)
LEMMA NotJoinedPrev ==
  ASSUME NEW F, HeapInv(F), NEW p, NEW b, NEW c, Between(F, p, b, c), ~ JoinsPrev(p, b),
         NEW h \in F
  PROVE  h + size[h] # b
<1>1. /\ F \in SUBSET (Addr \ {NULL}) /\ freemem \in F
      /\ ListOf(F, freemem, next, prev)
      /\ \A a \in Addr : /\ a \in Nat /\ a % 16 = 0 /\ a <= maxaddr
                         /\ size[a] \in Nat /\ next[a] \in Addr /\ prev[a] \in Addr
      /\ \A a \in used \cup F : a \in Addr /\ a # NULL
  BY HeapTypes
<1>2. /\ b \in Addr /\ b # NULL /\ b \notin F /\ c \in Addr /\ c # NULL /\ p \in Addr
      /\ c = freemem => p = NULL
      /\ c # freemem => p \in F /\ p # NULL /\ next[p] = c /\ p < b
  BY PlaceOfFreed
<1>3. /\ b \in used /\ c \in F /\ p = prev[c] /\ b < c
      /\ \A g \in F : b < g => c <= g
  BY DEF Between
<1>4. CASE h < b /\ h = p
  BY <1>4 DEF JoinsPrev
<1>5. CASE h < b /\ h # p
  <2>1. h < c /\ c # freemem
    <3>1. h \in Nat /\ b \in Nat /\ c \in Nat /\ freemem <= h
      BY <1>1, <1>2 DEF ListOf
    <3> QED
      BY <3>1, <1>5, <1>3
  <2>2. h < p
    <3>1. next[h] # NULL /\ next[h] <= c /\ next[h] \in F /\ h < next[h]
      BY <2>1, <1>1, <1>3 DEF ListOf
    <3>2. p < h => next[p] <= h
      BY <2>1, <1>1, <1>2 DEF ListOf
    <3> QED
      BY <3>2, <2>1, <1>5, <1>1, <1>2
  <2>3. h + size[h] <= p
    BY <2>1, <2>2, <1>2 DEF HeapInv, Apart
  <2> QED
    BY <2>1, <2>3, <1>1, <1>2
<1>6. CASE ~ (h < b)
  <2>1. h # b
    BY <1>2
  <2> QED
    BY <2>1, <1>6, <1>1, <1>2
<1> QED
  BY <1>4, <1>5, <1>6

(* The blocks are still apart when y is joined to x, which ends there.     *)
LEMMA JoinedApart ==
  ASSUME NEW B \in SUBSET Nat, NEW sz, Apart(B, sz), NEW x \in B, NEW y \in B,
         \A a \in B : sz[a] \in Nat, x < y, x + sz[x] = y,
         NEW sz1, sz1[x] = sz[x] + sz[y], \A a \in B \ {x, y} : sz1[a] = sz[a]
  PROVE  Apart(B \ {y}, sz1)
<1>1. /\ \A a \in B : InRegion(a, sz)
      /\ \A a, g \in B : a < g => a + sz[a] <= g
  BY DEF Apart
<1>2. x \in Nat /\ y \in Nat /\ sz[x] \in Nat /\ sz[y] \in Nat
  OBVIOUS
<1>3. InRegion(x, sz1)
  <2>1. InRegion(x, sz) /\ InRegion(y, sz)
    BY <1>1
  <2>2. x + sz1[x] = y + sz[y]
    BY <1>2
  <2> QED
    BY <2>1, <2>2, <1>2, Layout DEF InRegion
<1>4. \A a \in B \ {y} : InRegion(a, sz1)
  BY <1>1, <1>3 DEF InRegion
<1>5. ASSUME NEW a \in B \ {y}, NEW g \in B \ {y}, a < g
      PROVE  a + sz1[a] <= g
  <2>1. CASE a = x
    <3>1. y < g /\ x + sz1[x] = y + sz[y]
      <4>1. x + sz[x] <= g
        BY <1>1, <1>5, <2>1
      <4> QED
        BY <4>1, <1>2
    <3>2. y + sz[y] <= g
      BY <3>1, <1>1
    <3> QED
      BY <3>1, <3>2, <2>1
  <2>2. CASE a # x
    BY <2>2, <1>1, <1>5
  <2> QED
    BY <2>1, <2>2
<1> QED
  BY <1>4, <1>5 DEF Apart

(* A block without free neighbours becomes a node of the list.             *)
LEMMA InsertKeeps ==
  ASSUME NEW F, HeapInv(F), NEW p, NEW b, NEW c, Between(F, p, b, c),
         used' = used \ {b}, Insert(b, c), ~ JoinsNext(b, c), ~ JoinsPrev(p, b)
  PROVE  \E F1 : HeapInv(F1)'
<1>1. /\ F \in SUBSET (Addr \ {NULL}) /\ freemem \in F
      /\ ListOf(F, freemem, next, prev)
      /\ \A a \in Addr : /\ a \in Nat /\ a % 16 = 0 /\ a <= maxaddr
                         /\ size[a] \in Nat /\ next[a] \in Addr /\ prev[a] \in Addr
      /\ \A a \in used \cup F : a \in Addr /\ a # NULL
  BY HeapTypes
<1>2. /\ b \in Addr /\ b # NULL /\ b \notin F /\ c \in Addr /\ c # NULL /\ p \in Addr
      /\ c = freemem => p = NULL
      /\ c # freemem => p \in F /\ p # NULL /\ next[p] = c /\ p < b
  BY PlaceOfFreed
<1>3. /\ b \in used /\ c \in F /\ p = prev[c] /\ b < c
      /\ \A g \in F : b < g => c <= g
  BY DEF Between
<1>4. /\ freemem' = IF c = freemem THEN b ELSE freemem
      /\ next' = [next EXCEPT ![p] = b, ![b] = c]
      /\ prev' = [prev EXCEPT ![c] = b, ![b] = p]
      /\ size' = size
  BY <1>3 DEF Insert
<1>5. size \in [Addr -> Nat] /\ next \in [Addr -> Addr] /\ prev \in [Addr -> Addr]
  BY DEF HeapInv, TypeOK
<1>6. /\ next' \in [Addr -> Addr] /\ prev' \in [Addr -> Addr] /\ size' \in [Addr -> Nat]
      /\ freemem' \in Addr /\ used' \subseteq Addr
  BY <1>1, <1>2, <1>4, <1>5
<1>7. PICK F1 : F1 = F \cup {b}
  OBVIOUS
<1>8. ListOf(F1, freemem', next', prev')
  <2>1. next'[b] = c /\ prev'[b] = prev[c] /\ prev'[c] = b
    BY <1>2, <1>3, <1>4, <1>5
  <2>2. \A x \in F : next'[x] = IF next[x] = c THEN b ELSE next[x]
    <3>1. \A x \in F : next[x] = c <=> prev[c] = x
      <4>1. F \in SUBSET (Addr \ {NULL}) /\ ListOf(F, freemem, next, prev) /\ c \in F
        BY <1>1, <1>3
      <4> QED
        BY <4>1, BackAndForth
    <3> QED
      BY <3>1, <1>1, <1>2, <1>3, <1>4, <1>5
  <2>3. \A x \in F \ {c} : prev'[x] = prev[x]
    BY <1>1, <1>2, <1>4, <1>5
  <2>4. (c = freemem => freemem' = b) /\ (c # freemem => freemem' = freemem)
    BY <1>4
  <2>5. F \in SUBSET (Addr \ {NULL}) /\ b \in Addr \ {NULL} /\ b \notin F
    BY <1>1, <1>2
  <2>6. ListOf(F \cup {b}, freemem', next', prev')
    BY <2>1, <2>2, <2>3, <2>4, <2>5, <1>1, <1>3, ListInsert
  <2> QED
    BY <2>6, <1>7
<1>9. next'[NULL] <= freemem' /\ size'[NULL] = 0
  <2>1. next[NULL] <= freemem /\ size[NULL] = 0
    BY DEF HeapInv
  <2>2. CASE c = freemem
    BY <2>1, <2>2, <1>1, <1>2, <1>4, <1>5
  <2>3. CASE c # freemem
    <3>1. NULL \in Addr /\ NULL # p /\ NULL # b
      BY <2>3, <1>2, AddrIs
    <3> QED
      BY <3>1, <2>1, <2>3, <1>4, <1>5
  <2> QED
    BY <2>2, <2>3
<1>10. /\ F1 \subseteq Addr \ {NULL} /\ used' \subseteq Addr \ {NULL}
       /\ used' \cap F1 = {} /\ used' \cup F1 = used \cup F
  BY <1>1, <1>2, <1>3, <1>7 DEF HeapInv
<1>11. Apart(used \cup F, size')
  BY <1>4 DEF HeapInv
<1>12. Merged(F1, size')
  <2>1. \A g, h \in F : g + size[g] # h
    BY DEF HeapInv, Merged
  <2>2. \A h \in F : b + size[b] # h /\ h + size[h] # b
    BY NotJoinedNext, NotJoinedPrev
  <2>3. b + size[b] # b
    BY <1>1, <1>2, <1>3 DEF HeapInv
  <2> QED
    BY <2>1, <2>2, <2>3, <1>4, <1>7 DEF Merged
<1>13. \A a \in used' : size'[a] # 0
  BY <1>4 DEF HeapInv
<1> QED
  BY <1>6, <1>8, <1>9, <1>10, <1>11, <1>12, <1>13 DEF HeapInv, TypeOK

(* A block in front of a free one takes its place, and its memory.         *)
LEMMA JoinNextKeeps ==
  ASSUME NEW F, HeapInv(F), NEW p, NEW b, NEW c, Between(F, p, b, c),
         used' = used \ {b}, Insert(b, c), JoinsNext(b, c), ~ JoinsPrev(p, b)
  PROVE  \E F1 : HeapInv(F1)'
<1>1. /\ F \in SUBSET (Addr \ {NULL}) /\ freemem \in F
      /\ ListOf(F, freemem, next, prev)
      /\ \A a \in Addr : /\ a \in Nat /\ a % 16 = 0 /\ a <= maxaddr
                         /\ size[a] \in Nat /\ next[a] \in Addr /\ prev[a] \in Addr
      /\ \A a \in used \cup F : a \in Addr /\ a # NULL
  BY HeapTypes
<1>2. /\ b \in Addr /\ b # NULL /\ b \notin F /\ c \in Addr /\ c # NULL /\ p \in Addr
      /\ c = freemem => p = NULL
      /\ c # freemem => p \in F /\ p # NULL /\ next[p] = c /\ p < b
      /\ next[c] \in Addr
      /\ next[c] # NULL => c < next[c] /\ next[c] \in F /\ prev[next[c]] = c
  BY PlaceOfFreed
<1>3. /\ b \in used /\ c \in F /\ p = prev[c] /\ b < c
      /\ \A g \in F : b < g => c <= g
  BY DEF Between
<1>4. size \in [Addr -> Nat] /\ next \in [Addr -> Addr] /\ prev \in [Addr -> Addr]
  BY DEF HeapInv, TypeOK
<1> DEFINE n == next[c]
<1>5. /\ freemem' = IF c = freemem THEN b ELSE freemem
      /\ size' = [size EXCEPT ![b] = size[b] + size[c], ![c] = 0]
      /\ next' = [next EXCEPT ![p] = b, ![b] = n, ![c] = NULL]
      /\ n = NULL => prev' = [prev EXCEPT ![b] = p, ![c] = NULL]
      /\ n # NULL => prev' = [prev EXCEPT ![b] = p, ![n] = b, ![c] = NULL]
  <2>1. /\ freemem' = IF c = freemem THEN b ELSE freemem
        /\ size' = [size EXCEPT ![b] = size[b] + size[c], ![c] = 0]
        /\ next' = [next EXCEPT ![p] = b, ![b] = c, ![b] = n, ![c] = NULL]
        /\ prev' = [SetPrev([prev EXCEPT ![c] = b, ![b] = p], n, b) EXCEPT ![c] = NULL]
    BY <1>3 DEF Insert
  <2>2. b # c /\ n # c /\ n # b
    BY <1>1, <1>2, <1>3
  <2> QED
    BY <2>1, <2>2, <1>2, <1>4 DEF SetPrev
<1>6. /\ next' \in [Addr -> Addr] /\ prev' \in [Addr -> Addr] /\ size' \in [Addr -> Nat]
      /\ freemem' \in Addr /\ used' \subseteq Addr
  <2>1. NULL \in Addr /\ n \in Addr
    BY <1>2, AddrIs
  <2>2. next' \in [Addr -> Addr]
    BY <2>1, <1>2, <1>4, <1>5
  <2>3. prev' \in [Addr -> Addr]
    BY <2>1, <1>2, <1>4, <1>5
  <2>4. size' \in [Addr -> Nat]
    <3>1. size[b] + size[c] \in Nat
      BY <1>1, <1>2
    <3> QED
      BY <3>1, <1>2, <1>4, <1>5
  <2> QED
    BY <2>2, <2>3, <2>4, <1>1, <1>2, <1>5
<1>7. PICK F1 : F1 = (F \ {c}) \cup {b}
  OBVIOUS
<1>8. ListOf(F1, freemem', next', prev')
  <2>0. b # c /\ n # c /\ n # b /\ (c # freemem => p # c /\ p # b)
    BY <1>1, <1>2, <1>3
  <2>1. next'[b] = next[c] /\ prev'[b] = prev[c]
    BY <2>0, <1>2, <1>3, <1>4, <1>5
  <2>2. \A x \in F \ {c} : next'[x] = IF next[x] = c THEN b ELSE next[x]
    <3>1. \A x \in F : next[x] = c <=> prev[c] = x
      <4>1. F \in SUBSET (Addr \ {NULL}) /\ ListOf(F, freemem, next, prev) /\ c \in F
        BY <1>1, <1>3
      <4> QED
        BY <4>1, BackAndForth
    <3> QED
      BY <3>1, <1>1, <1>2, <1>3, <1>4, <1>5
  <2>3. \A x \in F \ {c} : prev'[x] = IF prev[x] = c THEN b ELSE prev[x]
    <3>1. \A x \in F : next[c] = x <=> prev[x] = c
      <4>1. F \in SUBSET (Addr \ {NULL}) /\ ListOf(F, freemem, next, prev) /\ c \in F
        BY <1>1, <1>3
      <4> QED
        BY <4>1, BackAndForth
    <3> QED
      BY <3>1, <1>1, <1>2, <1>3, <1>4, <1>5
  <2>4. (c = freemem => freemem' = b) /\ (c # freemem => freemem' = freemem)
    BY <1>5
  <2>5. \A g \in F \ {c} : (g < c => g < b) /\ (c < g => b < g)
    <3>1. \A g \in F : g \in Nat /\ (g < c => g < b)
      BY <1>1, PlaceOfFreed
    <3> QED
      BY <3>1, <1>1, <1>2, <1>3
  <2>6. F \in SUBSET (Addr \ {NULL}) /\ b \in Addr \ {NULL} /\ b \notin F
    BY <1>1, <1>2
  <2> HIDE DEF n
  <2>7. ListOf((F \ {c}) \cup {b}, freemem', next', prev')
    BY <2>1, <2>2, <2>3, <2>4, <2>5, <2>6, <1>1, <1>3, ListReplace
  <2> QED
    BY <2>7, <1>7
<1>9. next'[NULL] <= freemem' /\ size'[NULL] = 0
  <2>1. next[NULL] <= freemem /\ size[NULL] = 0 /\ NULL \in Addr
    BY AddrIs DEF HeapInv
  <2>2. size'[NULL] = 0
    BY <2>1, <1>2, <1>4, <1>5
  <2>3. CASE c = freemem
    BY <2>1, <2>2, <2>3, <1>1, <1>2, <1>4, <1>5
  <2>4. CASE c # freemem
    <3>1. NULL # p /\ NULL # b /\ NULL # c
      BY <2>4, <1>2
    <3> QED
      BY <3>1, <2>1, <2>2, <2>4, <1>4, <1>5
  <2> QED
    BY <2>3, <2>4
<1>10. /\ F1 \subseteq Addr \ {NULL} /\ used' \subseteq Addr \ {NULL}
       /\ used' \cap F1 = {} /\ used' \cup F1 = (used \cup F) \ {c}
  BY <1>1, <1>2, <1>3, <1>7 DEF HeapInv
<1>11. Apart((used \cup F) \ {c}, size')
  <2>1. size'[b] = size[b] + size[c] /\ \A a \in (used \cup F) \ {b, c} : size'[a] = size[a]
    BY <1>1, <1>2, <1>3, <1>4, <1>5
  <2>2. Apart(used \cup F, size) /\ b + size[b] = c
    BY DEF HeapInv, JoinsNext
  <2>3. used \cup F \in SUBSET Nat /\ \A a \in used \cup F : size[a] \in Nat
    BY <1>1
  <2> QED
    BY <2>1, <2>2, <2>3, <1>3, JoinedApart
<1>12. Merged(F1, size')
  <2>1. \A g, h \in F : g + size[g] # h
    BY DEF HeapInv, Merged
  <2>2. \A h \in F : h + size[h] # b
    BY NotJoinedPrev
  <2>3. b + size'[b] = c + size[c] /\ size'[b] # 0
    <3>1. size[b] # 0 /\ size'[b] = size[b] + size[c] /\ b + size[b] = c
      BY <1>1, <1>2, <1>3, <1>4, <1>5 DEF HeapInv, JoinsNext
    <3>2. b \in Nat /\ c \in Nat /\ size[b] \in Nat /\ size[c] \in Nat
      BY <1>1, <1>2
    <3> QED
      BY <3>1, <3>2
  <2>4. \A g \in F \ {c} : size'[g] = size[g]
    BY <1>1, <1>2, <1>4, <1>5
  <2>5. b + size'[b] # b
    BY <2>3, <1>1, <1>2, <1>6
  <2> QED
    BY <2>1, <2>2, <2>3, <2>4, <2>5, <1>3, <1>7 DEF Merged
<1>13. \A a \in used' : size'[a] # 0
  <2>1. \A a \in used : size[a] # 0 /\ a # c /\ a \in Addr
    BY <1>1, <1>3 DEF HeapInv
  <2> QED
    BY <2>1, <1>4, <1>5
<1> QED
  BY <1>6, <1>8, <1>9, <1>10, <1>11, <1>12, <1>13 DEF HeapInv, TypeOK

(* A block behind a free one is joined to it.                              *)
LEMMA JoinPrevKeeps ==
  ASSUME NEW F, HeapInv(F), NEW p, NEW b, NEW c, Between(F, p, b, c),
         used' = used \ {b}, Insert(b, c), ~ JoinsNext(b, c), JoinsPrev(p, b)
  PROVE  \E F1 : HeapInv(F1)'
<1>1. /\ F \in SUBSET (Addr \ {NULL}) /\ freemem \in F
      /\ ListOf(F, freemem, next, prev)
      /\ \A a \in Addr : /\ a \in Nat /\ a % 16 = 0 /\ a <= maxaddr
                         /\ size[a] \in Nat /\ next[a] \in Addr /\ prev[a] \in Addr
      /\ \A a \in used \cup F : a \in Addr /\ a # NULL
  BY HeapTypes
<1>2. /\ b \in Addr /\ b # NULL /\ b \notin F /\ c \in Addr /\ c # NULL /\ p \in Addr
      /\ c = freemem => p = NULL
      /\ c # freemem => p \in F /\ p # NULL /\ next[p] = c /\ p < b
      /\ next[c] \in Addr
      /\ next[c] # NULL => c < next[c] /\ next[c] \in F /\ prev[next[c]] = c
  BY PlaceOfFreed
<1>3. /\ b \in used /\ c \in F /\ p = prev[c] /\ b < c
      /\ \A g \in F : b < g => c <= g
  BY DEF Between
<1>4. size \in [Addr -> Nat] /\ next \in [Addr -> Addr] /\ prev \in [Addr -> Addr]
  BY DEF HeapInv, TypeOK
<1>5. p \in F /\ p # NULL /\ p < b /\ c # freemem /\ next[p] = c
  BY <1>1, <1>2 DEF JoinsPrev, HeapInv, NULL
<1>6. /\ freemem' = freemem
      /\ size' = [size EXCEPT ![p] = size[p] + size[b], ![b] = 0]
      /\ next' = [next EXCEPT ![b] = NULL]
      /\ prev' = [prev EXCEPT ![b] = NULL]
  <2>1. /\ freemem' = freemem
        /\ size' = [size EXCEPT ![p] = size[p] + size[b], ![b] = 0]
        /\ next' = [next EXCEPT ![p] = b, ![b] = c, ![p] = c, ![b] = NULL]
        /\ prev' = [prev EXCEPT ![c] = b, ![b] = p, ![c] = p, ![b] = NULL]
    BY <1>2, <1>3, <1>5 DEF Insert, BackLink, SetPrev
  <2>2. b # p /\ b # c /\ prev[c] = p
    BY <1>1, <1>2, <1>3, <1>5
  <2> QED
    BY <2>1, <2>2, <1>2, <1>4, <1>5
<1>7. /\ next' \in [Addr -> Addr] /\ prev' \in [Addr -> Addr] /\ size' \in [Addr -> Nat]
      /\ freemem' \in Addr /\ used' \subseteq Addr
  BY <1>1, <1>2, <1>4, <1>6, AddrIs
<1>8. ListOf(F, freemem', next', prev')
  <2>1. \A x \in F : next'[x] = next[x] /\ prev'[x] = prev[x]
    BY <1>1, <1>2, <1>4, <1>6
  <2>2. F \in SUBSET (Addr \ {NULL}) /\ ListOf(F, freemem, next, prev) /\ freemem' = freemem
    BY <1>1, <1>6
  <2> QED
    BY <2>1, <2>2, ListKept
<1>9. next'[NULL] <= freemem' /\ size'[NULL] = 0
  <2>1. next[NULL] <= freemem /\ size[NULL] = 0 /\ NULL \in Addr
    BY AddrIs DEF HeapInv
  <2> QED
    BY <2>1, <1>2, <1>4, <1>5, <1>6
<1>10. /\ F \subseteq Addr \ {NULL} /\ used' \subseteq Addr \ {NULL}
       /\ used' \cap F = {} /\ used' \cup F = (used \cup F) \ {b}
  BY <1>1, <1>2, <1>3 DEF HeapInv
<1>11. Apart((used \cup F) \ {b}, size')
  <2>1. size'[p] = size[p] + size[b] /\ \A a \in (used \cup F) \ {p, b} : size'[a] = size[a]
    BY <1>1, <1>2, <1>4, <1>5, <1>6
  <2>2. Apart(used \cup F, size) /\ p + size[p] = b
    BY DEF HeapInv, JoinsPrev
  <2>3. used \cup F \in SUBSET Nat /\ \A a \in used \cup F : size[a] \in Nat
    BY <1>1
  <2> QED
    BY <2>1, <2>2, <2>3, <1>3, <1>5, JoinedApart
<1>12. Merged(F, size')
  <2>1. \A g, h \in F : g + size[g] # h
    BY DEF HeapInv, Merged
  <2>2. \A h \in F : b + size[b] # h
    BY NotJoinedNext
  <2>3. p + size'[p] = b + size[b]
    <3>1. size'[p] = size[p] + size[b] /\ p + size[p] = b
      BY <1>1, <1>2, <1>4, <1>5, <1>6 DEF JoinsPrev
    <3> QED
      BY <3>1, <1>1, <1>2
  <2>4. \A g \in F \ {p} : size'[g] = size[g]
    BY <1>1, <1>2, <1>4, <1>6
  <2> QED
    BY <2>1, <2>2, <2>3, <2>4 DEF Merged
<1>13. \A a \in used' : size'[a] # 0
  <2>1. \A a \in used : size[a] # 0 /\ a # p /\ a \in Addr
    BY <1>1, <1>5 DEF HeapInv
  <2> QED
    BY <2>1, <1>4, <1>6
<1> QED
  BY <1>7, <1>8, <1>9, <1>10, <1>11, <1>12, <1>13 DEF HeapInv, TypeOK

(* A block between two free ones is joined to both: the one behind it      *)
(* leaves the list.                                                        *)
LEMMA JoinBothKeeps ==
  ASSUME NEW F, HeapInv(F), NEW p, NEW b, NEW c, Between(F, p, b, c),
         used' = used \ {b}, Insert(b, c), JoinsNext(b, c), JoinsPrev(p, b)
  PROVE  \E F1 : HeapInv(F1)'
<1>1. /\ F \in SUBSET (Addr \ {NULL}) /\ freemem \in F
      /\ ListOf(F, freemem, next, prev)
      /\ \A a \in Addr : /\ a \in Nat /\ a % 16 = 0 /\ a <= maxaddr
                         /\ size[a] \in Nat /\ next[a] \in Addr /\ prev[a] \in Addr
      /\ \A a \in used \cup F : a \in Addr /\ a # NULL
  BY HeapTypes
<1>2. /\ b \in Addr /\ b # NULL /\ b \notin F /\ c \in Addr /\ c # NULL /\ p \in Addr
      /\ c = freemem => p = NULL
      /\ c # freemem => p \in F /\ p # NULL /\ next[p] = c /\ p < b
      /\ next[c] \in Addr
      /\ next[c] # NULL => c < next[c] /\ next[c] \in F /\ prev[next[c]] = c
  BY PlaceOfFreed
<1>3. /\ b \in used /\ c \in F /\ p = prev[c] /\ b < c
      /\ \A g \in F : b < g => c <= g
  BY DEF Between
<1>4. size \in [Addr -> Nat] /\ next \in [Addr -> Addr] /\ prev \in [Addr -> Addr]
  BY DEF HeapInv, TypeOK
<1> DEFINE n == next[c]
<1>5. /\ p \in F /\ p # NULL /\ p < b /\ c # freemem /\ next[p] = c
      /\ b # p /\ b # c /\ p # c /\ n # b /\ n # c /\ n # p
  <2>1. p # NULL
    BY <1>2 DEF JoinsPrev, HeapInv, NULL
  <2> QED
    BY <2>1, <1>1, <1>2, <1>3
<1>6. /\ freemem' = freemem
      /\ size' = [size EXCEPT ![p] = size[p] + (size[b] + size[c]), ![b] = 0, ![c] = 0]
      /\ next' = [next EXCEPT ![p] = n, ![b] = NULL, ![c] = NULL]
      /\ n = NULL => prev' = [prev EXCEPT ![b] = NULL, ![c] = NULL]
      /\ n # NULL => prev' = [prev EXCEPT ![n] = p, ![b] = NULL, ![c] = NULL]
  <2> DEFINE size2 == [size EXCEPT ![b] = size[b] + size[c], ![c] = 0]
             prev1 == [prev EXCEPT ![c] = b, ![b] = p]
             prev2 == [SetPrev(prev1, n, b) EXCEPT ![c] = NULL]
  <2>1. /\ freemem' = freemem
        /\ size' = [size2 EXCEPT ![p] = size2[p] + size2[b], ![b] = 0]
        /\ next' = [next EXCEPT ![p] = b, ![b] = c, ![b] = n, ![c] = NULL, ![p] = n, ![b] = NULL]
        /\ prev' = [SetPrev(prev2, n, p) EXCEPT ![b] = NULL]
    BY <1>3, <1>5 DEF Insert, BackLink
  <2>2. size2[p] = size[p] /\ size2[b] = size[b] + size[c]
    BY <1>2, <1>4, <1>5
  <2>3. size' = [size EXCEPT ![p] = size[p] + (size[b] + size[c]), ![b] = 0, ![c] = 0]
    BY <2>1, <2>2, <1>2, <1>4, <1>5
  <2>4. next' = [next EXCEPT ![p] = n, ![b] = NULL, ![c] = NULL]
    BY <2>1, <1>2, <1>4, <1>5
  <2>5. n = NULL => prev' = [prev EXCEPT ![b] = NULL, ![c] = NULL]
    BY <2>1, <1>2, <1>4, <1>5 DEF SetPrev
  <2>6. n # NULL => prev' = [prev EXCEPT ![n] = p, ![b] = NULL, ![c] = NULL]
    BY <2>1, <1>2, <1>4, <1>5 DEF SetPrev
  <2> QED
    BY <2>1, <2>3, <2>4, <2>5, <2>6
<1>7. /\ next' \in [Addr -> Addr] /\ prev' \in [Addr -> Addr] /\ size' \in [Addr -> Nat]
      /\ freemem' \in Addr /\ used' \subseteq Addr
  <2>1. NULL \in Addr /\ n \in Addr /\ size[p] + (size[b] + size[c]) \in Nat
    BY <1>1, <1>2, AddrIs
  <2>2. next' \in [Addr -> Addr]
    BY <2>1, <1>2, <1>4, <1>6
  <2>3. prev' \in [Addr -> Addr]
    BY <2>1, <1>2, <1>4, <1>6
  <2>4. size' \in [Addr -> Nat]
    BY <2>1, <1>2, <1>4, <1>6
  <2> QED
    BY <2>2, <2>3, <2>4, <1>1, <1>6
<1>8. PICK F1 : F1 = F \ {c}
  OBVIOUS
<1>9. ListOf(F1, freemem', next', prev')
  <2>1. \A x \in F \ {c} : next'[x] = IF next[x] = c THEN next[c] ELSE next[x]
    <3>1. \A x \in F : next[x] = c <=> prev[c] = x
      <4>1. F \in SUBSET (Addr \ {NULL}) /\ ListOf(F, freemem, next, prev) /\ c \in F
        BY <1>1, <1>3
      <4> QED
        BY <4>1, BackAndForth
    <3> QED
      BY <3>1, <1>1, <1>2, <1>3, <1>4, <1>6
  <2>2. \A x \in F \ {c} : prev'[x] = IF prev[x] = c THEN prev[c] ELSE prev[x]
    <3>1. \A x \in F : next[c] = x <=> prev[x] = c
      <4>1. F \in SUBSET (Addr \ {NULL}) /\ ListOf(F, freemem, next, prev) /\ c \in F
        BY <1>1, <1>3
      <4> QED
        BY <4>1, BackAndForth
    <3> QED
      BY <3>1, <1>1, <1>2, <1>3, <1>4, <1>6
  <2>3. F \in SUBSET (Addr \ {NULL}) /\ c \in F /\ c # freemem /\ freemem' = freemem
    BY <1>1, <1>3, <1>5, <1>6
  <2> HIDE DEF n
  <2>4. ListOf(F \ {c}, freemem', next', prev')
    BY <2>1, <2>2, <2>3, <1>1, ListRemove
  <2> QED
    BY <2>4, <1>8
<1>10. next'[NULL] <= freemem' /\ size'[NULL] = 0
  <2>1. next[NULL] <= freemem /\ size[NULL] = 0 /\ NULL \in Addr
    BY AddrIs DEF HeapInv
  <2> QED
    BY <2>1, <1>2, <1>4, <1>5, <1>6
<1>11. /\ F1 \subseteq Addr \ {NULL} /\ used' \subseteq Addr \ {NULL}
       /\ used' \cap F1 = {} /\ used' \cup F1 = ((used \cup F) \ {c}) \ {b}
  BY <1>1, <1>2, <1>3, <1>8 DEF HeapInv
<1>12. Apart(((used \cup F) \ {c}) \ {b}, size')
  <2>1. PICK size2 : size2 = [size EXCEPT ![b] = size[b] + size[c], ![c] = 0]
    OBVIOUS
  <2>2. size2[b] = size[b] + size[c] /\ \A a \in (used \cup F) \ {b, c} : size2[a] = size[a]
    BY <2>1, <1>1, <1>2, <1>3, <1>4, <1>5
  <2>3. Apart(used \cup F, size) /\ b + size[b] = c /\ p + size[p] = b
    BY DEF HeapInv, JoinsNext, JoinsPrev
  <2>4. used \cup F \in SUBSET Nat /\ \A a \in used \cup F : size[a] \in Nat
    BY <1>1
  <2>5. Apart((used \cup F) \ {c}, size2)
    BY <2>2, <2>3, <2>4, <1>3, JoinedApart
  <2>6. /\ size'[p] = size2[p] + size2[b] /\ p + size2[p] = b
        /\ \A a \in ((used \cup F) \ {c}) \ {p, b} : size'[a] = size2[a]
    BY <2>2, <2>3, <1>1, <1>2, <1>4, <1>5, <1>6
  <2>7. /\ (used \cup F) \ {c} \in SUBSET Nat
        /\ \A a \in (used \cup F) \ {c} : size2[a] \in Nat
    BY <2>2, <2>4, <1>1, <1>2, <1>3
  <2>8. p \in (used \cup F) \ {c} /\ b \in (used \cup F) \ {c} /\ p < b
    BY <1>3, <1>5
  <2> QED
    BY <2>5, <2>6, <2>7, <2>8, JoinedApart
<1>13. Merged(F1, size')
  <2>1. \A g, h \in F : g + size[g] # h
    BY DEF HeapInv, Merged
  <2>2. p + size'[p] = c + size[c]
    <3>1. size'[p] = size[p] + (size[b] + size[c]) /\ p + size[p] = b /\ b + size[b] = c
      BY <1>1, <1>2, <1>4, <1>5, <1>6 DEF JoinsPrev, JoinsNext
    <3>2. p \in Nat /\ size[p] \in Nat /\ size[b] \in Nat /\ size[c] \in Nat
      BY <1>1, <1>2
    <3> QED
      BY <3>1, <3>2
  <2>3. \A g \in F \ {p, c} : size'[g] = size[g]
    BY <1>1, <1>2, <1>4, <1>6
  <2> QED
    BY <2>1, <2>2, <2>3, <1>3, <1>8 DEF Merged
<1>14. \A a \in used' : size'[a] # 0
  <2>1. \A a \in used : size[a] # 0 /\ a # p /\ a # c /\ a \in Addr
    BY <1>1, <1>3, <1>5 DEF HeapInv
  <2> QED
    BY <2>1, <1>4, <1>6
<1> QED
  BY <1>7, <1>9, <1>10, <1>11, <1>12, <1>13, <1>14 DEF HeapInv, TypeOK

LEMMA KfreeKeeps ==
  ASSUME NEW F, HeapInv(F), NEW b \in used, kfree(b)
  PROVE  \E F1 : HeapInv(F1)'
<1>1. used' = used \ {b}
  BY DEF kfree
<1>2. CASE Behind(b) = {}
  <2>1. UNCHANGED <<freemem, size, next, prev>>
    BY <1>2 DEF kfree
  <2>2. HeapInv(F)'
    BY <2>1, <1>1 DEF HeapInv, TypeOK, Apart
  <2> QED
    BY <2>2
<1>3. CASE Behind(b) # {}
  <2>1. /\ F \in SUBSET (Addr \ {NULL}) /\ ListOf(F, freemem, next, prev) /\ b \in Addr
    BY HeapTypes
  <2>2. PICK c : c = Walk[MinOf(Behind(b))]
    OBVIOUS
  <2>3. c \in F /\ b < c /\ \A g \in F : b < g => c <= g
    BY <2>1, <2>2, <1>3, FirstBehind
  <2>4. PICK p : p = prev[c]
    OBVIOUS
  <2>5. Between(F, p, b, c) /\ Insert(b, c)
    BY <2>2, <2>3, <2>4, <1>3 DEF Between, kfree
  <2> QED
    BY <2>5, <1>1, InsertKeeps, JoinNextKeeps, JoinPrevKeeps, JoinBothKeeps
<1> QED
  BY <1>2, <1>3

---------------------------------------------------------------------------
(* Initially the two free blocks on both sides of the hole are the list.   *)
LEMMA InitHeap == Init => \E F : HeapInv(F)
<1> SUFFICES ASSUME Init PROVE \E F : HeapInv(F)
  OBVIOUS
<1> DEFINE a == FirstHeader
           b == HOLEEND
<1>1. /\ a \in Addr /\ b \in Addr /\ a \in Nat /\ b \in Nat /\ NULL \in Addr
      /\ a # NULL /\ b # NULL /\ a < b /\ a + 16 < HOLESTART /\ b + 16 < maxaddr
      /\ HOLESTART < b /\ HOLESTART \in Nat /\ maxaddr \in Nat
  BY Layout, AddrIs DEF NULL
<1>2. /\ freemem = a /\ used = {}
      /\ size = [x \in Addr |-> CASE x = a -> HOLESTART - a [] x = b -> maxaddr - b [] OTHER -> 0]
      /\ next = [x \in Addr |-> IF x = a THEN b ELSE NULL]
      /\ prev = [x \in Addr |-> IF x = b THEN a ELSE NULL]
  BY DEF Init
<1> HIDE DEF a, b
<1>3. size[a] = HOLESTART - a /\ size[b] = maxaddr - b /\ size[NULL] = 0
  BY <1>1, <1>2
<1>4. next[a] = b /\ next[b] = NULL /\ prev[a] = NULL /\ prev[b] = a /\ next[NULL] = NULL
  BY <1>1, <1>2
<1>5. TypeOK
  <2>1. HOLESTART - a \in Nat /\ maxaddr - b \in Nat
    BY <1>1
  <2>2. size \in [Addr -> Nat]
    BY <2>1, <1>2
  <2> QED
    BY <2>2, <1>1, <1>2 DEF TypeOK
<1>6. ListOf({a, b}, freemem, next, prev)
  BY <1>1, <1>2, <1>4 DEF ListOf
<1>7. Apart({a, b}, size)
  <2>1. InRegion(a, size) /\ InRegion(b, size)
    BY <1>1, <1>3 DEF InRegion, a, b
  <2> QED
    BY <2>1, <1>1, <1>3 DEF Apart
<1>8. Merged({a, b}, size)
  BY <1>1, <1>3 DEF Merged
<1>9. HeapInv({a, b})
  <2>1. used \cup {a, b} = {a, b} /\ NULL <= freemem
    BY <1>1, <1>2 DEF NULL
  <2> QED
    BY <2>1, <1>1, <1>2, <1>3, <1>4, <1>5, <1>6, <1>7, <1>8 DEF HeapInv
<1> QED
  BY <1>9

LEMMA HeapKept ==
  ASSUME Careful, NEW F, HeapInv(F), [Next]_vars
  PROVE  \E F1 : HeapInv(F1)'
<1>1. CASE \E n \in StackSizes : (Careful => SafeCall(n)) /\ kmalloc(n)
  BY <1>1, KmallocKeeps
<1>2. CASE \E b \in used : kfree(b)
  BY <1>2, KfreeKeeps
<1>3. CASE UNCHANGED vars
  <2>1. HeapInv(F)'
    BY <1>3 DEF HeapInv, TypeOK, vars
  <2> QED
    BY <2>1
<1> QED
  BY <1>1, <1>2, <1>3 DEF Next

(* For programs that make safe calls only, the free blocks are always a    *)
(* list in the order of addresses, without gaps in it, and no block        *)
(* overlaps another one (kmalloc, AddToFreeList).                          *)
THEOREM HeapStep ==
  ASSUME Careful
  PROVE  Spec => [](\E F : HeapInv(F))
<1>1. (\E F : HeapInv(F)) /\ [Next]_vars => (\E F : HeapInv(F))'
  BY HeapKept
<1> QED
  BY <1>1, InitHeap, PTL DEF Spec

(* What follows from the invariant in a state.                             *)
LEMMA HeapMeans ==
  ASSUME NEW F, HeapInv(F)
  PROVE  TypeOK /\ FreeListLinked /\ BlocksDisjoint /\ Coalesced
<1>1. FreeHeaders = F /\ F \in SUBSET (Addr \ {NULL}) /\ ListOf(F, freemem, next, prev)
  BY HeapTypes, HeadersAre
<1>2. FreeListLinked
  <2>1. freemem # NULL
    BY <1>1 DEF ListOf
  <2> QED
    BY <2>1, <1>1 DEF FreeListLinked, ListOf
<1>3. BlocksDisjoint
  BY <1>1 DEF HeapInv, Apart, InRegion, BlocksDisjoint
<1>4. Coalesced
  BY <1>1 DEF HeapInv, Merged, Coalesced
<1> QED
  BY <1>2, <1>3, <1>4 DEF HeapInv

(* The header of every block, and every pointer of the free list, is an    *)
(* address of memory on a paragraph boundary, and no size is negative      *)
(* (kmeminit, kmalloc, AddToFreeList).                                     *)
THEOREM MemoryTypes ==
  ASSUME Careful
  PROVE  Spec => []TypeOK
<1>1. (\E F : HeapInv(F)) => TypeOK
  BY HeapMeans
<1> QED
  BY <1>1, HeapStep, PTL

(* The free list is doubly linked, in the order of addresses, and freemem  *)
(* is its first node (kmalloc, AddToFreeList).                             *)
THEOREM FreeListInOrder ==
  ASSUME Careful
  PROVE  Spec => []FreeListLinked
<1>1. (\E F : HeapInv(F)) => FreeListLinked
  BY HeapMeans
<1> QED
  BY <1>1, HeapStep, PTL

(* No byte belongs to two blocks, used or free, and none of them is in the *)
(* I/O hole or past the end of memory (kmalloc, AddToFreeList).            *)
THEOREM BlocksApart ==
  ASSUME Careful
  PROVE  Spec => []BlocksDisjoint
<1>1. (\E F : HeapInv(F)) => BlocksDisjoint
  BY HeapMeans
<1> QED
  BY <1>1, HeapStep, PTL

(* No two free blocks touch (AddToFreeList).                               *)
THEOREM FreeMemoryMerged ==
  ASSUME Careful
  PROVE  Spec => []Coalesced
<1>1. (\E F : HeapInv(F)) => Coalesced
  BY HeapMeans
<1> QED
  BY <1>1, HeapStep, PTL
===========================================================================
