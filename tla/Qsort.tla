------------------------------- MODULE Qsort -------------------------------
(***************************************************************************)
(* The sort of the C library (lib/libxc/qsort.c), comparison by            *)
(* comparison.  An array is a sequence of elements, which are numbers and  *)
(* compare as such; an address is the number of an element.                *)
(*                                                                         *)
(* A definition whose name ends in _Capitalised is a variant of the one    *)
(* below it with a mistake in it, which no specification uses.             *)
(***************************************************************************)
EXTENDS Integers, Sequences, FiniteSets

CONSTANTS
  Elements,  \* what is sorted: arrays of up to MaxLen of these
  MaxLen

ASSUME SortAssumption == Elements \subseteq Int /\ MaxLen \in Nat

VARIABLES
  array,
  frame,     \* the locals of the call of qs1 that runs: it sorts a up to, but
             \* not including, l
  callers    \* those of the calls that wait for another one, the first first

svars == <<array, frame, callers>>

Size(f) == f.l - f.a

(* From the label start on, up to the loop: i and j stand at the ends, lp  *)
(* and hp in the middle.                                                   *)
Part(a, l) ==
  LET mid == a + (l - a) \div 2
  IN  [a |-> a, l |-> l, i |-> a, j |-> l - 1, lp |-> mid, hp |-> mid]

SortInit ==
  /\ array \in UNION {[1 .. n -> Elements] : n \in 0 .. MaxLen}
  /\ frame = Part(1, Len(array) + 1) /\ callers = <<>>

---------------------------------------------------------------------------
(* Elements are exchanged: p and q; or p goes to r, r to q and q to p.     *)
qsexc(x, p, q) == [x EXCEPT ![p] = x[q], ![q] = x[p]]

qstexc_Reversed(x, p, q, r) == [x EXCEPT ![p] = x[q], ![r] = x[p], ![q] = x[r]]

qstexc(x, p, q, r) == [x EXCEPT ![p] = x[r], ![r] = x[q], ![q] = x[p]]

(* In the loop lp to hp are equal, those before i less and those behind j  *)
(* greater.  Where the code goes to the label loop, element i was compared *)
(* before, with the same outcome.                                          *)
Looping == Size(frame) > 1

EqualLeft ==
  /\ Looping /\ frame.i < frame.lp /\ array[frame.i] = array[frame.lp]
  /\ array' = qsexc(array, frame.i, frame.lp - 1)
  /\ frame' = [frame EXCEPT !.lp = @ - 1]
  /\ UNCHANGED callers

LessLeft ==
  /\ Looping /\ frame.i < frame.lp /\ array[frame.i] < array[frame.lp]
  /\ frame' = [frame EXCEPT !.i = @ + 1]
  /\ UNCHANGED <<array, callers>>

LeftStays == frame.i = frame.lp \/ array[frame.i] > array[frame.lp]

OnRight == Looping /\ LeftStays /\ frame.j > frame.hp

EqualRight ==
  /\ OnRight /\ array[frame.hp] = array[frame.j]
  /\ array' = qsexc(array, frame.hp + 1, frame.j)
  /\ frame' = [frame EXCEPT !.hp = @ + 1]
  /\ UNCHANGED callers

GreaterRight ==
  /\ OnRight /\ array[frame.hp] < array[frame.j]
  /\ frame' = [frame EXCEPT !.j = @ - 1]
  /\ UNCHANGED <<array, callers>>

(* One that is less goes to the left: around those in the middle, or in    *)
(* exchange for one that is greater.                                       *)
LessRight ==
  /\ OnRight /\ array[frame.hp] > array[frame.j]
  /\ IF frame.i = frame.lp
     THEN /\ array' = qstexc(array, frame.i, frame.hp + 1, frame.j)
          /\ frame' = [frame EXCEPT !.i = frame.lp + 1, !.lp = @ + 1, !.hp = @ + 1]
     ELSE /\ array' = qsexc(array, frame.i, frame.j)
          /\ frame' = [frame EXCEPT !.i = @ + 1, !.j = @ - 1]
  /\ UNCHANGED callers

(* One that is greater goes to the right, around those in the middle.      *)
GreaterLeft ==
  /\ Looping /\ frame.i # frame.lp /\ LeftStays /\ frame.j <= frame.hp
  /\ array' = qstexc(array, frame.j, frame.lp - 1, frame.i)
  /\ frame' = [frame EXCEPT !.lp = @ - 1, !.hp = @ - 1, !.j = frame.hp - 1]
  /\ UNCHANGED callers

(* What qs1 calls itself for, and what it goes on with: the part behind    *)
(* and the one in front, or the other way round.                           *)
CallsBehind_Larger(f) == f.lp - f.a < f.l - f.hp

CallsBehind(f) == f.lp - f.a >= f.l - f.hp

Called(f) == IF CallsBehind(f) THEN Part(f.hp + 1, f.l) ELSE Part(f.a, f.lp)

Rest(f) == IF CallsBehind(f) THEN Part(f.a, f.lp) ELSE Part(f.hp + 1, f.l)

Call ==
  /\ Looping /\ frame.i = frame.lp /\ frame.j <= frame.hp
  /\ callers' = Append(callers, frame)
  /\ frame' = Called(frame)
  /\ UNCHANGED array

Resume ==
  /\ ~Looping /\ callers # <<>>
  /\ frame' = Rest(callers[Len(callers)])
  /\ callers' = SubSeq(callers, 1, Len(callers) - 1)
  /\ UNCHANGED array

SortNext ==
  \/ EqualLeft \/ LessLeft \/ EqualRight \/ GreaterRight \/ LessRight \/ GreaterLeft
  \/ Call \/ Resume

SortSpec == SortInit /\ [][SortNext]_svars

---------------------------------------------------------------------------
Finished == ~Looping /\ callers = <<>>

InOrder == \A x, y \in DOMAIN array : x < y => array[x] <= array[y]

(* Calls nest no deeper than the logarithm of the length.                  *)
Shallow == callers # <<>> => 2 ^ Len(callers) <= Len(array)

SameElements ==
  \A e \in Elements : Cardinality({x \in DOMAIN array : array[x] = e})
                        = Cardinality({x \in DOMAIN array : array[x] = e})'

(* The places that are still to be sorted, and the elements of the frame   *)
(* that are still to be compared.                                          *)
PlacesOf(f) == f.a .. f.l - 1

Unsorted == PlacesOf(frame) \cup UNION {PlacesOf(Rest(callers[k])) : k \in DOMAIN callers}

Uncompared == frame.lp - frame.i + (frame.j - frame.hp)

(* There are fewer of these: the sort ends.                                *)
Closer ==
  \/ Unsorted' \subseteq Unsorted /\ Unsorted' # Unsorted
  \/ Unsorted' \subseteq Unsorted /\ Len(callers') < Len(callers)
  \/ Unsorted' = Unsorted /\ callers' = callers /\ Uncompared' \in 0 .. Uncompared - 1

(* An array is sorted, with what was in it, in a number of steps that is   *)
(* bounded, and the calls of the sort nest no deeper than the logarithm of *)
(* its length.                                                             *)
Sorts ==
  /\ []((Finished => InOrder) /\ Shallow)
  /\ [][SameElements /\ Closer]_svars
=============================================================================
