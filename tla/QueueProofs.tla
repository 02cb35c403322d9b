---------------------------- MODULE QueueProofs ----------------------------
(***************************************************************************)
(* What the queue operators of ProcQueues do to well-formed queues.        *)
(*                                                                         *)
(* A labelling lab says which queue each PCB is on.  WellLinked(m, lab)    *)
(* says that the pointers of m agree with it and form disjoint, acyclic    *)
(* lists; the lemmas say how each operator changes the labelling.          *)
(***************************************************************************)
EXTENDS ProcQueues, Sequences, TLAPS

Unlisted == -4   \* the label of a PCB that is on no queue

Labelling == [PCB -> Queue \cup {Unlisted}]

(* Pointers stay within a queue.                                           *)
Labelled(m, lab) ==
  /\ \A q \in Queue : m.head[q] # NULL => lab[m.head[q]] = q
  /\ \A x \in PCB : m.next[x] # NULL =>
       lab[x] # Unlisted /\ lab[m.next[x]] = lab[x]

(* At most one pointer leads to a PCB, and one does if it is on a queue.   *)
SinglyLinked(m, lab) ==
  /\ \A x, y \in PCB : m.next[x] # NULL /\ m.next[x] = m.next[y] => x = y
  /\ \A x \in PCB, q \in Queue : m.next[x] # NULL => m.next[x] # m.head[q]
  /\ \A x \in PCB : lab[x] # Unlisted =>
       m.head[lab[x]] = x \/ \E y \in PCB : m.next[y] = x

(* No cycles, seen from either end: every set of PCBs has one whose next   *)
(* is outside it, and one that is the next of none of them.                *)
Acyclic(m) ==
  \A S \in SUBSET PCB : S # {} =>
    /\ \E x \in S : m.next[x] \notin S
    /\ \E x \in S : \A y \in S : m.next[y] # x

WellLinked(m, lab) ==
  /\ m \in Memory /\ lab \in Labelling
  /\ Labelled(m, lab) /\ SinglyLinked(m, lab) /\ Acyclic(m)

---------------------------------------------------------------------------
(* Reach.                                                                  *)
LEMMA ReachRoot ==
  ASSUME NEW next, NEW h \in PCB
  PROVE  h \in Reach(next, h)
BY DEF Reach

LEMMA ReachClosed ==
  ASSUME NEW next \in [PCB -> PCB \cup {NULL}], NEW h,
         NEW x \in Reach(next, h), next[x] # NULL
  PROVE  next[x] \in Reach(next, h)
BY DEF Reach

LEMMA ReachLeast ==
  ASSUME NEW next, NEW h, NEW S \in SUBSET PCB, h \in S,
         \A x \in S : next[x] \in S \cup {NULL}
  PROVE  Reach(next, h) \subseteq S
BY DEF Reach

(* What can be reached from h is h or can be reached from its next.        *)
LEMMA ReachStep ==
  ASSUME NEW next \in [PCB -> PCB \cup {NULL}], NEW h \in PCB,
         NEW x \in Reach(next, h), x # h
  PROVE  next[h] # NULL /\ x \in Reach(next, next[h])
<1>1. CASE next[h] = NULL
  <2> DEFINE S == {h}
  <2>1. S \in SUBSET PCB /\ h \in S /\ \A y \in S : next[y] \in S \cup {NULL}
    BY <1>1
  <2>2. Reach(next, h) \subseteq S
    <3> HIDE DEF S
    <3> QED
      BY <2>1, ReachLeast
  <2> QED
    BY <2>2
<1>2. CASE next[h] # NULL
  <2> DEFINE S == {h} \cup Reach(next, next[h])
  <2>1. next[h] \in PCB
    BY <1>2
  <2>2. S \in SUBSET PCB
    BY DEF Reach
  <2>3. \A y \in S : next[y] \in S \cup {NULL}
    <3> SUFFICES ASSUME NEW y \in S PROVE next[y] \in S \cup {NULL}
      OBVIOUS
    <3>1. CASE y = h
      BY <3>1, <2>1, ReachRoot
    <3>2. CASE y \in Reach(next, next[h])
      BY <3>2, ReachClosed
    <3> QED
      BY <3>1, <3>2
  <2>4. h \in S
    OBVIOUS
  <2>5. Reach(next, h) \subseteq S
    <3> HIDE DEF S
    <3> QED
      BY <2>2, <2>3, <2>4, ReachLeast
  <2> QED
    BY <1>2, <2>5
<1> QED
  BY <1>1, <1>2

(* Every PCB that can be reached from h, h excepted, is the next of one    *)
(* that can.                                                               *)
LEMMA ReachPrev ==
  ASSUME NEW next \in [PCB -> PCB \cup {NULL}], NEW h \in PCB,
         NEW x \in Reach(next, h), x # h
  PROVE  \E y \in Reach(next, h) : next[y] = x
<1> SUFFICES ASSUME \A y \in Reach(next, h) : next[y] # x PROVE FALSE
  OBVIOUS
<1> DEFINE S == Reach(next, h) \ {x}
<1>1. S \in SUBSET PCB
  BY DEF Reach
<1>2. h \in S
  BY ReachRoot
<1>3. \A y \in S : next[y] \in S \cup {NULL}
  BY ReachClosed
<1>4. Reach(next, h) \subseteq S
  <2> HIDE DEF S
  <2> QED
    BY <1>1, <1>2, <1>3, ReachLeast
<1> QED
  BY <1>4

---------------------------------------------------------------------------
(* Chains.                                                                 *)
LEMMA WellLinkedTypes ==
  ASSUME NEW m, NEW lab, WellLinked(m, lab)
  PROVE  /\ m.head \in [Queue -> PCB \cup {NULL}]
         /\ m.next \in [PCB -> PCB \cup {NULL}]
         /\ m.state \in [PCB -> Process_state]
         /\ \A x \in PCB : lab[x] \in Queue \cup {Unlisted}
         /\ lab \in Labelling
         /\ NULL \notin PCB /\ Unlisted \notin Queue
BY DEF WellLinked, Memory, Labelling, NULL, PCB, Unlisted, Queue

(* A chain is the set of the PCBs with the label of its queue.             *)
LEMMA ChainIsClass ==
  ASSUME NEW m, NEW lab, WellLinked(m, lab), NEW q \in Queue
  PROVE  Chain(m, q) = {x \in PCB : lab[x] = q}
<1> DEFINE C == {x \in PCB : lab[x] = q}
<1> USE WellLinkedTypes
<1>1. Chain(m, q) \subseteq C
  <2>1. CASE m.head[q] = NULL
    BY <2>1 DEF Chain
  <2>2. CASE m.head[q] # NULL
    <3>1. C \in SUBSET PCB /\ m.head[q] \in C
      BY <2>2 DEF WellLinked, Labelled
    <3>2. \A x \in C : m.next[x] \in C \cup {NULL}
      BY DEF WellLinked, Labelled
    <3>3. Reach(m.next, m.head[q]) \subseteq C
      <4> HIDE DEF C
      <4> QED
        BY <3>1, <3>2, ReachLeast
    <3> QED
      BY <2>2, <3>3 DEF Chain
  <2> QED
    BY <2>1, <2>2
<1>2. C \subseteq Chain(m, q)
  <2> DEFINE U == C \ Chain(m, q)
  <2> SUFFICES ASSUME U # {} PROVE FALSE
    OBVIOUS
  <2>1. PICK x \in U : \A y \in U : m.next[y] # x
    <3>1. U \in SUBSET PCB
      OBVIOUS
    <3> HIDE DEF U
    <3> QED
      BY <3>1 DEF WellLinked, Acyclic
  <2>2. x \in PCB /\ lab[x] = q /\ q # Unlisted
    OBVIOUS
  <2>3. CASE m.head[q] = x
    <3>1. x \in Chain(m, q)
      BY <2>2, <2>3, ReachRoot DEF Chain
    <3> QED
      BY <3>1
  <2>4. CASE m.head[q] # x
    <3>1. PICK y \in PCB : m.next[y] = x
      BY <2>2, <2>4 DEF WellLinked, SinglyLinked
    <3>2. lab[y] = q
      BY <2>2, <3>1 DEF WellLinked, Labelled
    <3>3. y \in Chain(m, q)
      BY <2>1, <3>1, <3>2
    <3>4. x \in Chain(m, q)
      BY <2>2, <3>1, <3>3, ReachClosed DEF Chain
    <3> QED
      BY <3>4
  <2> QED
    BY <2>3, <2>4
<1> QED
  BY <1>1, <1>2

(* The last node of a queue that is not empty.                             *)
LEMMA LastOfQueue ==
  ASSUME NEW m, NEW lab, WellLinked(m, lab), NEW q \in Queue, m.head[q] # NULL
  PROVE  /\ LastOf(m, q) \in PCB /\ lab[LastOf(m, q)] = q
         /\ m.next[LastOf(m, q)] = NULL
<1> DEFINE C == Chain(m, q)
<1> USE WellLinkedTypes
<1>1. C = {x \in PCB : lab[x] = q}
  BY ChainIsClass
<1>2. C \in SUBSET PCB /\ m.head[q] \in C
  BY <1>1 DEF WellLinked, Labelled
<1>3. PICK x \in C : m.next[x] \notin C
  BY <1>2 DEF WellLinked, Acyclic
<1>4. m.next[x] = NULL
  BY <1>1, <1>3 DEF WellLinked, Labelled
<1>5. \E t \in C : m.next[t] = NULL
  BY <1>4
<1>6. LastOf(m, q) \in C /\ m.next[LastOf(m, q)] = NULL
  BY <1>5 DEF LastOf
<1> QED
  BY <1>1, <1>6

(* The node in front of a node that is not the first.                      *)
LEMMA PrevOfNode ==
  ASSUME NEW m, NEW lab, WellLinked(m, lab), NEW q \in Queue,
         NEW p \in PCB, lab[p] = q, m.head[q] # p
  PROVE  /\ PrevOf(m, q, p) \in PCB /\ lab[PrevOf(m, q, p)] = q
         /\ m.next[PrevOf(m, q, p)] = p
<1> USE WellLinkedTypes
<1>1. Chain(m, q) = {x \in PCB : lab[x] = q}
  BY ChainIsClass
<1>2. PICK y \in PCB : m.next[y] = p
  BY DEF WellLinked, SinglyLinked
<1>3. lab[y] = q
  BY <1>2 DEF WellLinked, Labelled
<1>4. \E x \in Chain(m, q) : m.next[x] = p
  BY <1>1, <1>2, <1>3
<1>5. PrevOf(m, q, p) \in Chain(m, q) /\ m.next[PrevOf(m, q, p)] = p
  BY <1>4 DEF PrevOf
<1> QED
  BY <1>1, <1>5

---------------------------------------------------------------------------
(* The operators.                                                          *)

(* A PCB on no queue is pointed at by nothing and points at nothing.       *)
LEMMA UnlistedIsFree ==
  ASSUME NEW m, NEW lab, WellLinked(m, lab), NEW p \in PCB, lab[p] = Unlisted
  PROVE  /\ m.next[p] = NULL
         /\ \A q \in Queue : m.head[q] # p
         /\ \A x \in PCB : m.next[x] # p
<1> USE WellLinkedTypes
<1> QED
  BY DEF WellLinked, Labelled

(* p becomes the only node of q.                                           *)
LEMMA FirstNode ==
  ASSUME NEW m, NEW lab, WellLinked(m, lab),
         NEW p \in PCB, lab[p] = Unlisted, NEW q \in Queue, m.head[q] = NULL,
         NEW m1 \in Memory,
         m1.head = [m.head EXCEPT ![q] = p], m1.next = m.next
  PROVE  WellLinked(m1, [lab EXCEPT ![p] = q])
<1> DEFINE lab1 == [lab EXCEPT ![p] = q]
<1> USE WellLinkedTypes, UnlistedIsFree
<1>1. lab1 \in Labelling
  BY DEF Labelling
<1>2. \A x \in PCB : lab[x] # q
  <2>1. Chain(m, q) = {}
    BY DEF Chain
  <2> QED
    BY <2>1, ChainIsClass
<1>3. Labelled(m1, lab1)
  <2>1. ASSUME NEW r \in Queue, m1.head[r] # NULL PROVE lab1[m1.head[r]] = r
    BY <2>1 DEF WellLinked, Labelled, Labelling
  <2>2. ASSUME NEW x \in PCB, m1.next[x] # NULL
        PROVE  lab1[x] # Unlisted /\ lab1[m1.next[x]] = lab1[x]
    BY <2>2 DEF WellLinked, Labelled, Labelling
  <2> QED
    BY <2>1, <2>2 DEF Labelled
<1>4. SinglyLinked(m1, lab1)
  <2>1. \A x, y \in PCB : m1.next[x] # NULL /\ m1.next[x] = m1.next[y] => x = y
    BY DEF WellLinked, SinglyLinked
  <2>2. \A x \in PCB, r \in Queue : m1.next[x] # NULL => m1.next[x] # m1.head[r]
    BY DEF WellLinked, SinglyLinked
  <2>3. ASSUME NEW x \in PCB, lab1[x] # Unlisted
        PROVE  m1.head[lab1[x]] = x \/ \E y \in PCB : m1.next[y] = x
    <3>1. CASE x = p
      BY <3>1 DEF Labelling
    <3>2. CASE x # p
      <4>1. lab1[x] = lab[x] /\ lab[x] # q
        BY <3>2, <1>2 DEF Labelling
      <4> QED
        BY <2>3, <4>1 DEF WellLinked, SinglyLinked
    <3> QED
      BY <3>1, <3>2
  <2> QED
    BY <2>1, <2>2, <2>3 DEF SinglyLinked
<1>5. Acyclic(m1)
  BY DEF WellLinked, Acyclic
<1> QED
  BY <1>1, <1>3, <1>4, <1>5 DEF WellLinked

(* p is linked behind node t of q, in front of what t pointed at.          *)
LEMMA LinkBehind ==
  ASSUME NEW m, NEW lab, WellLinked(m, lab),
         NEW p \in PCB, lab[p] = Unlisted, NEW q \in Queue,
         NEW t \in PCB, lab[t] = q,
         NEW m1 \in Memory, m1.head = m.head,
         m1.next = [m.next EXCEPT ![t] = p, ![p] = m.next[t]]
  PROVE  WellLinked(m1, [lab EXCEPT ![p] = q])
<1> DEFINE lab1 == [lab EXCEPT ![p] = q]
<1> USE WellLinkedTypes, UnlistedIsFree
<1>1. lab1 \in Labelling
  BY DEF Labelling
<1>2. t # p /\ q # Unlisted
  OBVIOUS
<1>3. /\ m1.next[t] = p /\ m1.next[p] = m.next[t]
      /\ \A x \in PCB \ {t, p} : m1.next[x] = m.next[x]
  BY <1>2
<1>4. lab1[p] = q /\ \A x \in PCB \ {p} : lab1[x] = lab[x]
  BY DEF Labelling
<1>5. Labelled(m1, lab1)
  <2>1. ASSUME NEW r \in Queue, m1.head[r] # NULL PROVE lab1[m1.head[r]] = r
    BY <2>1, <1>4 DEF WellLinked, Labelled
  <2>2. ASSUME NEW x \in PCB, m1.next[x] # NULL
        PROVE  lab1[x] # Unlisted /\ lab1[m1.next[x]] = lab1[x]
    <3>1. CASE x = t
      BY <3>1, <1>2, <1>3, <1>4
    <3>2. CASE x = p
      BY <3>2, <2>2, <1>2, <1>3, <1>4 DEF WellLinked, Labelled
    <3>3. CASE x \notin {t, p}
      BY <3>3, <2>2, <1>3, <1>4 DEF WellLinked, Labelled
    <3> QED
      BY <3>1, <3>2, <3>3
  <2> QED
    BY <2>1, <2>2 DEF Labelled
<1>6. SinglyLinked(m1, lab1)
  <2>1. ASSUME NEW x \in PCB, NEW y \in PCB,
               m1.next[x] # NULL, m1.next[x] = m1.next[y]
        PROVE  x = y
    BY <2>1, <1>2, <1>3 DEF WellLinked, SinglyLinked
  <2>2. ASSUME NEW x \in PCB, NEW r \in Queue, m1.next[x] # NULL
        PROVE  m1.next[x] # m1.head[r]
    BY <2>2, <1>2, <1>3 DEF WellLinked, SinglyLinked
  <2>3. ASSUME NEW x \in PCB, lab1[x] # Unlisted
        PROVE  m1.head[lab1[x]] = x \/ \E y \in PCB : m1.next[y] = x
    <3>1. CASE x = p
      BY <3>1, <1>3
    <3>2. CASE x # p /\ m.head[lab[x]] = x
      BY <3>2, <1>4
    <3>3. CASE x # p /\ m.head[lab[x]] # x
      <4>1. PICK y \in PCB : m.next[y] = x
        BY <2>3, <3>3, <1>4 DEF WellLinked, SinglyLinked
      <4>2. CASE y = t
        BY <4>1, <4>2, <1>3
      <4>3. CASE y # t
        <5>1. y # p
          BY <4>1, <2>3
        <5> QED
          BY <4>1, <4>3, <5>1, <1>3
      <4> QED
        BY <4>2, <4>3
    <3> QED
      BY <3>1, <3>2, <3>3
  <2> QED
    BY <2>1, <2>2, <2>3 DEF SinglyLinked
<1>7. Acyclic(m1)
  <2> SUFFICES ASSUME NEW S \in SUBSET PCB, S # {}
               PROVE  /\ \E x \in S : m1.next[x] \notin S
                      /\ \E x \in S : \A y \in S : m1.next[y] # x
    BY DEF Acyclic
  <2> DEFINE T == S \ {p}
  <2>1. CASE T = {}
    <3>1. S = {p}
      BY <2>1
    <3>2. m1.next[p] # p
      BY <1>2, <1>3
    <3> QED
      BY <3>1, <3>2
  <2>2. CASE T # {}
    <3>1. T \in SUBSET PCB /\ p \notin T
      OBVIOUS
    <3>2. PICK a \in T : m.next[a] \notin T
      BY <2>2, <3>1 DEF WellLinked, Acyclic
    <3>3. \E x \in S : m1.next[x] \notin S
      <4>1. CASE a # t
        BY <4>1, <3>1, <3>2, <1>3
      <4>2. CASE a = t /\ p \in S
        BY <4>2, <3>2, <1>2, <1>3
      <4>3. CASE a = t /\ p \notin S
        BY <4>3, <1>3
      <4> QED
        BY <4>1, <4>2, <4>3
    <3>4. PICK b \in T : \A y \in T : m.next[y] # b
      BY <2>2, <3>1 DEF WellLinked, Acyclic
    <3>5. \E x \in S : \A y \in S : m1.next[y] # x
      <4>1. CASE p \notin S
        BY <4>1, <3>4, <1>2, <1>3
      <4>2. CASE p \in S /\ t \notin S
        BY <4>2, <1>2, <1>3
      <4>3. CASE p \in S /\ t \in S
        BY <4>3, <3>4, <1>2, <1>3
      <4> QED
        BY <4>1, <4>2, <4>3
    <3> QED
      BY <3>3, <3>5
  <2> QED
    BY <2>1, <2>2
<1> QED
  BY <1>1, <1>5, <1>6, <1>7 DEF WellLinked

(* p is linked in front of the first node of q.                            *)
LEMMA LinkFirst ==
  ASSUME NEW m, NEW lab, WellLinked(m, lab),
         NEW p \in PCB, lab[p] = Unlisted, NEW q \in Queue, m.head[q] # NULL,
         NEW m1 \in Memory, m1.head = [m.head EXCEPT ![q] = p],
         m1.next = [m.next EXCEPT ![p] = m.head[q]]
  PROVE  WellLinked(m1, [lab EXCEPT ![p] = q])
<1> DEFINE lab1 == [lab EXCEPT ![p] = q]
           h == m.head[q]
<1> USE WellLinkedTypes, UnlistedIsFree
<1>1. lab1 \in Labelling
  BY DEF Labelling
<1>2. q # Unlisted /\ h \in PCB /\ lab[h] = q /\ h # p
  BY DEF WellLinked, Labelled
<1>3. m1.next[p] = h /\ \A x \in PCB \ {p} : m1.next[x] = m.next[x]
  OBVIOUS
<1>4. lab1[p] = q /\ \A x \in PCB \ {p} : lab1[x] = lab[x]
  BY DEF Labelling
<1>5. m1.head[q] = p /\ \A r \in Queue \ {q} : m1.head[r] = m.head[r]
  OBVIOUS
<1>6. Labelled(m1, lab1)
  <2>1. ASSUME NEW r \in Queue, m1.head[r] # NULL PROVE lab1[m1.head[r]] = r
    BY <2>1, <1>4, <1>5 DEF WellLinked, Labelled
  <2>2. ASSUME NEW x \in PCB, m1.next[x] # NULL
        PROVE  lab1[x] # Unlisted /\ lab1[m1.next[x]] = lab1[x]
    <3>1. CASE x = p
      BY <3>1, <1>2, <1>3, <1>4
    <3>2. CASE x # p
      BY <3>2, <2>2, <1>3, <1>4 DEF WellLinked, Labelled
    <3> QED
      BY <3>1, <3>2
  <2> QED
    BY <2>1, <2>2 DEF Labelled
<1>7. SinglyLinked(m1, lab1)
  <2>1. ASSUME NEW x \in PCB, NEW y \in PCB,
               m1.next[x] # NULL, m1.next[x] = m1.next[y]
        PROVE  x = y
    BY <2>1, <1>2, <1>3 DEF WellLinked, SinglyLinked
  <2>2. ASSUME NEW x \in PCB, NEW r \in Queue, m1.next[x] # NULL
        PROVE  m1.next[x] # m1.head[r]
    <3>1. CASE x = p
      <4>1. CASE r = q
        BY <3>1, <4>1, <1>2, <1>3, <1>5
      <4>2. CASE r # q
        BY <3>1, <4>2, <1>2, <1>3, <1>5 DEF WellLinked, Labelled
      <4> QED
        BY <4>1, <4>2
    <3>2. CASE x # p
      BY <3>2, <2>2, <1>2, <1>3, <1>5 DEF WellLinked, SinglyLinked
    <3> QED
      BY <3>1, <3>2
  <2>3. ASSUME NEW x \in PCB, lab1[x] # Unlisted
        PROVE  m1.head[lab1[x]] = x \/ \E y \in PCB : m1.next[y] = x
    <3>1. CASE x = p
      BY <3>1, <1>4, <1>5
    <3>2. CASE x = h
      BY <3>2, <1>3
    <3>3. CASE x # p /\ x # h /\ m.head[lab[x]] = x
      BY <3>3, <2>3, <1>4, <1>5
    <3>4. CASE x # p /\ x # h /\ m.head[lab[x]] # x
      <4>1. PICK y \in PCB : m.next[y] = x
        BY <2>3, <3>4, <1>4 DEF WellLinked, SinglyLinked
      <4>2. y # p
        BY <4>1
      <4> QED
        BY <4>1, <4>2, <1>3
    <3> QED
      BY <3>1, <3>2, <3>3, <3>4
  <2> QED
    BY <2>1, <2>2, <2>3 DEF SinglyLinked
<1>8. Acyclic(m1)
  <2> SUFFICES ASSUME NEW S \in SUBSET PCB, S # {}
               PROVE  /\ \E x \in S : m1.next[x] \notin S
                      /\ \E x \in S : \A y \in S : m1.next[y] # x
    BY DEF Acyclic
  <2> DEFINE T == S \ {p}
  <2>1. CASE T = {}
    <3>1. S = {p}
      BY <2>1
    <3> QED
      BY <3>1, <1>2, <1>3
  <2>2. CASE T # {}
    <3>1. T \in SUBSET PCB /\ p \notin T
      OBVIOUS
    <3>2. PICK a \in T : m.next[a] \notin T
      BY <2>2, <3>1 DEF WellLinked, Acyclic
    <3>3. m1.next[a] \notin S
      BY <3>1, <3>2, <1>3
    <3>4. PICK b \in T : \A y \in T : m.next[y] # b
      BY <2>2, <3>1 DEF WellLinked, Acyclic
    <3>5. \E x \in S : \A y \in S : m1.next[y] # x
      <4>1. CASE p \in S
        BY <4>1, <1>2, <1>3
      <4>2. CASE p \notin S
        BY <4>2, <3>4, <1>3
      <4> QED
        BY <4>1, <4>2
    <3> QED
      BY <3>3, <3>5
  <2> QED
    BY <2>1, <2>2
<1> QED
  BY <1>1, <1>6, <1>7, <1>8 DEF WellLinked

(* The first node of q is taken off.                                       *)
LEMMA UnlinkFirst ==
  ASSUME NEW m, NEW lab, WellLinked(m, lab),
         NEW q \in Queue, NEW p \in PCB, m.head[q] = p,
         NEW m1 \in Memory, m1.head = [m.head EXCEPT ![q] = m.next[p]],
         m1.next = [m.next EXCEPT ![p] = NULL]
  PROVE  WellLinked(m1, [lab EXCEPT ![p] = Unlisted])
<1> DEFINE lab1 == [lab EXCEPT ![p] = Unlisted]
<1> USE WellLinkedTypes
<1>1. lab1 \in Labelling
  BY DEF Labelling
<1>2. lab[p] = q /\ \A x \in PCB : m.next[x] # p
  BY DEF WellLinked, Labelled, SinglyLinked
<1>3. m1.next[p] = NULL /\ \A x \in PCB \ {p} : m1.next[x] = m.next[x]
  OBVIOUS
<1>4. lab1[p] = Unlisted /\ \A x \in PCB \ {p} : lab1[x] = lab[x]
  BY DEF Labelling
<1>5. m1.head[q] = m.next[p] /\ \A r \in Queue \ {q} : m1.head[r] = m.head[r]
  OBVIOUS
<1>6. Labelled(m1, lab1)
  <2>1. ASSUME NEW r \in Queue, m1.head[r] # NULL PROVE lab1[m1.head[r]] = r
    <3>1. CASE r = q
      BY <3>1, <2>1, <1>2, <1>4, <1>5 DEF WellLinked, Labelled
    <3>2. CASE r # q
      BY <3>2, <2>1, <1>2, <1>4, <1>5 DEF WellLinked, Labelled
    <3> QED
      BY <3>1, <3>2
  <2>2. ASSUME NEW x \in PCB, m1.next[x] # NULL
        PROVE  lab1[x] # Unlisted /\ lab1[m1.next[x]] = lab1[x]
    BY <2>2, <1>2, <1>3, <1>4 DEF WellLinked, Labelled
  <2> QED
    BY <2>1, <2>2 DEF Labelled
<1>7. SinglyLinked(m1, lab1)
  <2>1. ASSUME NEW x \in PCB, NEW y \in PCB,
               m1.next[x] # NULL, m1.next[x] = m1.next[y]
        PROVE  x = y
    BY <2>1, <1>3 DEF WellLinked, SinglyLinked
  <2>2. ASSUME NEW x \in PCB, NEW r \in Queue, m1.next[x] # NULL
        PROVE  m1.next[x] # m1.head[r]
    BY <2>2, <1>3, <1>5 DEF WellLinked, SinglyLinked
  <2>3. ASSUME NEW x \in PCB, lab1[x] # Unlisted
        PROVE  m1.head[lab1[x]] = x \/ \E y \in PCB : m1.next[y] = x
    <3>1. x # p /\ lab1[x] = lab[x]
      BY <2>3, <1>4
    <3>2. CASE m.head[lab[x]] = x
      <4>1. lab[x] # q
        BY <3>1, <3>2
      <4> QED
        BY <2>3, <3>1, <3>2, <4>1, <1>5
    <3>3. CASE m.head[lab[x]] # x
      <4>1. PICK y \in PCB : m.next[y] = x
        BY <2>3, <3>1, <3>3 DEF WellLinked, SinglyLinked
      <4>2. CASE y = p
        <5>1. lab[x] = q
          BY <4>1, <4>2, <1>2 DEF WellLinked, Labelled
        <5> QED
          BY <4>1, <4>2, <5>1, <3>1, <1>5
      <4>3. CASE y # p
        BY <4>1, <4>3, <1>3
      <4> QED
        BY <4>2, <4>3
    <3> QED
      BY <3>2, <3>3
  <2> QED
    BY <2>1, <2>2, <2>3 DEF SinglyLinked
<1>8. Acyclic(m1)
  <2> SUFFICES ASSUME NEW S \in SUBSET PCB, S # {}
               PROVE  /\ \E x \in S : m1.next[x] \notin S
                      /\ \E x \in S : \A y \in S : m1.next[y] # x
    BY DEF Acyclic
  <2>1. PICK a \in S : m.next[a] \notin S
    BY DEF WellLinked, Acyclic
  <2>2. PICK b \in S : \A y \in S : m.next[y] # b
    BY DEF WellLinked, Acyclic
  <2>3. m1.next[a] \notin S
    BY <2>1, <1>3
  <2>4. \A y \in S : m1.next[y] # b
    BY <2>2, <1>3
  <2> QED
    BY <2>3, <2>4
<1> QED
  BY <1>1, <1>6, <1>7, <1>8 DEF WellLinked

(* The node behind t is taken off.                                         *)
LEMMA UnlinkBehind ==
  ASSUME NEW m, NEW lab, WellLinked(m, lab),
         NEW t \in PCB, NEW p \in PCB, m.next[t] = p,
         NEW m1 \in Memory, m1.head = m.head,
         m1.next = [m.next EXCEPT ![t] = m.next[p], ![p] = NULL]
  PROVE  WellLinked(m1, [lab EXCEPT ![p] = Unlisted])
<1> DEFINE lab1 == [lab EXCEPT ![p] = Unlisted]
<1> USE WellLinkedTypes
<1>1. lab1 \in Labelling
  BY DEF Labelling
<1>2. /\ lab[t] # Unlisted /\ lab[p] = lab[t]
      /\ \A q \in Queue : m.head[q] # p
      /\ \A x \in PCB : m.next[x] = p => x = t
  BY DEF WellLinked, Labelled, SinglyLinked
<1>3. t # p
  <2> DEFINE S == {p}
  <2>1. S \in SUBSET PCB /\ S # {}
    OBVIOUS
  <2>2. \E x \in S : m.next[x] \notin S
    <3> HIDE DEF S
    <3> QED
      BY <2>1 DEF WellLinked, Acyclic
  <2> QED
    BY <2>2
<1>4. /\ m1.next[t] = m.next[p] /\ m1.next[p] = NULL
      /\ \A x \in PCB \ {t, p} : m1.next[x] = m.next[x]
  BY <1>3
<1>5. lab1[p] = Unlisted /\ \A x \in PCB \ {p} : lab1[x] = lab[x]
  BY DEF Labelling
<1>6. Labelled(m1, lab1)
  <2>1. ASSUME NEW r \in Queue, m1.head[r] # NULL PROVE lab1[m1.head[r]] = r
    BY <2>1, <1>2, <1>5 DEF WellLinked, Labelled
  <2>2. ASSUME NEW x \in PCB, m1.next[x] # NULL
        PROVE  lab1[x] # Unlisted /\ lab1[m1.next[x]] = lab1[x]
    <3>1. x # p /\ m1.next[x] # p
      BY <2>2, <1>2, <1>3, <1>4
    <3>2. CASE x = t
      BY <3>1, <3>2, <2>2, <1>2, <1>4, <1>5 DEF WellLinked, Labelled
    <3>3. CASE x # t
      BY <3>1, <3>3, <2>2, <1>4, <1>5 DEF WellLinked, Labelled
    <3> QED
      BY <3>2, <3>3
  <2> QED
    BY <2>1, <2>2 DEF Labelled
<1>7. SinglyLinked(m1, lab1)
  <2>1. ASSUME NEW x \in PCB, NEW y \in PCB,
               m1.next[x] # NULL, m1.next[x] = m1.next[y]
        PROVE  x = y
    BY <2>1, <1>2, <1>3, <1>4 DEF WellLinked, SinglyLinked
  <2>2. ASSUME NEW x \in PCB, NEW r \in Queue, m1.next[x] # NULL
        PROVE  m1.next[x] # m1.head[r]
    BY <2>2, <1>3, <1>4 DEF WellLinked, SinglyLinked
  <2>3. ASSUME NEW x \in PCB, lab1[x] # Unlisted
        PROVE  m1.head[lab1[x]] = x \/ \E y \in PCB : m1.next[y] = x
    <3>1. x # p /\ lab1[x] = lab[x]
      BY <2>3, <1>5
    <3>2. CASE m.head[lab[x]] = x
      BY <3>1, <3>2
    <3>3. CASE m.head[lab[x]] # x
      <4>1. PICK y \in PCB : m.next[y] = x
        BY <2>3, <3>1, <3>3 DEF WellLinked, SinglyLinked
      <4>2. y # t
        BY <4>1, <3>1
      <4>3. CASE y = p
        BY <4>1, <4>3, <1>4
      <4>4. CASE y # p
        BY <4>1, <4>2, <4>4, <1>4
      <4> QED
        BY <4>3, <4>4
    <3> QED
      BY <3>2, <3>3
  <2> QED
    BY <2>1, <2>2, <2>3 DEF SinglyLinked
<1>8. Acyclic(m1)
  <2> SUFFICES ASSUME NEW S \in SUBSET PCB, S # {}
               PROVE  /\ \E x \in S : m1.next[x] \notin S
                      /\ \E x \in S : \A y \in S : m1.next[y] # x
    BY DEF Acyclic
  <2>1. \E x \in S : m1.next[x] \notin S
    <3>1. CASE p \in S
      BY <3>1, <1>4
    <3>2. CASE p \notin S /\ t \notin S
      <4>1. PICK a \in S : m.next[a] \notin S
        BY DEF WellLinked, Acyclic
      <4> QED
        BY <4>1, <3>2, <1>4
    <3>3. CASE p \notin S /\ t \in S
      <4> DEFINE T == S \cup {p}
      <4>1. PICK a \in T : m.next[a] \notin T
        <5>1. T \in SUBSET PCB /\ T # {}
          OBVIOUS
        <5> HIDE DEF T
        <5> QED
          BY <5>1 DEF WellLinked, Acyclic
      <4>2. a # t
        BY <4>1
      <4>3. CASE a = p
        BY <4>1, <4>3, <3>3, <1>4
      <4>4. CASE a # p
        BY <4>1, <4>2, <4>4, <1>4
      <4> QED
        BY <4>3, <4>4
    <3> QED
      BY <3>1, <3>2, <3>3
  <2>2. \E x \in S : \A y \in S : m1.next[y] # x
    <3>1. CASE p \in S
      <4>1. \A y \in S : m1.next[y] # p
        BY <1>2, <1>3, <1>4 DEF WellLinked, SinglyLinked
      <4> QED
        BY <3>1, <4>1
    <3>2. CASE p \notin S /\ t \notin S
      <4>1. PICK b \in S : \A y \in S : m.next[y] # b
        BY DEF WellLinked, Acyclic
      <4> QED
        BY <4>1, <3>2, <1>4
    <3>3. CASE p \notin S /\ t \in S
      <4> DEFINE T == S \cup {p}
      <4>1. PICK b \in T : \A y \in T : m.next[y] # b
        <5>1. T \in SUBSET PCB /\ T # {}
          OBVIOUS
        <5> HIDE DEF T
        <5> QED
          BY <5>1 DEF WellLinked, Acyclic
      <4>2. b # p
        BY <4>1, <3>3
      <4>3. ASSUME NEW y \in S PROVE m1.next[y] # b
        <5>1. CASE y = t
          BY <4>1, <5>1, <1>4
        <5>2. CASE y # t
          BY <4>1, <5>2, <3>3, <1>4
        <5> QED
          BY <5>1, <5>2
      <4> QED
        BY <4>2, <4>3
    <3> QED
      BY <3>1, <3>2, <3>3
  <2> QED
    BY <2>1, <2>2
<1> QED
  BY <1>1, <1>6, <1>7, <1>8 DEF WellLinked

(* Nothing happened to queue r.                                            *)
SameQueue(r, m, lab, m1, lab1) ==
  /\ m1.head[r] = m.head[r]
  /\ \A x \in PCB : /\ lab1[x] = r <=> lab[x] = r
                    /\ lab[x] = r => m1.next[x] = m.next[x]

(* Nothing happened to the queues other than q.                            *)
SameOthers(q, m, lab, m1, lab1) ==
  \A r \in Queue \ {q} : SameQueue(r, m, lab, m1, lab1)

(* addToQueue puts p on q and nothing else; it makes no process blocked    *)
(* unless q is the blocked queue.                                          *)
LEMMA AddToQueue ==
  ASSUME NEW m, NEW lab, WellLinked(m, lab), NEW q \in Queue,
         NEW p \in PCB, lab[p] = Unlisted, m.head[q] = NULL \/ p # Idle
  PROVE  LET m1 == addToQueue(m, q, p)
             lab1 == [lab EXCEPT ![p] = q]
         IN  /\ WellLinked(m1, lab1)
             /\ \A x \in PCB \ {p} : m1.state[x] = m.state[x]
             /\ q # blocked_queue => m1.state[p] \in {m.state[p], "READY"}
             /\ m1.state[p] \in {m.state[p], "READY", "BLOCKED"}
             /\ SameOthers(q, m, lab, m1, lab1)
<1> DEFINE m1 == addToQueue(m, q, p)
           lab1 == [lab EXCEPT ![p] = q]
           t == LastOf(m, q)
<1> USE WellLinkedTypes, UnlistedIsFree
<1>1. lab1[p] = q /\ \A x \in PCB \ {p} : lab1[x] = lab[x]
  BY DEF Labelling
<1>2. CASE m.head[q] = NULL
  <2>1. /\ m1.head = [m.head EXCEPT ![q] = p]
        /\ m1.next = m.next
        /\ m1.state = m.state
    BY <1>2 DEF addToQueue
  <2>2. m1 = [head |-> m1.head, next |-> m1.next, state |-> m1.state]
    BY <1>2 DEF addToQueue
  <2>3. m1 \in Memory
    BY <2>1, <2>2 DEF Memory
  <2>4. WellLinked(m1, lab1)
    <3> HIDE DEF m1
    <3> QED
      BY <1>2, <2>1, <2>3, FirstNode
  <2>5. SameOthers(q, m, lab, m1, lab1)
    <3> HIDE DEF m1, lab1
    <3> QED
      BY <1>1, <2>1 DEF SameOthers, SameQueue
  <2> QED
    BY <2>1, <2>4, <2>5
<1>3. CASE m.head[q] # NULL
  <2>1. t \in PCB /\ lab[t] = q /\ m.next[t] = NULL /\ t # p
    BY <1>3, LastOfQueue
  <2>2. /\ m1.head = m.head
        /\ m1.next = [m.next EXCEPT ![t] = p, ![p] = NULL]
        /\ m1.state = [m.state EXCEPT ![p] = StateOnAdd(m, q, p)]
    BY <1>3 DEF addToQueue
  <2>3. m1 = [head |-> m1.head, next |-> m1.next, state |-> m1.state]
    BY <1>3 DEF addToQueue
  <2>4. StateOnAdd(m, q, p) \in {m.state[p], "READY", "BLOCKED"}
    BY DEF StateOnAdd
  <2>5. q # blocked_queue => StateOnAdd(m, q, p) \in {m.state[p], "READY"}
    <3> SUFFICES ASSUME q # blocked_queue PROVE m.head[q] # m.head[blocked_queue]
      BY DEF StateOnAdd
    <3>1. blocked_queue \in Queue
      BY SizeAssumption DEF blocked_queue, Queue
    <3> QED
      BY <1>3, <3>1 DEF WellLinked, Labelled
  <2>6. m1 \in Memory
    <3> HIDE DEF m1, t
    <3>1. StateOnAdd(m, q, p) \in Process_state
      BY <2>4 DEF Process_state
    <3> QED
      BY <2>2, <2>3, <3>1 DEF Memory
  <2>7. WellLinked(m1, lab1)
    <3> HIDE DEF m1, t
    <3> QED
      BY <2>1, <2>2, <2>6, LinkBehind
  <2>8. SameOthers(q, m, lab, m1, lab1)
    <3> HIDE DEF m1, lab1, t
    <3> QED
      BY <1>1, <2>1, <2>2 DEF SameOthers, SameQueue
  <2>9. m1.state[p] = StateOnAdd(m, q, p) /\ \A x \in PCB \ {p} : m1.state[x] = m.state[x]
    BY <2>2
  <2> HIDE DEF m1, lab1, t
  <2>11. q # blocked_queue => m1.state[p] \in {m.state[p], "READY"}
    BY <2>5, <2>9
  <2>12. m1.state[p] \in {m.state[p], "READY", "BLOCKED"}
    BY <2>4, <2>9
  <2> QED
    BY <2>7, <2>8, <2>9, <2>11, <2>12 DEF m1, lab1
<1> QED
  BY <1>2, <1>3

(* removeFirst takes the first PCB off a queue that is not empty.          *)
LEMMA RemoveFirst ==
  ASSUME NEW m, NEW lab, WellLinked(m, lab), NEW q \in Queue, m.head[q] # NULL
  PROVE  LET m1 == removeFirst(m, q)
             p == m.head[q]
             lab1 == [lab EXCEPT ![p] = Unlisted]
         IN  /\ p \in PCB /\ lab[p] = q
             /\ WellLinked(m1, lab1) /\ m1.state = m.state
             /\ SameOthers(q, m, lab, m1, lab1)
<1> DEFINE m1 == removeFirst(m, q)
           p == m.head[q]
           lab1 == [lab EXCEPT ![p] = Unlisted]
<1> USE WellLinkedTypes
<1>1. p \in PCB /\ lab[p] = q
  BY DEF WellLinked, Labelled
<1>2. lab1[p] = Unlisted /\ \A x \in PCB \ {p} : lab1[x] = lab[x]
  BY <1>1 DEF Labelling
<1>3. /\ m1.head = [m.head EXCEPT ![q] = m.next[p]]
      /\ m1.next = [m.next EXCEPT ![p] = NULL]
      /\ m1.state = m.state
  BY DEF removeFirst
<1>4. m1 = [head |-> m1.head, next |-> m1.next, state |-> m1.state]
  BY DEF removeFirst
<1> HIDE DEF m1, p, lab1
<1>5. p = m.head[q] /\ lab1 = [lab EXCEPT ![p] = Unlisted]
  BY DEF p, lab1
<1>6. m1 \in Memory
  BY <1>1, <1>3, <1>4 DEF Memory
<1>7. WellLinked(m1, lab1)
  BY <1>1, <1>3, <1>5, <1>6, UnlinkFirst
<1>8. SameOthers(q, m, lab, m1, lab1)
  BY <1>1, <1>2, <1>3 DEF SameOthers, SameQueue
<1> QED
  BY <1>1, <1>3, <1>7, <1>8 DEF m1, p, lab1

(* removeFromQueue takes p off q if it is on it.                           *)
LEMMA RemoveFromQueue ==
  ASSUME NEW m, NEW lab, WellLinked(m, lab), NEW q \in Queue,
         NEW p \in PCB, IsRemovable(m, q, p)
  PROVE  LET m1 == removeFromQueue(m, q, p)
             lab1 == [lab EXCEPT ![p] = Unlisted]
         IN  /\ lab[p] = q
             /\ WellLinked(m1, lab1) /\ m1.state = m.state
             /\ SameOthers(q, m, lab, m1, lab1)
<1> DEFINE m1 == removeFromQueue(m, q, p)
           lab1 == [lab EXCEPT ![p] = Unlisted]
           t == PrevOf(m, q, p)
<1> USE WellLinkedTypes
<1>1. lab[p] = q
  BY ChainIsClass DEF IsRemovable
<1>2. CASE m.head[q] = p
  <2>1. m1 = removeFirst(m, q) /\ m.head[q] # NULL
    BY <1>2 DEF removeFromQueue, PCB, NULL
  <2>2. LET m2 == removeFirst(m, q)
        IN  /\ WellLinked(m2, [lab EXCEPT ![p] = Unlisted]) /\ m2.state = m.state
            /\ SameOthers(q, m, lab, m2, [lab EXCEPT ![p] = Unlisted])
    BY <1>2, <2>1, RemoveFirst, Zenon
  <2> HIDE DEF m1
  <2> QED
    BY <1>1, <2>1, <2>2 DEF m1
<1>3. CASE m.head[q] # p
  <2>1. t \in PCB /\ lab[t] = q /\ m.next[t] = p
    BY <1>1, <1>3, PrevOfNode
  <2>2. lab1[p] = Unlisted /\ \A x \in PCB \ {p} : lab1[x] = lab[x]
    BY DEF Labelling
  <2>3. /\ m1.head = m.head
        /\ m1.next = [m.next EXCEPT ![t] = m.next[p], ![p] = NULL]
        /\ m1.state = m.state
    BY <1>3 DEF removeFromQueue
  <2>4. m1 = [head |-> m1.head, next |-> m1.next, state |-> m1.state]
    BY <1>3 DEF removeFromQueue
  <2> HIDE DEF m1, lab1, t
  <2>5. lab1 = [lab EXCEPT ![p] = Unlisted]
    BY DEF lab1
  <2>6. m1 \in Memory
    BY <2>1, <2>3, <2>4 DEF Memory
  <2>7. WellLinked(m1, lab1)
    BY <2>1, <2>3, <2>5, <2>6, UnlinkBehind
  <2>8. SameOthers(q, m, lab, m1, lab1)
    BY <1>1, <2>1, <2>2, <2>3 DEF SameOthers, SameQueue
  <2> QED
    BY <1>1, <2>3, <2>7, <2>8 DEF m1, lab1
<1> QED
  BY <1>2, <1>3

---------------------------------------------------------------------------
(* Types: what holds of the operators on any queue memory, well linked or  *)
(* not.                                                                    *)

(* addToQueue writes the state of p only, and only to READY or BLOCKED.    *)
LEMMA AddToQueueType ==
  ASSUME NEW m \in Memory, NEW q \in Queue, NEW p \in PCB
  PROVE  /\ addToQueue(m, q, p) \in Memory
         /\ \A x \in PCB \ {p} : addToQueue(m, q, p).state[x] = m.state[x]
         /\ addToQueue(m, q, p).state[p] \in {m.state[p], "READY", "BLOCKED"}
<1>1. /\ m.head \in [Queue -> PCB \cup {NULL}]
      /\ m.next \in [PCB -> PCB \cup {NULL}]
      /\ m.state \in [PCB -> Process_state]
  BY DEF Memory
<1>2. StateOnAdd(m, q, p) \in {m.state[p], "READY", "BLOCKED"}
  BY DEF StateOnAdd
<1>3. StateOnAdd(m, q, p) \in Process_state
  BY <1>1, <1>2 DEF Process_state
<1>4. CASE m.head[q] = NULL
  BY <1>1, <1>4 DEF addToQueue, Memory
<1>5. CASE m.head[q] # NULL /\ p = Idle
  BY <1>5 DEF addToQueue
<1>6. CASE m.head[q] # NULL /\ p # Idle
  <2>1. addToQueue(m, q, p) =
          [ head  |-> m.head,
            next  |-> [m.next EXCEPT ![LastOf(m, q)] = p, ![p] = NULL],
            state |-> [m.state EXCEPT ![p] = StateOnAdd(m, q, p)] ]
    BY <1>6 DEF addToQueue
  <2> QED
    BY <1>1, <1>2, <1>3, <2>1 DEF Memory
<1> QED
  BY <1>4, <1>5, <1>6

LEMMA RemoveFirstType ==
  ASSUME NEW m \in Memory, NEW q \in Queue, m.head[q] # NULL
  PROVE  /\ removeFirst(m, q) \in Memory
         /\ removeFirst(m, q).state = m.state
         /\ m.head[q] \in PCB
BY DEF removeFirst, Memory

LEMMA RemoveFromQueueType ==
  ASSUME NEW m \in Memory, NEW q \in Queue, NEW p \in PCB
  PROVE  /\ removeFromQueue(m, q, p) \in Memory
         /\ removeFromQueue(m, q, p).state = m.state
<1>1. CASE ~ IsRemovable(m, q, p)
  BY <1>1 DEF removeFromQueue
<1>2. CASE IsRemovable(m, q, p) /\ m.head[q] = p
  <2>1. m.head[q] # NULL
    BY <1>2 DEF PCB, NULL
  <2> QED
    BY <1>2, <2>1, RemoveFirstType DEF removeFromQueue
<1>3. CASE IsRemovable(m, q, p) /\ m.head[q] # p
  <2>1. removeFromQueue(m, q, p) =
          [ head  |-> m.head,
            next  |-> [m.next EXCEPT ![PrevOf(m, q, p)] = m.next[p], ![p] = NULL],
            state |-> m.state ]
    BY <1>3 DEF removeFromQueue
  <2> QED
    BY <2>1 DEF Memory
<1> QED
  BY <1>1, <1>2, <1>3

(* The walk of sleep finds a first sleeper with more ticks left, if there  *)
(* is one at all.                                                          *)
LEMMA FirstLaterFound ==
  ASSUME NEW m \in Memory, NEW ticks, NEW p,
         LaterSleepers(m, ticks, p) # {}
  PROVE  /\ FirstLater(m, ticks, p) \in LaterSleepers(m, ticks, p)
         /\ LaterSleepers(m, ticks, p) \subseteq Reach(m.next, FirstLater(m, ticks, p))
<1> DEFINE L == LaterSleepers(m, ticks, p)
           h == m.head[sleep_queue]
           T == {y \in Reach(m.next, h) : L \subseteq Reach(m.next, y)}
<1>1. m.next \in [PCB -> PCB \cup {NULL}]
  BY DEF Memory
<1>2. h \in PCB /\ L \subseteq Reach(m.next, h) /\ L \subseteq PCB
  BY SizeAssumption DEF LaterSleepers, Chain, Memory, Reach, sleep_queue, Queue
<1>3. \E x \in L : L \subseteq Reach(m.next, x)
  <2> SUFFICES ASSUME \A x \in L : ~ (L \subseteq Reach(m.next, x)) PROVE FALSE
    OBVIOUS
  <2>1. T \in SUBSET PCB /\ h \in T
    BY <1>2, ReachRoot DEF Reach
  <2>2. ASSUME NEW y \in T PROVE m.next[y] \in T \cup {NULL}
    <3>1. y \in PCB /\ y \notin L
      BY <2>1
    <3>2. \A z \in L : m.next[y] # NULL /\ z \in Reach(m.next, m.next[y])
      <4>1. TAKE z \in L
      <4>2. z \in Reach(m.next, y) /\ z # y
        BY <3>1
      <4> QED
        BY <1>1, <3>1, <4>2, ReachStep
    <3>3. CASE m.next[y] # NULL
      <4>1. m.next[y] \in Reach(m.next, h)
        BY <1>1, <3>3, ReachClosed
      <4> QED
        BY <3>2, <4>1
    <3> QED
      BY <3>3
  <2>3. Reach(m.next, h) \subseteq T
    <3> HIDE DEF T, h
    <3> QED
      BY <1>1, <2>1, <2>2, ReachLeast
  <2>4. L \subseteq T
    BY <1>2, <2>3
  <2> QED
    BY <2>4
<1> HIDE DEF h, T
<1> QED
  BY <1>3 DEF FirstLater

LEMMA SleepInsertType ==
  ASSUME NEW m \in Memory, NEW ticks, NEW p \in PCB
  PROVE  /\ sleepInsert(m, ticks, p) \in Memory
         /\ sleepInsert(m, ticks, p).state = m.state
<1> DEFINE it == FirstLater(m, ticks, p)
<1>1. sleep_queue \in Queue
  BY SizeAssumption DEF sleep_queue, Queue
<1>2. CASE m.head[sleep_queue] = NULL
  BY <1>1, <1>2 DEF sleepInsert, Memory
<1>3. CASE m.head[sleep_queue] # NULL /\ LaterSleepers(m, ticks, p) = {}
  <2>1. sleepInsert(m, ticks, p) =
          [ head  |-> m.head,
            next  |-> [m.next EXCEPT ![LastOf(m, sleep_queue)] = p, ![p] = NULL],
            state |-> m.state ]
    BY <1>3 DEF sleepInsert
  <2> QED
    BY <2>1 DEF Memory
<1>4. CASE m.head[sleep_queue] # NULL /\ LaterSleepers(m, ticks, p) # {}
  <2>1. it \in PCB
    BY <1>4, FirstLaterFound DEF LaterSleepers, Chain, Reach
  <2>2. sleepInsert(m, ticks, p) = insertBefore(m, p, it)
    BY <1>4 DEF sleepInsert
  <2> HIDE DEF it
  <2>3. CASE it = m.head[sleep_queue]
    BY <1>1, <2>1, <2>2, <2>3 DEF insertBefore, Memory
  <2>4. CASE it # m.head[sleep_queue]
    <3>1. insertBefore(m, p, it) =
            [ head  |-> m.head,
              next  |-> [m.next EXCEPT ![PrevOf(m, sleep_queue, it)] = p, ![p] = it],
              state |-> m.state ]
      BY <2>4 DEF insertBefore
    <3> QED
      BY <2>1, <2>2, <3>1 DEF Memory
  <2> QED
    BY <2>3, <2>4
<1> QED
  BY <1>2, <1>3, <1>4
(* No sleeper has more ticks left than the one behind it.                  *)
Sorted(m, lab, ticks) ==
  \A x \in PCB : lab[x] = sleep_queue /\ m.next[x] # NULL => ticks[x] <= ticks[m.next[x]]

(* The node in front of it cannot be reached from it.                      *)
LEMMA NotBehindItself ==
  ASSUME NEW m, NEW lab, WellLinked(m, lab),
         NEW it \in PCB, NEW y \in PCB, m.next[y] = it
  PROVE  y \notin Reach(m.next, it)
<1> SUFFICES ASSUME y \in Reach(m.next, it) PROVE FALSE
  OBVIOUS
<1> DEFINE R == Reach(m.next, it)
<1>1. R \in SUBSET PCB /\ it \in R
  BY ReachRoot DEF Reach
<1>2. PICK x \in R : \A z \in R : m.next[z] # x
  <2> HIDE DEF R
  <2> QED
    BY <1>1 DEF WellLinked, Acyclic
<1>3. x # it
  BY <1>2
<1>4. \E z \in R : m.next[z] = x
  BY <1>3, WellLinkedTypes, ReachPrev
<1> QED
  BY <1>2, <1>4

(* sleepInsert puts p on the sleep queue and keeps it sorted.              *)
LEMMA SleepInsert ==
  ASSUME NEW m, NEW lab, WellLinked(m, lab), NEW p \in PCB, lab[p] = Unlisted,
         NEW ticks \in [PCB -> Int], Sorted(m, lab, ticks)
  PROVE  LET m1 == sleepInsert(m, ticks, p)
             lab1 == [lab EXCEPT ![p] = sleep_queue]
         IN  /\ WellLinked(m1, lab1) /\ Sorted(m1, lab1, ticks)
             /\ m1.state = m.state
             /\ SameOthers(sleep_queue, m, lab, m1, lab1)
<1> DEFINE m1 == sleepInsert(m, ticks, p)
           lab1 == [lab EXCEPT ![p] = sleep_queue]
           L == LaterSleepers(m, ticks, p)
<1> USE WellLinkedTypes, UnlistedIsFree
<1>1. sleep_queue \in Queue /\ sleep_queue # Unlisted
  BY SizeAssumption DEF sleep_queue, Queue, Unlisted
<1>2. lab1[p] = sleep_queue /\ \A x \in PCB \ {p} : lab1[x] = lab[x]
  BY DEF Labelling
<1>3. L = {x \in PCB : lab[x] = sleep_queue /\ ticks[p] < ticks[x]}
  BY <1>1, ChainIsClass DEF LaterSleepers
<1>4. m1 \in Memory /\ m1.state = m.state
  BY SleepInsertType DEF WellLinked
<1>5. CASE m.head[sleep_queue] = NULL
  <2>1. /\ m1.head = [m.head EXCEPT ![sleep_queue] = p]
        /\ m1.next = m.next
    BY <1>5 DEF sleepInsert
  <2>2. WellLinked(m1, lab1)
    <3> HIDE DEF m1
    <3> QED
      BY <1>1, <1>4, <1>5, <2>1, FirstNode
  <2>3. \A x \in PCB : lab[x] # sleep_queue
    <3>1. Chain(m, sleep_queue) = {}
      BY <1>5 DEF Chain
    <3> QED
      BY <3>1, <1>1, ChainIsClass
  <2>4. Sorted(m1, lab1, ticks) /\ SameOthers(sleep_queue, m, lab, m1, lab1)
    <3> HIDE DEF m1, lab1
    <3> QED
      BY <1>2, <2>1, <2>3 DEF Sorted, SameOthers, SameQueue
  <2> QED
    BY <1>4, <2>2, <2>4
<1>6. CASE m.head[sleep_queue] # NULL /\ L = {}
  <2> DEFINE t == LastOf(m, sleep_queue)
  <2>1. t \in PCB /\ lab[t] = sleep_queue /\ m.next[t] = NULL /\ t # p
    BY <1>1, <1>6, LastOfQueue
  <2>2. /\ m1.head = m.head
        /\ m1.next = [m.next EXCEPT ![t] = p, ![p] = NULL]
    BY <1>6 DEF sleepInsert
  <2>3. ticks[t] <= ticks[p]
    BY <2>1, <1>3, <1>6
  <2> HIDE DEF m1, lab1, t, L
  <2>4. WellLinked(m1, lab1)
    BY <1>1, <1>4, <2>1, <2>2, LinkBehind DEF lab1
  <2>5. Sorted(m1, lab1, ticks)
    BY <1>2, <2>1, <2>2, <2>3 DEF Sorted
  <2>6. SameOthers(sleep_queue, m, lab, m1, lab1)
    BY <1>2, <2>1, <2>2 DEF SameOthers, SameQueue
  <2> QED
    BY <1>4, <2>4, <2>5, <2>6 DEF m1, lab1
<1>7. CASE m.head[sleep_queue] # NULL /\ L # {}
  <2> DEFINE it == FirstLater(m, ticks, p)
             y == PrevOf(m, sleep_queue, it)
  <2>1. it \in L /\ L \subseteq Reach(m.next, it)
    BY <1>7, FirstLaterFound DEF WellLinked
  <2>2. it \in PCB /\ lab[it] = sleep_queue /\ ticks[p] < ticks[it]
    BY <2>1, <1>3
  <2>3. m1 = insertBefore(m, p, it)
    BY <1>7 DEF sleepInsert
  <2> HIDE DEF it, L
  <2>4. CASE it = m.head[sleep_queue]
    <3>1. /\ m1.head = [m.head EXCEPT ![sleep_queue] = p]
          /\ m1.next = [m.next EXCEPT ![p] = it]
      BY <2>3, <2>4 DEF insertBefore
    <3> HIDE DEF m1, lab1
    <3>2. WellLinked(m1, lab1)
      BY <1>1, <1>4, <1>7, <2>4, <3>1, LinkFirst DEF lab1
    <3>3. Sorted(m1, lab1, ticks)
      BY <1>2, <2>2, <3>1 DEF Sorted
    <3>4. SameOthers(sleep_queue, m, lab, m1, lab1)
      BY <1>2, <3>1 DEF SameOthers, SameQueue
    <3> QED
      BY <1>4, <3>2, <3>3, <3>4 DEF m1, lab1
  <2>5. CASE it # m.head[sleep_queue]
    <3>1. y \in PCB /\ lab[y] = sleep_queue /\ m.next[y] = it /\ y # p
      BY <1>1, <2>2, <2>5, PrevOfNode
    <3>2. /\ m1.head = m.head
          /\ m1.next = [m.next EXCEPT ![y] = p, ![p] = it]
      BY <2>3, <2>5 DEF insertBefore
    <3> HIDE DEF m1, lab1, y
    <3>3. y \notin Reach(m.next, it)
      BY <2>2, <3>1, NotBehindItself
    <3>4. ticks[y] <= ticks[p]
      BY <1>3, <2>1, <3>1, <3>3
    <3>5. WellLinked(m1, lab1)
      BY <1>1, <1>4, <3>1, <3>2, LinkBehind DEF lab1
    <3>6. Sorted(m1, lab1, ticks)
      BY <1>2, <2>2, <3>1, <3>2, <3>4 DEF Sorted
    <3>7. SameOthers(sleep_queue, m, lab, m1, lab1)
      BY <1>2, <3>1, <3>2 DEF SameOthers, SameQueue
    <3> QED
      BY <1>4, <3>5, <3>6, <3>7 DEF m1, lab1
  <2> QED
    BY <2>4, <2>5
<1> QED
  BY <1>5, <1>6, <1>7

---------------------------------------------------------------------------
(* Queues as sequences.                                                    *)

(* Read from its head on, queue q is s.                                    *)
Spells(m, lab, q, s) ==
  /\ s \in Seq(PCB)
  /\ \A p \in PCB : lab[p] = q <=> \E i \in 1 .. Len(s) : s[i] = p
  /\ \A i, j \in 1 .. Len(s) : s[i] = s[j] => i = j
  /\ Len(s) = 0 => m.head[q] = NULL
  /\ Len(s) > 0 => m.head[q] = s[1] /\ m.next[s[Len(s)]] = NULL
  /\ \A i \in 1 .. Len(s) - 1 : m.next[s[i]] = s[i + 1]

LEMMA SpelledSame ==
  ASSUME NEW m, NEW lab, NEW q, NEW s, Spells(m, lab, q, s),
         NEW m1, NEW lab1, SameQueue(q, m, lab, m1, lab1)
  PROVE  Spells(m1, lab1, q, s)
<1>1. \A i \in 1 .. Len(s) : s[i] \in PCB /\ lab[s[i]] = q
  BY DEF Spells
<1>2. \A i \in 1 .. Len(s) : m1.next[s[i]] = m.next[s[i]]
  BY <1>1 DEF SameQueue
<1>3. Len(s) \in Nat
  BY DEF Spells
<1> QED
  BY <1>1, <1>2, <1>3 DEF Spells, SameQueue

(* addToQueue puts p at the end.                                           *)
LEMMA SpelledAdded ==
  ASSUME NEW m, NEW lab, WellLinked(m, lab), NEW q \in Queue, NEW s, Spells(m, lab, q, s),
         NEW p \in PCB, lab[p] = Unlisted, m.head[q] = NULL \/ p # Idle,
         NEW lab1, lab1[p] = q, \A x \in PCB \ {p} : lab1[x] = lab[x],
         NEW m1, m1 = addToQueue(m, q, p)
  PROVE  Spells(m1, lab1, q, Append(s, p))
<1> DEFINE s1 == Append(s, p)
           n  == Len(s)
<1> USE WellLinkedTypes, UnlistedIsFree
<1>1. s \in Seq(PCB) /\ n \in Nat /\ \A i \in 1 .. n : s[i] \in PCB /\ lab[s[i]] = q
  BY DEF Spells
<1>2. /\ s1 \in Seq(PCB) /\ Len(s1) = n + 1 /\ s1[n + 1] = p
      /\ \A i \in 1 .. n : s1[i] = s[i]
  BY <1>1
<1>3. \A i \in 1 .. n : s[i] # p
  BY <1>1
<1> HIDE DEF s1
<1>4. \A x \in PCB : lab1[x] = q <=> \E i \in 1 .. n + 1 : s1[i] = x
  <2> SUFFICES ASSUME NEW x \in PCB
               PROVE  lab1[x] = q <=> \E i \in 1 .. n + 1 : s1[i] = x
    OBVIOUS
  <2>1. CASE x = p
    BY <1>1, <1>2, <2>1
  <2>2. CASE x # p
    <3>1. lab1[x] = q <=> \E i \in 1 .. n : s[i] = x
      BY <2>2 DEF Spells
    <3>2. (\E i \in 1 .. n : s[i] = x) <=> \E i \in 1 .. n + 1 : s1[i] = x
      BY <1>1, <1>2, <2>2
    <3> QED
      BY <3>1, <3>2
  <2> QED
    BY <2>1, <2>2
<1>5. \A i, j \in 1 .. n + 1 : s1[i] = s1[j] => i = j
  <2>1. \A i, j \in 1 .. n : s[i] = s[j] => i = j
    BY DEF Spells
  <2> QED
    BY <1>1, <1>2, <1>3, <2>1
<1>6. CASE m.head[q] = NULL
  <2>1. n = 0
    BY <1>1, <1>6 DEF Spells
  <2>2. m1.head[q] = p /\ m1.next[p] = NULL
    BY <1>6 DEF addToQueue
  <2> QED
    BY <1>2, <1>4, <1>5, <2>1, <2>2 DEF Spells
<1>7. CASE m.head[q] # NULL
  <2>1. n > 0 /\ m.head[q] = s[1] /\ m.next[s[n]] = NULL
    BY <1>1, <1>7 DEF Spells
  <2>2. PICK t : t = LastOf(m, q)
    OBVIOUS
  <2>3. t \in PCB /\ lab[t] = q /\ m.next[t] = NULL
    BY <1>7, <2>2, LastOfQueue
  <2>4. t = s[n]
    <3>1. PICK i \in 1 .. n : s[i] = t
      BY <2>3 DEF Spells
    <3>2. i < n => m.next[s[i]] = s[i + 1] /\ s[i + 1] \in PCB
      BY <1>1, <3>1 DEF Spells
    <3> QED
      BY <1>1, <2>3, <3>1, <3>2
  <2>5. /\ m1.head = m.head
        /\ m1.next = [m.next EXCEPT ![t] = p, ![p] = NULL]
    BY <1>7, <2>2 DEF addToQueue
  <2>6. m1.next[p] = NULL /\ m1.next[s[n]] = p
    BY <1>1, <1>3, <2>1, <2>4, <2>5
  <2>7. \A i \in 1 .. n - 1 : m1.next[s[i]] = s[i + 1]
    <3> TAKE i \in 1 .. n - 1
    <3>1. s[i] # s[n] /\ s[i] # p /\ s[i] \in PCB
      BY <1>1, <1>3, <2>1 DEF Spells
    <3> QED
      BY <1>1, <2>4, <2>5, <3>1 DEF Spells
  <2>8. \A i \in 1 .. n : m1.next[s1[i]] = s1[i + 1]
    BY <1>1, <1>2, <2>6, <2>7
  <2>9. m1.head[q] = s1[1] /\ m1.next[s1[Len(s1)]] = NULL /\ Len(s1) - 1 = n
    BY <1>1, <1>2, <2>1, <2>5, <2>6
  <2> QED
    BY <1>1, <1>2, <1>4, <1>5, <2>8, <2>9 DEF Spells
<1> QED
  BY <1>6, <1>7 DEF s1

(* removeFirst takes the first one off.                                    *)
LEMMA SpelledFirst ==
  ASSUME NEW m, NEW lab, WellLinked(m, lab), NEW q \in Queue, NEW s, Spells(m, lab, q, s),
         m.head[q] # NULL, NEW p, p = m.head[q],
         NEW lab1, lab1[p] = Unlisted, \A x \in PCB \ {p} : lab1[x] = lab[x],
         NEW m1, m1 = removeFirst(m, q)
  PROVE  s # <<>> /\ Head(s) = p /\ Spells(m1, lab1, q, Tail(s))
<1> DEFINE s1 == Tail(s)
           n  == Len(s)
<1> USE WellLinkedTypes
<1>1. /\ s \in Seq(PCB) /\ n \in Nat /\ n > 0 /\ p = s[1] /\ p \in PCB
      /\ \A i \in 1 .. n : s[i] \in PCB
  BY DEF Spells
<1>2. /\ s1 \in Seq(PCB) /\ Len(s1) = n - 1 /\ s # <<>> /\ Head(s) = p
      /\ \A i \in 1 .. n - 1 : s1[i] = s[i + 1]
  BY <1>1
<1> HIDE DEF s1
<1>3. \A i \in 2 .. n : s[i] # p
  BY <1>1 DEF Spells
<1>4. \A x \in PCB : lab1[x] = q <=> \E i \in 1 .. n - 1 : s1[i] = x
  <2> SUFFICES ASSUME NEW x \in PCB
               PROVE  lab1[x] = q <=> \E i \in 1 .. n - 1 : s1[i] = x
    OBVIOUS
  <2>1. CASE x = p
    BY <1>1, <1>2, <1>3, <2>1
  <2>2. CASE x # p
    <3>1. lab1[x] = q <=> \E i \in 1 .. n : s[i] = x
      BY <2>2 DEF Spells
    <3>2. ASSUME NEW i \in 1 .. n, s[i] = x PROVE \E j \in 1 .. n - 1 : s1[j] = x
      <4>1. i # 1 /\ i - 1 \in 1 .. n - 1 /\ s1[i - 1] = x
        BY <1>1, <1>2, <2>2, <3>2
      <4> QED
        BY <4>1
    <3>3. ASSUME NEW j \in 1 .. n - 1, s1[j] = x PROVE \E i \in 1 .. n : s[i] = x
      <4>1. j + 1 \in 1 .. n /\ s[j + 1] = x
        BY <1>1, <1>2, <3>3
      <4> QED
        BY <4>1
    <3> QED
      BY <3>1, <3>2, <3>3
  <2> QED
    BY <2>1, <2>2
<1>5. \A i, j \in 1 .. n - 1 : s1[i] = s1[j] => i = j
  <2> SUFFICES ASSUME NEW i \in 1 .. n - 1, NEW j \in 1 .. n - 1, s1[i] = s1[j] PROVE i = j
    OBVIOUS
  <2>1. i + 1 \in 1 .. n /\ j + 1 \in 1 .. n /\ s[i + 1] = s[j + 1]
    BY <1>1, <1>2
  <2>2. i + 1 = j + 1
    BY <2>1 DEF Spells
  <2> QED
    BY <2>2
<1>6. /\ m1.head[q] = m.next[p]
      /\ \A x \in PCB \ {p} : m1.next[x] = m.next[x]
  BY <1>1 DEF removeFirst
<1>7. n = 1 => m1.head[q] = NULL
  BY <1>1, <1>6 DEF Spells
<1>8. n > 1 => m1.head[q] = s1[1] /\ m1.next[s1[n - 1]] = NULL
  <2> SUFFICES ASSUME n > 1 PROVE m1.head[q] = s1[1] /\ m1.next[s1[n - 1]] = NULL
    OBVIOUS
  <2>1. s1[1] = s[2] /\ s1[n - 1] = s[n] /\ s[n] # p /\ s[n] \in PCB
    BY <1>1, <1>2, <1>3
  <2>2. m.next[s[1]] = s[2] /\ m.next[s[n]] = NULL
    BY <1>1 DEF Spells
  <2> QED
    BY <1>1, <1>6, <2>1, <2>2
<1>9. \A i \in 1 .. n - 2 : m1.next[s1[i]] = s1[i + 1]
  <2> SUFFICES ASSUME NEW i \in 1 .. n - 2 PROVE m1.next[s1[i]] = s1[i + 1]
    OBVIOUS
  <2>1. s1[i] = s[i + 1] /\ s1[i + 1] = s[i + 2] /\ s[i + 1] # p /\ s[i + 1] \in PCB
    BY <1>1, <1>2, <1>3
  <2>2. m.next[s[i + 1]] = s[i + 2]
    BY <1>1 DEF Spells
  <2> QED
    BY <1>6, <2>1, <2>2
<1> QED
  BY <1>1, <1>2, <1>4, <1>5, <1>7, <1>8, <1>9 DEF Spells, s1
===========================================================================
