-------------------------- MODULE SchedulerProofs --------------------------
(***************************************************************************)
(* The kernel is a round robin scheduler, proved for every number of       *)
(* processes and ports.                                                    *)
(*                                                                         *)
(* PlaceProofs follows the ready queue through every step as a sequence s  *)
(* (Spells, Turns).  Here s is shown to be the abstract queue of           *)
(* KernelScheduler, which counts how many nodes reach a node to know its   *)
(* place, and each way in which a step moves s is shown to be an action of *)
(* Scheduler.                                                              *)
(*                                                                         *)
(*   KernelIsRoundRobin  the refinement of Scheduler;                      *)
(*   ReadyQueueKept      who keeps the processor takes nobody off the      *)
(*                       ready queue.                                      *)
(***************************************************************************)
EXTENDS KernelScheduler, PlaceProofs

---------------------------------------------------------------------------
(* The sequence of a linked queue.                                         *)

(* From the i-th node exactly the nodes from i on are reached.             *)
LEMMA ReachedFrom ==
  ASSUME NEW m, NEW lab, WellLinked(m, lab), NEW q \in Queue, NEW s, Spells(m, lab, q, s),
         NEW i \in 1 .. Len(s), NEW j \in 1 .. Len(s)
  PROVE  s[j] \in Reach(m.next, s[i]) <=> i <= j
<1> DEFINE R == Reach(m.next, s[i])
           n == Len(s)
<1>1. n \in Nat /\ \A k \in 1 .. n : s[k] \in PCB
  BY DEF Spells
<1>2. \A k, l \in 1 .. n : s[k] = s[l] => k = l
  BY DEF Spells
<1>3. /\ \A k \in 1 .. n - 1 : m.next[s[k]] = s[k + 1]
      /\ m.next[s[n]] = NULL
  BY <1>1 DEF Spells
<1>4. m.next \in [PCB -> PCB \cup {NULL}] /\ NULL \notin PCB
  BY WellLinkedTypes DEF Memory
<1>5. ASSUME s[j] \in R PROVE i <= j
  <2> DEFINE S == {s[k] : k \in i .. n}
  <2>1. S \in SUBSET PCB /\ s[i] \in S
    BY <1>1
  <2>2. ASSUME NEW x \in S PROVE m.next[x] \in S \cup {NULL}
    <3>1. PICK k \in i .. n : x = s[k]
      OBVIOUS
    <3>2. CASE k = n
      BY <1>3, <3>1, <3>2
    <3>3. CASE k # n
      <4>1. k + 1 \in i .. n /\ k \in 1 .. n - 1
        BY <1>1, <3>3
      <4> QED
        BY <1>3, <3>1, <4>1
    <3> QED
      BY <3>2, <3>3
  <2>3. R \subseteq S
    BY <2>1, <2>2, ReachLeast
  <2>4. PICK k \in i .. n : s[j] = s[k]
    BY <1>5, <2>3
  <2>5. k \in 1 .. n
    BY <1>1
  <2> QED
    BY <1>2, <2>4, <2>5
<1>6. ASSUME i <= j PROVE s[j] \in R
  <2> DEFINE T == {k \in i .. n : s[k] \notin R}
  <2> SUFFICES ASSUME T # {} PROVE FALSE
    BY <1>1, <1>6
  <2>1. T \in SUBSET Nat
    BY <1>1
  <2>2. PICK k : k = MinOf(T)
    OBVIOUS
  <2>3. k \in T /\ \A y \in T : k <= y
    BY <2>1, <2>2, MinExists
  <2>4. k # i
    BY <1>1, <2>3, ReachRoot
  <2>5. k - 1 \in i .. n /\ k - 1 \in 1 .. n - 1 /\ ~ (k <= k - 1)
    BY <1>1, <2>3, <2>4
  <2>6. s[k - 1] \in R
    BY <2>3, <2>5
  <2>7. m.next[s[k - 1]] = s[k]
    <3>1. m.next[s[k - 1]] = s[(k - 1) + 1]
      BY <1>3, <2>5
    <3> QED
      BY <3>1, <2>3, <1>1
  <2>8. s[k] # NULL
    BY <1>1, <1>4, <2>3
  <2>9. s[k] \in R
    BY <1>1, <1>4, <2>6, <2>7, <2>8, ReachClosed
  <2> QED
    BY <2>3, <2>9
<1> QED
  BY <1>5, <1>6

(* So many nodes of a sequence without repetition stand up to its j-th.    *)
LEMMA UpTo ==
  ASSUME NEW s, NEW j \in Nat, \A k, l \in 1 .. j : s[k] = s[l] => k = l,
         NEW T, \A x : x \in T <=> \E k \in 1 .. j : x = s[k]
  PROVE  Cardinality(T) = j
<1> DEFINE f == [k \in 1 .. j |-> s[k]]
<1>1. f \in Bijection(1 .. j, T)
  BY DEF Bijection, Injection, Surjection, IsInjective
<1>2. ExistsBijection(1 .. j, T)
  BY <1>1 DEF ExistsBijection
<1>3. IsFiniteSet(1 .. j) /\ Cardinality(1 .. j) = j
  BY FS_Interval
<1>4. IsFiniteSet(T) /\ Cardinality(T) = Cardinality(1 .. j)
  BY <1>2, <1>3, FS_Bijection
<1> QED
  BY <1>3, <1>4

(* The j-th node is reached by j nodes of the queue.                       *)
LEMMA PlaceOf ==
  ASSUME NEW m, NEW lab, WellLinked(m, lab), NEW q \in Queue, NEW s, Spells(m, lab, q, s)
  PROVE  /\ Chain(m, q) = {s[i] : i \in 1 .. Len(s)}
         /\ Cardinality(Chain(m, q)) = Len(s)
         /\ \A j \in 1 .. Len(s) :
              Cardinality({x \in Chain(m, q) : s[j] \in Reach(m.next, x)}) = j
<1>1. Len(s) \in Nat /\ \A k, l \in 1 .. Len(s) : s[k] = s[l] => k = l
  BY DEF Spells
<1>2. Chain(m, q) = {s[i] : i \in 1 .. Len(s)}
  <2>1. \A x : x \in Chain(m, q) <=> x \in PCB /\ lab[x] = q
    BY ChainIsClass
  <2>2. \A i \in 1 .. Len(s) : s[i] \in PCB
    BY DEF Spells
  <2> QED
    BY <2>1, <2>2 DEF Spells
<1>3. Cardinality(Chain(m, q)) = Len(s)
  <2>1. \A x : x \in Chain(m, q) <=> \E i \in 1 .. Len(s) : x = s[i]
    BY <1>2
  <2> QED
    BY <1>1, <2>1, UpTo
<1>4. ASSUME NEW j \in 1 .. Len(s)
      PROVE  Cardinality({x \in Chain(m, q) : s[j] \in Reach(m.next, x)}) = j
  <2> DEFINE T == {x \in Chain(m, q) : s[j] \in Reach(m.next, x)}
  <2>1. \A x : x \in T <=> \E i \in 1 .. j : x = s[i]
    <3>1. \A i \in 1 .. Len(s) : s[j] \in Reach(m.next, s[i]) <=> i <= j
      BY ReachedFrom
    <3>2. \A i \in 1 .. j : i \in 1 .. Len(s) /\ i <= j
      BY <1>1
    <3>3. \A i \in 1 .. Len(s) : i <= j => i \in 1 .. j
      BY <1>1
    <3> QED
      BY <1>2, <3>1, <3>2, <3>3
  <2>2. j \in Nat /\ \A k, l \in 1 .. j : s[k] = s[l] => k = l
    BY <1>1
  <2> HIDE DEF T
  <2>3. Cardinality(T) = j
    BY <2>1, <2>2, UpTo
  <2> QED
    BY <2>3 DEF T
<1> QED
  BY <1>2, <1>3, <1>4


(* The abstract queue of KernelScheduler is the sequence that the ready    *)
(* queue spells.                                                           *)
SpelledIsReady ==
  \A lab, s : Placed(lab) /\ Spells(M, lab, ready_queue, s) =>
     /\ QueueSeq(ready_queue) = s
     /\ \A p \in PCB : On(p, ready_queue) <=> lab[p] = ready_queue

LEMMA ReadyIsSpelled == SpelledIsReady
<1> SUFFICES ASSUME NEW lab, NEW s, Placed(lab), Spells(M, lab, ready_queue, s)
             PROVE  /\ QueueSeq(ready_queue) = s
                    /\ \A p \in PCB : On(p, ready_queue) <=> lab[p] = ready_queue
  BY DEF SpelledIsReady
<1> DEFINE C == Chain(M, ready_queue)
           n == Len(s)
<1>1. WellLinked(M, lab) /\ M.next = next /\ ready_queue \in Queue
  BY QueueNames DEF Placed, M
<1>2. /\ C = {s[i] : i \in 1 .. n} /\ Cardinality(C) = n
      /\ \A j \in 1 .. n : Cardinality({x \in C : s[j] \in Reach(next, x)}) = j
  BY <1>1, PlaceOf
<1>3. \A j \in 1 .. n : PlaceIn(ready_queue, s[j]) = j
  BY <1>2 DEF PlaceIn
<1>4. \A i \in 1 .. n : (CHOOSE p \in C : PlaceIn(ready_queue, p) = i) = s[i]
  <2> TAKE i \in 1 .. n
  <2>1. s[i] \in C /\ PlaceIn(ready_queue, s[i]) = i
    BY <1>2, <1>3
  <2>2. ASSUME NEW p \in C, PlaceIn(ready_queue, p) = i PROVE p = s[i]
    <3>1. PICK k \in 1 .. n : p = s[k]
      BY <1>2
    <3> HIDE DEF n, C
    <3>2. k = i
      BY <1>3, <2>2, <3>1
    <3> QED
      BY <3>1, <3>2
  <2> HIDE DEF C
  <2> QED
    BY <2>1, <2>2
<1>5. s = [i \in 1 .. n |-> s[i]]
  BY DEF Spells
<1>6. QueueSeq(ready_queue) = s
  <2>1. QueueSeq(ready_queue) = [i \in 1 .. Cardinality(C) |->
                                   CHOOSE p \in C : PlaceIn(ready_queue, p) = i]
    BY DEF QueueSeq
  <2> HIDE DEF C, n
  <2>2. QueueSeq(ready_queue) = [i \in 1 .. n |-> s[i]]
    BY <1>2, <1>4, <2>1
  <2> QED
    BY <1>5, <2>2
<1>7. \A p \in PCB : On(p, ready_queue) <=> lab[p] = ready_queue
  BY <1>1, ChainIsClass DEF On
<1> QED
  BY <1>6, <1>7

LEMMA ReadyIsSpelledNext == SpelledIsReady'
BY ReadyIsSpelled, PTL

---------------------------------------------------------------------------
(* Steps.                                                                  *)

(* The queue memory is that of PlaceProofs, and the ready queue is s.      *)
Ordered(lab, s) == PlaceInv(lab) /\ Spells(M, lab, ready_queue, s)

(* The abstract state, in terms of lab and s.                              *)
Abstraction ==
  \A lab, s : Ordered(lab, s) =>
     /\ QueueSeq(ready_queue) = s /\ s \in Seq(PCB)
     /\ \A p : p \in Parked <=> /\ p \in PCB /\ Live(p) /\ p # process /\ p # Idle
                                /\ lab[p] # ready_queue
     /\ Live(Idle) /\ lab[Idle] = Unlisted /\ (process \in PCB => lab[process] = Unlisted)
     /\ \A p \in PCB : lab[p] = ready_queue => Live(p)
     /\ \A p \in PCB : lab[p] = ready_queue <=> \E i \in 1 .. Len(s) : s[i] = p
     /\ \A i, j \in 1 .. Len(s) : s[i] = s[j] => i = j

LEMMA AbstractState == Abstraction
<1> SUFFICES ASSUME NEW lab, NEW s, Ordered(lab, s)
             PROVE  /\ QueueSeq(ready_queue) = s /\ s \in Seq(PCB)
                    /\ \A p : p \in Parked <=> /\ p \in PCB /\ Live(p) /\ p # process
                                               /\ p # Idle /\ lab[p] # ready_queue
                    /\ Live(Idle) /\ lab[Idle] = Unlisted
                    /\ (process \in PCB => lab[process] = Unlisted)
                    /\ \A p \in PCB : lab[p] = ready_queue => Live(p)
                    /\ \A p \in PCB : lab[p] = ready_queue <=> \E i \in 1 .. Len(s) : s[i] = p
                    /\ \A i, j \in 1 .. Len(s) : s[i] = s[j] => i = j
  BY DEF Abstraction
<1>1. Placed(lab) /\ Spells(M, lab, ready_queue, s) /\ Live(Idle) /\ ready_queue # Unlisted
  BY DEF Ordered, PlaceInv, Dispatching, ready_queue, Unlisted
<1>2. /\ QueueSeq(ready_queue) = s
      /\ \A p \in PCB : On(p, ready_queue) <=> lab[p] = ready_queue
  BY <1>1, ReadyIsSpelled DEF SpelledIsReady
<1>3. \A p : p \in Parked <=> /\ p \in PCB /\ Live(p) /\ p # process /\ p # Idle
                              /\ lab[p] # ready_queue
  BY <1>2 DEF Parked
<1>4. \A p \in PCB : lab[p] = Unlisted <=> Unqueued(p)
  BY <1>1 DEF Placed
<1>5. Idle \in PCB
  BY ConstantTypes
<1> QED
  BY <1>1, <1>2, <1>3, <1>4, <1>5 DEF Unqueued, Spells

LEMMA AbstractStateNext == Abstraction'
BY AbstractState, PTL

(* The processor goes to the front of the ready queue s.                   *)
LEMMA FrontRuns ==
  ASSUME TypeOK, TypeOK', NEW lab, NEW s, Ordered(lab, s), NEW lab1, NEW s1, Ordered(lab1, s1)',
         pid' = pid, Takes(s, s1)
  PROVE  /\ Running' = process'
         /\ \A p \in PCB : lab1[p] = ready_queue <=> lab[p] = ready_queue /\ p # process'
         /\ process' = Idle \/ lab[process'] = ready_queue
<1>1. /\ s \in Seq(PCB) /\ Live(Idle)
      /\ \A p \in PCB : lab[p] = ready_queue => Live(p)
      /\ \A p \in PCB : lab[p] = ready_queue <=> \E i \in 1 .. Len(s) : s[i] = p
      /\ \A i, j \in 1 .. Len(s) : s[i] = s[j] => i = j
      /\ lab[Idle] = Unlisted
  BY AbstractState DEF Abstraction
<1>2. \A p \in PCB : lab1[p] = ready_queue <=> \E i \in 1 .. Len(s1) : s1[i] = p
  BY AbstractStateNext DEF Abstraction
<1>3. \A p : Live(p)' <=> Live(p)
  BY DEF Live
<1>4. CASE s = <<>>
  <2>1. process' = Idle /\ s1 = <<>>
    BY <1>4 DEF Takes
  <2>2. \A p \in PCB : lab[p] # ready_queue /\ lab1[p] # ready_queue
    BY <1>1, <1>2, <1>4, <2>1
  <2>3. Running' = process'
    BY <1>1, <1>3, <2>1 DEF Running
  <2> QED
    BY <2>1, <2>2, <2>3
<1>5. CASE s # <<>>
  <2> DEFINE n == Len(s)
  <2>1. n \in Nat /\ n > 0 /\ process' = s[1] /\ s1 = Tail(s) /\ s[1] \in PCB
    BY <1>1, <1>5 DEF Takes
  <2>2. Len(s1) = n - 1 /\ \A i \in 1 .. n - 1 : s1[i] = s[i + 1]
    BY <1>1, <1>5, <2>1
  <2>3. lab[process'] = ready_queue
    BY <1>1, <2>1
  <2>4. Running' = process'
    <3>1. Live(process')
      BY <1>1, <2>1, <2>3
    <3> QED
      BY <1>3, <3>1 DEF Running
  <2>5. ASSUME NEW p \in PCB, lab1[p] = ready_queue PROVE lab[p] = ready_queue /\ p # process'
    <3>1. PICK i \in 1 .. n - 1 : s1[i] = p
      BY <1>2, <2>2, <2>5
    <3>2. i + 1 \in 1 .. n /\ 1 \in 1 .. n /\ i + 1 # 1 /\ s[i + 1] = p
      BY <2>1, <2>2, <3>1
    <3> QED
      BY <1>1, <2>1, <3>2
  <2>6. ASSUME NEW p \in PCB, lab[p] = ready_queue, p # process' PROVE lab1[p] = ready_queue
    <3>1. PICK i \in 1 .. n : s[i] = p
      BY <1>1, <2>6
    <3>2. i - 1 \in 1 .. n - 1 /\ s1[i - 1] = p
      BY <2>1, <2>2, <2>6, <3>1
    <3> QED
      BY <1>2, <2>2, <3>2
  <2> QED
    BY <2>3, <2>4, <2>5, <2>6
<1> QED
  BY <1>4, <1>5

(* Each of the moves of PlaceProofs is an action of the round robin.       *)
LEMMA MovesAreTurns ==
  ASSUME TypeOK, TypeOK', NEW lab, NEW s, Ordered(lab, s), NEW lab1, NEW s1, Ordered(lab1, s1)',
         Moves(s, s1)
  PROVE  [Abstract!Next]_(Abstract!vars)
<1>1. /\ QueueSeq(ready_queue) = s /\ s \in Seq(PCB)
      /\ \A p : p \in Parked <=> /\ p \in PCB /\ Live(p) /\ p # process /\ p # Idle
                                 /\ lab[p] # ready_queue
      /\ Live(Idle) /\ lab[Idle] = Unlisted /\ (process \in PCB => lab[process] = Unlisted)
      /\ \A p \in PCB : lab[p] = ready_queue => Live(p)
      /\ \A p \in PCB : lab[p] = ready_queue <=> \E i \in 1 .. Len(s) : s[i] = p
      /\ \A i, j \in 1 .. Len(s) : s[i] = s[j] => i = j
  BY AbstractState DEF Abstraction
<1>2. /\ QueueSeq(ready_queue)' = s1 /\ s1 \in Seq(PCB)
      /\ \A p : p \in Parked' <=> /\ p \in PCB /\ Live(p)' /\ p # process' /\ p # Idle
                                  /\ lab1[p] # ready_queue
      /\ Live(Idle)' /\ lab1[Idle] = Unlisted /\ (process' \in PCB => lab1[process'] = Unlisted)
      /\ \A p \in PCB : lab1[p] = ready_queue => Live(p)'
      /\ \A p \in PCB : lab1[p] = ready_queue <=> \E i \in 1 .. Len(s1) : s1[i] = p
      /\ \A i, j \in 1 .. Len(s1) : s1[i] = s1[j] => i = j
  BY AbstractStateNext DEF Abstraction
<1>3. /\ process \in PCB /\ process' \in PCB /\ Idle \in PCB /\ NULL \notin PCB
      /\ ready_queue # Unlisted
  BY ConstantTypes DEF TypeOK, ready_queue, Unlisted
<1>4. CASE /\ process' = process /\ s1 = s /\ \A x \in PCB : Live(x)' => Live(x)
           /\ \A x \in PCB \ {process} : Live(x) => Live(x)'
  <2>1. Parked' = Parked
    <3>1. \A x \in PCB : lab1[x] = ready_queue <=> lab[x] = ready_queue
      BY <1>1, <1>2, <1>4
    <3>2. \A x \in PCB \ {process} : Live(x)' <=> Live(x)
      BY <1>4
    <3>3. \A x : x \in Parked' <=> x \in Parked
      BY <1>1, <1>2, <1>4, <3>1, <3>2
    <3> QED
      BY <3>3
  <2>2. CASE Live(process)' <=> Live(process)
    <3>1. Running' = Running
      BY <1>4, <2>2 DEF Running
    <3> QED
      BY <1>1, <1>2, <1>4, <2>1, <3>1 DEF Abstract!vars
  <2>3. CASE Live(process) /\ ~ Live(process)'
    <3>1. Running = process /\ Running' = NULL /\ process # Idle
      BY <1>2, <1>4, <2>3 DEF Running
    <3>2. Abstract!Exit
      BY <1>1, <1>2, <1>3, <1>4, <2>1, <3>1 DEF Abstract!Exit
    <3> QED
      BY <3>2 DEF Abstract!Next
  <2> QED
    BY <1>3, <1>4, <2>2, <2>3
<1>5. ASSUME process' = process, NEW p \in PCB, s1 = Append(s, p),
             \A x \in PCB \ {p} : Live(x)' <=> Live(x)
      PROVE  Abstract!Next
  <2>1. /\ Len(s1) = Len(s) + 1 /\ Len(s) \in Nat /\ s1[Len(s) + 1] = p
        /\ \A i \in 1 .. Len(s) : s1[i] = s[i]
    BY <1>1, <1>5
  <2>2. lab1[p] = ready_queue
    BY <1>2, <2>1
  <2>3. lab[p] # ready_queue
    <3> SUFFICES ASSUME NEW i \in 1 .. Len(s), s[i] = p PROVE FALSE
      BY <1>1
    <3>1. i \in 1 .. Len(s1) /\ Len(s) + 1 \in 1 .. Len(s1) /\ i # Len(s) + 1
      BY <2>1
    <3> QED
      BY <1>2, <2>1, <3>1
  <2>4. ASSUME NEW x \in PCB, x # p PROVE lab1[x] = ready_queue <=> lab[x] = ready_queue
    <3>1. (\E i \in 1 .. Len(s1) : s1[i] = x) <=> \E i \in 1 .. Len(s) : s[i] = x
      BY <2>1, <2>4
    <3> QED
      BY <1>1, <1>2, <3>1
  <2>5. p # process /\ p # Idle /\ Live(p)'
    BY <1>2, <1>3, <1>5, <2>2
  <2>6. Running' = Running
    BY <1>3, <1>5, <2>5 DEF Running
  <2>7. CASE Live(p)
    <3>1. p \in Parked
      BY <1>1, <2>3, <2>5, <2>7
    <3>2. \A x : x \in Parked' <=> x \in Parked \ {p}
      BY <1>1, <1>2, <1>5, <2>2, <2>4, <2>5, <2>7
    <3>3. Parked' = Parked \ {p}
      BY <3>2
    <3>4. Abstract!Wake(p)
      BY <1>1, <1>2, <1>5, <2>6, <3>1, <3>3 DEF Abstract!Wake
    <3> QED
      BY <3>4 DEF Abstract!Next
  <2>8. CASE ~ Live(p)
    <3>1. p \notin Abstract!Present
      <4>1. p # Running
        BY <1>3, <2>5 DEF Running
      <4>2. p \notin {s[i] : i \in 1 .. Len(s)}
        BY <1>1, <2>3
      <4> QED
        BY <1>1, <2>5, <2>8, <4>1, <4>2 DEF Abstract!Present
    <3>2. \A x : x \in Parked' <=> x \in Parked
      BY <1>1, <1>2, <1>5, <2>2, <2>4, <2>5, <2>8
    <3>3. Parked' = Parked
      BY <3>2
    <3>4. Abstract!Spawn(p)
      BY <1>1, <1>2, <1>5, <2>6, <3>1, <3>3 DEF Abstract!Spawn
    <3> QED
      BY <3>4 DEF Abstract!Next
  <2> QED
    BY <2>7, <2>8
<1>6. CASE pid' = pid /\ Takes(s, s1)
  <2>1. /\ Running' = process'
        /\ \A p \in PCB : lab1[p] = ready_queue <=> lab[p] = ready_queue /\ p # process'
        /\ process' = Idle \/ lab[process'] = ready_queue
    BY <1>6, FrontRuns
  <2>2. /\ Abstract!RunFrontOf(s)
        /\ \A p : Live(p)' <=> Live(p)
    BY <1>2, <1>6, <2>1 DEF Abstract!RunFrontOf, Takes, Live
  <2>3. process' = process => process = Idle
    BY <1>1, <1>3, <2>1
  <2>4. CASE ~ Live(process)
    <3>1. Running = NULL
      BY <2>4 DEF Running
    <3>2. \A x : x \in Parked' <=> x \in Parked
      BY <1>1, <1>2, <1>3, <2>1, <2>2, <2>4
    <3>3. Parked' = Parked
      BY <3>2
    <3>4. Abstract!Dispatch
      BY <1>1, <2>2, <3>1, <3>3 DEF Abstract!Dispatch
    <3> QED
      BY <3>4 DEF Abstract!Next
  <2>5. CASE Live(process) /\ process # Idle
    <3>1. Running = process
      BY <2>5 DEF Running
    <3>2. \A x : x \in Parked' <=> x \in Parked \cup {process}
      <4> TAKE x
      <4>1. CASE x = process
        BY <4>1, <1>1, <1>2, <1>3, <2>1, <2>2, <2>3, <2>5
      <4>2. CASE x # process
        BY <4>2, <1>1, <1>2, <1>3, <2>1, <2>2
      <4> QED
        BY <4>1, <4>2
    <3>3. Parked' = Parked \cup {process}
      BY <3>2
    <3>4. Abstract!Park
      BY <1>1, <1>3, <2>2, <2>5, <3>1, <3>3 DEF Abstract!Park
    <3> QED
      BY <3>4 DEF Abstract!Next
  <2>6. CASE process = Idle
    <3>1. Running = Idle
      BY <1>1, <2>6 DEF Running
    <3>2. \A x : x \in Parked' <=> x \in Parked
      BY <1>1, <1>2, <1>3, <2>1, <2>2, <2>6
    <3>3. Parked' = Parked
      BY <3>2
    <3>4. Abstract!Rotate
      BY <1>1, <1>3, <2>2, <3>1, <3>3 DEF Abstract!Rotate
    <3> QED
      BY <3>4 DEF Abstract!Next
  <2> QED
    BY <2>4, <2>5, <2>6
<1>7. CASE pid' = pid /\ process # Idle /\ Live(process) /\ Takes(Append(s, process), s1)
  <2> DEFINE q == Append(s, process)
  <2>1. q # <<>> /\ process' = Head(q) /\ s1 = Tail(q)
    BY <1>1, <1>7 DEF Takes
  <2>2. Running = process /\ Running \notin {NULL, Idle} /\ \A p : Live(p)' <=> Live(p)
    BY <1>3, <1>7 DEF Running, Live
  <2>3. /\ process' = process \/ lab[process'] = ready_queue
        /\ \A p \in PCB : lab1[p] = ready_queue <=>
                            (lab[p] = ready_queue \/ p = process) /\ p # process'
    <3> DEFINE n == Len(s)
    <3>1. /\ n \in Nat /\ Len(q) = n + 1 /\ q[n + 1] = process
          /\ \A i \in 1 .. n : q[i] = s[i]
      BY <1>1, <1>3
    <3>2. process' = q[1] /\ Len(s1) = n /\ \A i \in 1 .. n : s1[i] = q[i + 1]
      BY <1>1, <1>3, <2>1, <3>1
    <3>3. \A p \in PCB : (\E i \in 1 .. n + 1 : q[i] = p) <=> lab[p] = ready_queue \/ p = process
      BY <1>1, <3>1
    <3>4. \A i, j \in 1 .. n + 1 : q[i] = q[j] => i = j
      <4>1. \A i \in 1 .. n : q[i] # process
        BY <1>1, <1>3, <3>1
      <4> QED
        BY <1>1, <3>1, <4>1
    <3> HIDE DEF q, n
    <3>5. process' = process \/ lab[process'] = ready_queue
      BY <1>3, <3>1, <3>2, <3>3
    <3>6. ASSUME NEW p \in PCB, lab1[p] = ready_queue
          PROVE  (lab[p] = ready_queue \/ p = process) /\ p # process'
      <4>1. PICK i \in 1 .. n : s1[i] = p
        BY <1>2, <3>2, <3>6
      <4>2. i + 1 \in 1 .. n + 1 /\ 1 \in 1 .. n + 1 /\ i + 1 # 1 /\ q[i + 1] = p
        BY <3>1, <3>2, <4>1
      <4> QED
        BY <3>2, <3>3, <3>4, <4>2
    <3>7. ASSUME NEW p \in PCB, lab[p] = ready_queue \/ p = process, p # process'
          PROVE  lab1[p] = ready_queue
      <4>1. PICK i \in 1 .. n + 1 : q[i] = p
        BY <3>3, <3>7
      <4>2. i - 1 \in 1 .. n /\ s1[i - 1] = p
        BY <3>1, <3>2, <3>7, <4>1
      <4> QED
        BY <1>2, <3>2, <4>2
    <3> QED
      BY <3>5, <3>6, <3>7
  <2>4. Running' = process'
    BY <1>1, <1>3, <1>7, <2>2, <2>3 DEF Running
  <2>5. \A x : x \in Parked' <=> x \in Parked
    BY <1>1, <1>2, <1>3, <2>2, <2>3
  <2>6. Parked' = Parked
    BY <2>5
  <2> HIDE DEF q
  <2>7. Abstract!RunFrontOf(q)
    BY <1>2, <2>1, <2>4 DEF Abstract!RunFrontOf
  <2>8. Abstract!Rotate
    BY <1>1, <2>2, <2>6, <2>7 DEF Abstract!Rotate, q
  <2> QED
    BY <2>8 DEF Abstract!Next
<1> QED
  BY <1>4, <1>5, <1>6, <1>7 DEF Moves

(* Every step of the kernel keeps the ready queue a sequence, and moves it *)
(* as the round robin does.                                                *)
LEMMA StepTurns ==
  ASSUME TypeOK, UnblockedTargets, NEW lab, NEW s, Ordered(lab, s), [Next]_vars
  PROVE  \E lab1, s1 : Ordered(lab1, s1)' /\ Moves(s, s1)
<1>1. PlaceInv(lab) /\ Spells(M, lab, ready_queue, s)
  BY DEF Ordered
<1>2. \E lab1, W, N : PlaceInv(lab1)' /\ Meets(lab, lab1, W, N)
  BY <1>1, StepPlaces, ServePlaces
<1>3. PICK lab1 : PlaceInv(lab1)' /\ Turns(lab, lab1)
  BY <1>2 DEF Meets
<1>4. PICK s1 : Spells(M', lab1, ready_queue, s1) /\ Moves(s, s1)
  BY <1>1, <1>3 DEF Turns
<1> QED
  BY <1>3, <1>4 DEF Ordered

(* There always is such a sequence.                                        *)
InOrder == \E lab, s : Ordered(lab, s)

LEMMA OrderKept ==
  ASSUME UnblockedTargets
  PROVE  Spec => []InOrder
<1>1. Init => InOrder
  BY InitPlaces DEF InOrder, Ordered
<1>2. TypeOK /\ InOrder /\ [Next]_vars => InOrder'
  BY StepTurns DEF InOrder
<1> QED
  BY <1>1, <1>2, TypeCorrect, PTL DEF Spec

(* The kernel implements the round robin: processes get the processor in   *)
(* the order in which they became ready, nobody enters the ready queue but *)
(* at its end, leaves it but at its front, or is lost between the two      *)
(* (addToQueue, removeFirst, find_next_ready_process and their callers).   *)
THEOREM KernelIsRoundRobin ==
  ASSUME UnblockedTargets
  PROVE  Spec => RoundRobin
<1>1. Init => Abstract!Init
  <2> SUFFICES ASSUME Init PROVE Abstract!Init
    OBVIOUS
  <2>1. PICK lab : Ordered(lab, <<>>)
    BY InitPlaces DEF Ordered
  <2>2. /\ QueueSeq(ready_queue) = <<>>
        /\ \A p : p \in Parked <=> /\ p \in PCB /\ Live(p) /\ p # process /\ p # Idle
                                   /\ lab[p] # ready_queue
    BY <2>1, AbstractState DEF Abstraction
  <2>3. Running = Root /\ Parked = {}
    BY <2>2, PidIsNotFree, ConstantTypes DEF Init, Live, Running, Root, Idle
  <2> QED
    BY <2>2, <2>3 DEF Abstract!Init
<1>2. TypeOK /\ TypeOK' /\ InOrder /\ [Next]_vars => [Abstract!Next]_(Abstract!vars)
  <2> SUFFICES ASSUME TypeOK, TypeOK', NEW lab, NEW s, Ordered(lab, s), [Next]_vars
               PROVE  [Abstract!Next]_(Abstract!vars)
    BY DEF InOrder
  <2>1. PICK lab1, s1 : Ordered(lab1, s1)' /\ Moves(s, s1)
    BY StepTurns
  <2> QED
    BY <2>1, MovesAreTurns
<1> QED
  BY <1>1, <1>2, OrderKept, TypeCorrect, PTL DEF Spec, RoundRobin, Abstract!Spec

(* A call that does not give up the processor adds processes to the ready  *)
(* queue and takes none off it (addToQueue): what signal_ready refutes     *)
(* holds where no signal reaches a process whose state is BLOCKED.         *)
THEOREM ReadyQueueKept ==
  ASSUME UnblockedTargets
  PROVE  Spec => ReadyQueueGrows
<1> DEFINE Grows == /\ kpc = "user" /\ kpc' = "user" /\ process' = process
                    => \A p \in PCB : On(p, ready_queue) => On(p, ready_queue)'
<1>1. TypeOK /\ TypeOK' /\ InOrder /\ [Next]_vars => Grows
  <2> SUFFICES ASSUME TypeOK, NEW lab, NEW s, Ordered(lab, s), [Next]_vars, process' = process,
                      NEW p \in PCB, On(p, ready_queue)
               PROVE  On(p, ready_queue)'
    BY DEF InOrder
  <2>1. PICK lab1, s1 : Ordered(lab1, s1)' /\ Moves(s, s1)
    BY StepTurns
  <2>2. /\ s \in Seq(PCB) /\ s1 \in Seq(PCB) /\ process \in PCB
        /\ lab[process] # ready_queue
        /\ \A x \in PCB : lab[x] = ready_queue <=> \E i \in 1 .. Len(s) : s[i] = x
        /\ \A x \in PCB : lab1[x] = ready_queue <=> \E i \in 1 .. Len(s1) : s1[i] = x
    <3>1. process \in PCB /\ ready_queue # Unlisted
      BY DEF TypeOK, ready_queue, Unlisted
    <3>2. /\ s \in Seq(PCB) /\ (process \in PCB => lab[process] = Unlisted)
          /\ \A x \in PCB : lab[x] = ready_queue <=> \E i \in 1 .. Len(s) : s[i] = x
      BY AbstractState DEF Abstraction
    <3>3. /\ s1 \in Seq(PCB)
          /\ \A x \in PCB : lab1[x] = ready_queue <=> \E i \in 1 .. Len(s1) : s1[i] = x
      BY <2>1, AbstractStateNext DEF Abstraction
    <3> QED
      BY <3>1, <3>2, <3>3
  <2>3. lab[p] = ready_queue /\ (On(p, ready_queue)' <=> lab1[p] = ready_queue)
    BY <2>1, ReadyIsSpelled, ReadyIsSpelledNext DEF SpelledIsReady, Ordered, PlaceInv
  <2>4. PICK k \in 1 .. Len(s) : s[k] = p
    BY <2>2, <2>3
  <2>5. s # <<>> /\ Head(s) \in PCB /\ lab[Head(s)] = ready_queue /\ Head(s) # process
    BY <2>2, <2>4
  <2>6. ~ Takes(s, s1) /\ ~ Takes(Append(s, process), s1)
    <3>1. Append(s, process) # <<>> /\ Head(Append(s, process)) = Head(s)
      BY <2>2, <2>5
    <3> QED
      BY <2>5, <3>1 DEF Takes
  <2>7. s1 = s \/ \E x \in PCB : s1 = Append(s, x)
    BY <2>1, <2>6 DEF Moves
  <2>8. k \in 1 .. Len(s1) /\ s1[k] = p
    BY <2>2, <2>4, <2>7
  <2> QED
    BY <2>2, <2>3, <2>8
<1> QED
  BY <1>1, OrderKept, TypeCorrect, PTL DEF Spec, ReadyQueueGrows
===========================================================================
