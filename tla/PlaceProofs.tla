---------------------------- MODULE PlaceProofs ----------------------------
(***************************************************************************)
(* Where the processes are and when the sleepers wake, for every number of *)
(* processes and ports and for all arguments.                              *)
(*                                                                         *)
(*   PlaceStep          the inductive invariant holds of every state;      *)
(*   ProcessesPlaced    no process is lost, none is on two queues;         *)
(*   SleepersSorted     the sleep queue is sorted, as tick takes it to be; *)
(*   SleepersOnTime     a sleeper wakes by the interrupt it asked for.     *)
(*                                                                         *)
(* A signal to a process that the empty-queue case of addToQueue left      *)
(* BLOCKED on the ready queue puts it there a second time (the code bug of *)
(* SignalReady).  The theorems therefore take signals and blocking port    *)
(* calls apart: UnblockedTargets.                                          *)
(***************************************************************************)
EXTENDS KernelProofs

NoBlocking == {"SYS_SEND", "SYS_PORT_RECV"} \cap Calls = {}

NoKill == "SYS_KILL" \notin Calls

(* No signal is sent to a process whose state is BLOCKED.                  *)
UnblockedTargets == NoKill \/ NoBlocking

---------------------------------------------------------------------------
(* The inductive invariant.  lab says which queue each process is on.      *)

(* Exactly the processes that OnePlace lists as unqueued are on no queue.  *)
Placed(lab) ==
  /\ WellLinked(M, lab)
  /\ \A p \in PCB : lab[p] = Unlisted <=> Unqueued(p)

(* due was counted down by the timer interrupt; ticks is one behind it     *)
(* once tick has been at p.                                                *)
Swept(p) == ticks[p] < due[p]

Clocked(lab) ==
  /\ \A p \in PCB : lab[p] # sleep_queue => due[p] = 0
  /\ \A p \in PCB : lab[p] = sleep_queue =>
       /\ ticks[p] >= 0 /\ due[p] \in {ticks[p], ticks[p] + 1}
       /\ next[p] # NULL => due[p] <= due[next[p]]

(* tick sweeps the sleep queue from its head: the sleepers in front of     *)
(* iterator are swept, iterator and those behind it are not.               *)
Sweeping(lab) ==
  /\ kpc # "tick" => iterator = NULL
  /\ iterator # NULL => lab[iterator] = sleep_queue
  /\ head[sleep_queue] # NULL => (Swept(head[sleep_queue]) <=> head[sleep_queue] # iterator)
  /\ \A p \in PCB : lab[p] = sleep_queue /\ next[p] # NULL =>
       /\ Swept(next[p]) <=> Swept(p) /\ next[p] # iterator
       /\ next[p] = iterator => Swept(p)

(* The processor is with a live process, except while that ends.           *)
Dispatching ==
  /\ Live(Idle)
  /\ kpc # "unblock" => Live(process) /\ work = <<>>
  /\ Live(process) => state[process] = "RUNNING"

(* A closed port whose senders were not yet moved is still to be emptied.  *)
SendersHeld ==
  \A n \in Port : head[n] # NULL => inUse[n] \/ \E k \in 1 .. Len(work) : work[k] = n

(* No signal reaches the idle process, nor any whose state is BLOCKED.     *)
Signalled ==
  /\ sigTable[Idle] = {}
  /\ NoKill \/ \A p \in PCB : state[p] # "BLOCKED"

PlaceInv(lab) ==
  /\ Placed(lab) /\ Clocked(lab) /\ Sweeping(lab)
  /\ Dispatching /\ SendersHeld /\ Signalled

(* The front of s gets the processor, and s1 is the rest.                  *)
Takes(s, s1) ==
  IF s = <<>> THEN process' = Idle /\ s1 = <<>>
              ELSE process' = Head(s) /\ s1 = Tail(s)

(* What a step may do to the ready queue, a sequence s before it and s1    *)
(* behind it: a process that ends leaves it alone, one that becomes ready  *)
(* is put at its end, and one that gives up the processor hands it to the  *)
(* front.                                                                  *)
Moves(s, s1) ==
  \/ /\ process' = process /\ s1 = s /\ \A x \in PCB : Live(x)' => Live(x)
     /\ \A x \in PCB \ {process} : Live(x) => Live(x)'
  \/ /\ process' = process
     /\ \E p \in PCB : s1 = Append(s, p) /\ \A x \in PCB \ {p} : Live(x)' <=> Live(x)
  \/ pid' = pid /\ Takes(s, s1)
  \/ /\ pid' = pid /\ process # Idle /\ Live(process)
     /\ Takes(Append(s, process), s1)

Turns(lab, lab1) ==
  \A s : Spells(M, lab, ready_queue, s) =>
    \E s1 : Spells(M', lab1, ready_queue, s1) /\ Moves(s, s1)

(* Only processes of W join or leave the blocked queue in this step, only  *)
(* ports of N get a first sender, and the ready queue stays a queue.       *)
Meets(lab, lab1, W, N) ==
  /\ \A p \in PCB \ W : lab1[p] = blocked_queue <=> lab[p] = blocked_queue
  /\ \A n \in Port \ N : head[n] = NULL => head'[n] = NULL
  /\ Turns(lab, lab1)

(* Going from m to m1 does not touch the sleepers.                         *)
SameSleepers(m, lab, m1, lab1) == SameQueue(sleep_queue, m, lab, m1, lab1)

SameReady(m, lab, m1, lab1) == SameQueue(ready_queue, m, lab, m1, lab1)

---------------------------------------------------------------------------
(* Queue memories.                                                         *)

LEMMA QueueNames == ready_queue \in Queue /\ sleep_queue \in Queue /\ blocked_queue \in Queue
BY SizeAssumption DEF ready_queue, sleep_queue, blocked_queue, Queue

(* The state field is not part of the links.                               *)
LEMMA SameLinks ==
  ASSUME NEW m, NEW lab, WellLinked(m, lab),
         NEW m1 \in Memory, m1.head = m.head, m1.next = m.next
  PROVE  /\ WellLinked(m1, lab)
         /\ SameSleepers(m, lab, m1, lab) /\ SameReady(m, lab, m1, lab)
<1>1. Labelled(m1, lab)
  BY DEF WellLinked, Labelled
<1>2. SinglyLinked(m1, lab)
  BY DEF WellLinked, SinglyLinked
<1>3. Acyclic(m1)
  BY DEF WellLinked, Acyclic
<1> QED
  BY <1>1, <1>2, <1>3 DEF WellLinked, SameSleepers, SameReady, SameQueue

(* lab1 is lab with p moved to q.                                          *)
Relabels(lab, p, q, lab1) ==
  lab1 \in Labelling /\ lab1[p] = q /\ \A x \in PCB \ {p} : lab1[x] = lab[x]

LEMMA RelabelExists ==
  ASSUME NEW lab \in Labelling, NEW p \in PCB, NEW q \in Queue \cup {Unlisted}
  PROVE  \E lab1 : Relabels(lab, p, q, lab1)
<1> WITNESS [lab EXCEPT ![p] = q]
<1> QED
  BY DEF Relabels, Labelling

LEMMA RelabelIs ==
  ASSUME NEW lab \in Labelling, NEW p \in PCB, NEW q, NEW lab1, Relabels(lab, p, q, lab1)
  PROVE  lab1 = [lab EXCEPT ![p] = q]
BY DEF Labelling, Relabels

(* The queue operations, with names for what they return.                  *)
LEMMA FirstRemoved ==
  ASSUME NEW m, NEW lab, WellLinked(m, lab), NEW q \in Queue, q # sleep_queue,
         m.head[q] # NULL, NEW p, p = m.head[q],
         NEW m1, m1 = removeFirst(m, q),
         NEW lab1, Relabels(lab, p, Unlisted, lab1)
  PROVE  /\ p \in PCB /\ lab[p] = q
         /\ WellLinked(m1, lab1) /\ SameSleepers(m, lab, m1, lab1)
         /\ q # ready_queue => SameReady(m, lab, m1, lab1)
         /\ m1.state = m.state
         /\ \A r \in Queue \ {q} : m1.head[r] = m.head[r]
<1>1. /\ p \in PCB /\ lab[p] = q
      /\ WellLinked(m1, [lab EXCEPT ![p] = Unlisted])
      /\ m1.state = m.state
      /\ SameOthers(q, m, lab, m1, [lab EXCEPT ![p] = Unlisted])
  BY RemoveFirst, SMT
<1>2. lab1 = [lab EXCEPT ![p] = Unlisted]
  BY <1>1, WellLinkedTypes, RelabelIs
<1>3. WellLinked(m1, lab1) /\ SameOthers(q, m, lab, m1, lab1)
  BY <1>1, <1>2, Zenon
<1>4. SameSleepers(m, lab, m1, lab1) /\ (q # ready_queue => SameReady(m, lab, m1, lab1))
  BY <1>3, QueueNames DEF SameOthers, SameSleepers, SameReady
<1>5. \A r \in Queue \ {q} : m1.head[r] = m.head[r]
  BY <1>3 DEF SameOthers, SameQueue
<1> QED
  BY <1>1, <1>3, <1>4, <1>5

LEMMA Added ==
  ASSUME NEW m, NEW lab, WellLinked(m, lab), NEW q \in Queue, q # sleep_queue,
         NEW p \in PCB, lab[p] = Unlisted, m.head[q] = NULL \/ p # Idle,
         NEW m1, m1 = addToQueue(m, q, p),
         NEW lab1, Relabels(lab, p, q, lab1)
  PROVE  /\ WellLinked(m1, lab1) /\ SameSleepers(m, lab, m1, lab1)
         /\ q # ready_queue => SameReady(m, lab, m1, lab1)
         /\ \A s : Spells(m, lab, q, s) => Spells(m1, lab1, q, Append(s, p))
         /\ \A x \in PCB \ {p} : m1.state[x] = m.state[x]
         /\ q # blocked_queue => m1.state[p] \in {m.state[p], "READY"}
         /\ m1.state[p] \in {m.state[p], "READY", "BLOCKED"}
         /\ m.head[q] = NULL => m1.head[q] = p
         /\ \A r \in Queue \ {q} : m1.head[r] = m.head[r]
<1>1. /\ WellLinked(m1, [lab EXCEPT ![p] = q])
      /\ \A x \in PCB \ {p} : m1.state[x] = m.state[x]
      /\ q # blocked_queue => m1.state[p] \in {m.state[p], "READY"}
      /\ m1.state[p] \in {m.state[p], "READY", "BLOCKED"}
      /\ SameOthers(q, m, lab, m1, [lab EXCEPT ![p] = q])
  BY AddToQueue, SMT
<1>2. lab1 = [lab EXCEPT ![p] = q]
  BY WellLinkedTypes, RelabelIs
<1>3. m.head[q] = NULL => m1.head[q] = p
  BY WellLinkedTypes DEF addToQueue
<1>4. WellLinked(m1, lab1) /\ SameOthers(q, m, lab, m1, lab1)
  BY <1>1, <1>2, Zenon
<1>5. ASSUME NEW s, Spells(m, lab, q, s) PROVE Spells(m1, lab1, q, Append(s, p))
  <2>1. lab1[p] = q /\ \A x \in PCB \ {p} : lab1[x] = lab[x]
    BY DEF Relabels
  <2> QED
    BY <1>5, <2>1, SpelledAdded
<1>6. SameSleepers(m, lab, m1, lab1) /\ (q # ready_queue => SameReady(m, lab, m1, lab1))
  BY <1>4, QueueNames DEF SameOthers, SameSleepers, SameReady
<1>7. \A r \in Queue \ {q} : m1.head[r] = m.head[r]
  BY <1>4 DEF SameOthers, SameQueue
<1> QED
  BY <1>1, <1>3, <1>4, <1>5, <1>6, <1>7

LEMMA Removed ==
  ASSUME NEW m, NEW lab, WellLinked(m, lab), NEW q \in Queue, q # sleep_queue,
         NEW p \in PCB, IsRemovable(m, q, p),
         NEW m1, m1 = removeFromQueue(m, q, p),
         NEW lab1, Relabels(lab, p, Unlisted, lab1)
  PROVE  /\ lab[p] = q
         /\ WellLinked(m1, lab1) /\ SameSleepers(m, lab, m1, lab1)
         /\ q # ready_queue => SameReady(m, lab, m1, lab1)
         /\ m1.state = m.state
         /\ \A r \in Queue \ {q} : m1.head[r] = m.head[r]
<1>1. /\ lab[p] = q
      /\ WellLinked(m1, [lab EXCEPT ![p] = Unlisted])
      /\ m1.state = m.state
      /\ SameOthers(q, m, lab, m1, [lab EXCEPT ![p] = Unlisted])
  BY RemoveFromQueue, SMT
<1>2. lab1 = [lab EXCEPT ![p] = Unlisted]
  BY WellLinkedTypes, RelabelIs
<1>3. WellLinked(m1, lab1) /\ SameOthers(q, m, lab, m1, lab1)
  BY <1>1, <1>2, Zenon
<1>4. SameSleepers(m, lab, m1, lab1) /\ (q # ready_queue => SameReady(m, lab, m1, lab1))
  BY <1>3, QueueNames DEF SameOthers, SameSleepers, SameReady
<1>5. \A r \in Queue \ {q} : m1.head[r] = m.head[r]
  BY <1>3 DEF SameOthers, SameQueue
<1> QED
  BY <1>1, <1>3, <1>4, <1>5

LEMMA SameSleepersTwice ==
  ASSUME NEW m, NEW lab, NEW m1, NEW lab1, NEW m2, NEW lab2,
         SameSleepers(m, lab, m1, lab1), SameSleepers(m1, lab1, m2, lab2)
  PROVE  SameSleepers(m, lab, m2, lab2)
BY DEF SameSleepers, SameQueue

LEMMA SameReadySpelled ==
  ASSUME NEW m, NEW lab, NEW s, Spells(m, lab, ready_queue, s),
         NEW m1, NEW lab1, SameReady(m, lab, m1, lab1)
  PROVE  Spells(m1, lab1, ready_queue, s)
BY SpelledSame DEF SameReady

LEMMA SameReadyTwice ==
  ASSUME NEW m, NEW lab, NEW m1, NEW lab1, NEW m2, NEW lab2,
         SameReady(m, lab, m1, lab1), SameReady(m1, lab1, m2, lab2)
  PROVE  SameReady(m, lab, m2, lab2)
BY DEF SameReady, SameQueue

(* The three ways in which the actions move the ready queue.               *)
LEMMA TurnsStill ==
  ASSUME NEW lab, NEW lab1, SameReady(M, lab, M', lab1), process' = process,
         \A x \in PCB : Live(x)' => Live(x),
         \A x \in PCB \ {process} : Live(x) => Live(x)'
  PROVE  Turns(lab, lab1)
<1> SUFFICES ASSUME NEW s, Spells(M, lab, ready_queue, s)
             PROVE  Spells(M', lab1, ready_queue, s) /\ Moves(s, s)
  BY DEF Turns
<1>1. Spells(M', lab1, ready_queue, s)
  BY SameReadySpelled
<1> QED
  BY <1>1 DEF Moves

LEMMA UnmovedTurns ==
  ASSUME NEW lab, M' = M, process' = process, pid' = pid
  PROVE  Turns(lab, lab)
BY TurnsStill DEF SameReady, SameQueue, Live

LEMMA TurnsJoined ==
  ASSUME NEW lab, NEW lab1, NEW p \in PCB,
         NEW m, NEW lab0, SameReady(M, lab, m, lab0), NEW a,
         \A s : Spells(m, lab0, ready_queue, s) => Spells(a, lab1, ready_queue, Append(s, p)),
         SameReady(a, lab1, M', lab1), process' = process,
         \A x \in PCB \ {p} : Live(x)' <=> Live(x)
  PROVE  Turns(lab, lab1)
<1> SUFFICES ASSUME NEW s, Spells(M, lab, ready_queue, s)
             PROVE  /\ Spells(M', lab1, ready_queue, Append(s, p))
                    /\ Moves(s, Append(s, p))
  BY DEF Turns
<1>1. Spells(m, lab0, ready_queue, s)
  BY SameReadySpelled
<1>2. Spells(a, lab1, ready_queue, Append(s, p))
  BY <1>1
<1>3. Spells(M', lab1, ready_queue, Append(s, p))
  BY <1>2, SameReadySpelled
<1> QED
  BY <1>3 DEF Moves

LEMMA TurnsTaken ==
  ASSUME NEW lab, NEW lab1, NEW m, NEW lab0, SameReady(M, lab, m, lab0),
         \A s : Spells(m, lab0, ready_queue, s) =>
            \E s1 : Spells(M', lab1, ready_queue, s1) /\ Takes(s, s1),
         pid' = pid
  PROVE  Turns(lab, lab1)
<1> SUFFICES ASSUME NEW s, Spells(M, lab, ready_queue, s)
             PROVE  \E s1 : Spells(M', lab1, ready_queue, s1) /\ Moves(s, s1)
  BY DEF Turns
<1>1. Spells(m, lab0, ready_queue, s)
  BY SameReadySpelled
<1> QED
  BY <1>1 DEF Moves

(* contextswitch(p): p is on no queue, so its next is NULL already.        *)
LEMMA SwitchToPlaces ==
  ASSUME NEW m, NEW lab, WellLinked(m, lab), NEW p \in PCB, lab[p] = Unlisted,
         NEW pend, NEW insig, SwitchTo(m, p, pend, insig)
  PROVE  /\ WellLinked(M, lab)' /\ SameSleepers(m, lab, M', lab) /\ SameReady(m, lab, M', lab)
         /\ process' = p /\ kpc' = "user" /\ iterator' = NULL /\ work' = <<>>
         /\ head' = m.head /\ state' = [m.state EXCEPT ![p] = "RUNNING"]
<1> USE WellLinkedTypes, UnlistedIsFree
<1>1. /\ head' = m.head /\ state' = [m.state EXCEPT ![p] = "RUNNING"]
      /\ next' = [m.next EXCEPT ![p] = NULL]
  BY DEF SwitchTo
<1>2. next' = m.next
  BY <1>1
<1>3. M' = [head |-> head', next |-> next', state |-> state']
  BY DEF M
<1>4. M' \in Memory /\ M'.head = m.head /\ M'.next = m.next
  BY <1>1, <1>2, <1>3 DEF Memory, Process_state
<1>5. WellLinked(M', lab) /\ SameSleepers(m, lab, M', lab) /\ SameReady(m, lab, M', lab)
  BY <1>4, SameLinks
<1> QED
  BY <1>1, <1>5 DEF SwitchTo

(* find_next_ready_process takes the first ready process, or Idle.         *)
LEMMA FindNextPlaces ==
  ASSUME NEW m, NEW lab, WellLinked(m, lab), find_next_ready_process(m),
         lab[Idle] = Unlisted \/ m.head[ready_queue] = Idle
  PROVE  \E lab1 :
           /\ Relabels(lab, process', Unlisted, lab1)
           /\ WellLinked(M, lab1)' /\ SameSleepers(m, lab, M', lab1)
           /\ process' \in PCB
           /\ lab[process'] = ready_queue \/ (process' = Idle /\ lab[Idle] = Unlisted)
           /\ m.head[ready_queue] # NULL => process' = m.head[ready_queue]
           /\ kpc' = "user" /\ iterator' = NULL /\ work' = <<>>
           /\ state' = [m.state EXCEPT ![process'] = "RUNNING"]
           /\ \A r \in Queue \ {ready_queue} : head'[r] = m.head[r]
           /\ \A s : Spells(m, lab, ready_queue, s) =>
                \E s1 : Spells(M', lab1, ready_queue, s1) /\ Takes(s, s1)
<1> USE WellLinkedTypes, ConstantTypes
<1>1. CASE m.head[ready_queue] = NULL
  <2>1. lab[Idle] = Unlisted
    BY <1>1
  <2>2. SwitchTo(m, Idle, pending, inSig)
    BY <1>1 DEF find_next_ready_process
  <2>3. Relabels(lab, Idle, Unlisted, lab)
    BY <2>1 DEF Relabels
  <2>4. /\ WellLinked(M, lab)' /\ SameSleepers(m, lab, M', lab) /\ SameReady(m, lab, M', lab)
        /\ process' = Idle /\ kpc' = "user" /\ iterator' = NULL /\ work' = <<>>
        /\ head' = m.head /\ state' = [m.state EXCEPT ![Idle] = "RUNNING"]
    BY <2>1, <2>2, SwitchToPlaces
  <2>5. ASSUME NEW s, Spells(m, lab, ready_queue, s)
        PROVE  Spells(M', lab, ready_queue, s) /\ Takes(s, s)
    <3>1. s = <<>>
      BY <1>1, <2>5 DEF Spells
    <3> QED
      BY <2>4, <2>5, <3>1, SameReadySpelled DEF Takes
  <2> QED
    BY <1>1, <2>1, <2>3, <2>4, <2>5
<1>2. CASE m.head[ready_queue] # NULL
  <2> DEFINE m1 == removeFirst(m, ready_queue)
             p == m.head[ready_queue]
  <2>1. PICK lab1 : Relabels(lab, p, Unlisted, lab1)
    BY <1>2, RelabelExists
  <2>2. ready_queue # sleep_queue
    BY DEF ready_queue, sleep_queue
  <2>3. /\ p \in PCB /\ lab[p] = ready_queue
        /\ WellLinked(m1, lab1) /\ m1.state = m.state
        /\ SameSleepers(m, lab, m1, lab1)
        /\ \A r \in Queue \ {ready_queue} : m1.head[r] = m.head[r]
    BY <1>2, <2>1, <2>2, FirstRemoved
  <2>4. SwitchTo(m1, p, pending, inSig)
    BY <1>2 DEF find_next_ready_process
  <2> HIDE DEF m1, p
  <2>5. /\ WellLinked(M, lab1)' /\ SameSleepers(m1, lab1, M', lab1) /\ SameReady(m1, lab1, M', lab1)
        /\ process' = p /\ kpc' = "user" /\ iterator' = NULL /\ work' = <<>>
        /\ head' = m1.head /\ state' = [m1.state EXCEPT ![p] = "RUNNING"]
    BY <2>1, <2>3, <2>4, SwitchToPlaces DEF Relabels
  <2>6. SameSleepers(m, lab, M', lab1)
    BY <2>3, <2>5, SameSleepersTwice
  <2>7. ASSUME NEW s, Spells(m, lab, ready_queue, s)
        PROVE  \E s1 : Spells(M', lab1, ready_queue, s1) /\ Takes(s, s1)
    <3>1. s # <<>> /\ Head(s) = p /\ Spells(m1, lab1, ready_queue, Tail(s))
      BY <1>2, <2>1, <2>7, SpelledFirst DEF Relabels, m1, p
    <3> QED
      BY <2>5, <3>1, SameReadySpelled DEF Takes
  <2> QED
    BY <2>1, <2>3, <2>5, <2>6, <2>7 DEF p
<1> QED
  BY <1>1, <1>2

---------------------------------------------------------------------------
(* The clock.                                                              *)

(* When tick is not at work every sleeper is swept: the first that is not  *)
(* would have to be the head or behind a swept one.                        *)
LEMMA AllSwept ==
  ASSUME NEW lab, Placed(lab), Sweeping(lab), iterator = NULL
  PROVE  \A p \in PCB : lab[p] = sleep_queue => Swept(p)
<1> DEFINE U == {p \in PCB : lab[p] = sleep_queue /\ ~ Swept(p)}
<1> SUFFICES ASSUME U # {} PROVE FALSE
  OBVIOUS
<1> USE WellLinkedTypes, ConstantTypes
<1>1. WellLinked(M, lab) /\ M.head = head /\ M.next = next
  BY DEF Placed, M
<1>2. PICK x \in U : \A y \in U : next[y] # x
  <2>1. U \in SUBSET PCB /\ U # {}
    OBVIOUS
  <2> HIDE DEF U
  <2>2. PICK x \in U : \A y \in U : M.next[y] # x
    BY <1>1, <2>1 DEF WellLinked, Acyclic
  <2> QED
    BY <1>1, <2>2
<1>3. lab[x] = sleep_queue /\ lab[x] # Unlisted /\ ~ Swept(x)
  BY DEF sleep_queue, Unlisted
<1>4. CASE head[sleep_queue] = x
  BY <1>3, <1>4 DEF Sweeping
<1>5. CASE head[sleep_queue] # x
  <2>1. PICK y \in PCB : next[y] = x
    BY <1>1, <1>3, <1>5 DEF WellLinked, SinglyLinked
  <2>2. lab[y] = sleep_queue
    BY <1>1, <1>3, <2>1 DEF WellLinked, Labelled
  <2>3. Swept(y)
    BY <1>2, <2>1, <2>2
  <2>4. Swept(x)
    BY <2>1, <2>2, <2>3 DEF Sweeping
  <2> QED
    BY <1>3, <2>4
<1> QED
  BY <1>4, <1>5

(* A step that leaves the sleepers and their counters alone.               *)
LEMMA ClockKept ==
  ASSUME NEW lab, Placed(lab), Clocked(lab), Sweeping(lab), iterator = NULL,
         NEW lab1, WellLinked(M, lab1)', SameSleepers(M, lab, M', lab1),
         UNCHANGED sleepVars, iterator' = NULL
  PROVE  Clocked(lab1)' /\ Sweeping(lab1)'
<1> USE WellLinkedTypes, ConstantTypes
<1>1. /\ head'[sleep_queue] = head[sleep_queue]
      /\ \A x \in PCB : /\ lab1[x] = sleep_queue <=> lab[x] = sleep_queue
                        /\ lab[x] = sleep_queue => next'[x] = next[x]
  BY DEF SameSleepers, SameQueue, M
<1>2. ticks' = ticks /\ due' = due
  BY DEF sleepVars
<1>3. Clocked(lab1)'
  BY <1>1, <1>2 DEF Clocked
<1>4. \A x \in PCB : Swept(x)' <=> Swept(x)
  BY <1>2 DEF Swept
<1>5. head[sleep_queue] # NULL => head[sleep_queue] \in PCB
  BY DEF Placed, M
<1>6. \A p \in PCB : next[p] # NULL => next[p] \in PCB
  BY DEF Placed, M
<1>7. Sweeping(lab1)'
  BY <1>1, <1>4, <1>5, <1>6 DEF Sweeping
<1> QED
  BY <1>3, <1>7

---------------------------------------------------------------------------
(* Steps in general.                                                       *)

LEMMA PlacedTypes ==
  ASSUME TypeOK, NEW lab, PlaceInv(lab)
  PROVE  /\ WellLinked(M, lab) /\ lab \in Labelling /\ M \in Memory
         /\ M.head = head /\ M.next = next /\ M.state = state
         /\ lab[process] = Unlisted /\ lab[Idle] = Unlisted
<1>1. M.head = head /\ M.next = next /\ M.state = state
  BY DEF M
<1>2. WellLinked(M, lab) /\ lab \in Labelling /\ M \in Memory
  BY DEF PlaceInv, Placed, WellLinked
<1>3. process \in PCB /\ Idle \in PCB
  BY ConstantTypes DEF TypeOK
<1>4. lab[process] = Unlisted /\ lab[Idle] = Unlisted
  BY <1>3 DEF PlaceInv, Placed, Unqueued
<1> QED
  BY <1>1, <1>2, <1>4

(* The process goes on, and no queue changes.                              *)
LEMMA Stays ==
  ASSUME TypeOK, NEW lab, PlaceInv(lab), Live(process), iterator = NULL, work = <<>>,
         NEW m \in Memory, m.head = head, m.next = next, m.state = state,
         NEW pend, NEW insig, SwitchTo(m, process, pend, insig),
         UNCHANGED <<sleepVars, pid>>, \A n \in Port : inUse[n] => inUse'[n],
         sigTable'[Idle] = {}
  PROVE  PlaceInv(lab)' /\ Meets(lab, lab, {}, {})
<1>1. /\ WellLinked(M, lab) /\ lab \in Labelling /\ M \in Memory
      /\ M.head = head /\ M.next = next /\ M.state = state
      /\ lab[process] = Unlisted /\ lab[Idle] = Unlisted
  BY PlacedTypes
<1>2. process \in PCB /\ state \in [PCB -> Process_state]
  BY DEF TypeOK, M, Memory
<1>3. WellLinked(m, lab) /\ SameSleepers(M, lab, m, lab) /\ SameReady(M, lab, m, lab)
  BY <1>1, SameLinks
<1>4. /\ WellLinked(M, lab)' /\ SameSleepers(m, lab, M', lab) /\ SameReady(m, lab, M', lab)
      /\ process' = process /\ kpc' = "user" /\ iterator' = NULL /\ work' = <<>>
      /\ head' = head /\ state' = [state EXCEPT ![process] = "RUNNING"]
  BY <1>1, <1>2, <1>3, SwitchToPlaces
<1>5. SameSleepers(M, lab, M', lab)
  BY <1>3, <1>4, SameSleepersTwice
<1>6. Clocked(lab)' /\ Sweeping(lab)'
  BY <1>4, <1>5, ClockKept DEF PlaceInv
<1>7. \A p \in PCB : state'[p] = state[p]
  BY <1>2, <1>4 DEF PlaceInv, Dispatching
<1>8. Placed(lab)'
  BY <1>4, <1>7 DEF PlaceInv, Placed, Unqueued, Live
<1>9. Dispatching'
  BY <1>2, <1>4, <1>7 DEF PlaceInv, Dispatching, Live
<1>10. SendersHeld'
  BY <1>4 DEF PlaceInv, SendersHeld
<1>11. Signalled'
  BY <1>7 DEF PlaceInv, Signalled
<1>12. Turns(lab, lab)
  <2>1. SameReady(M, lab, M', lab)
    BY <1>3, <1>4, SameReadyTwice
  <2> QED
    BY <1>4, <2>1, TurnsStill DEF Live
<1>13. Meets(lab, lab, {}, {})
  BY <1>4, <1>12 DEF Meets
<1> QED
  BY <1>6, <1>8, <1>9, <1>10, <1>11, <1>13 DEF PlaceInv

(* The ready queue s becomes s0 when the running process is put on queue q. *)
Joins(q, s, s0) ==
  s0 = IF q = ready_queue /\ (process # Idle \/ s = <<>>) THEN Append(s, process) ELSE s

(* The running process is put on queue q, and the next one is taken.       *)
LEMMA Leaves ==
  ASSUME TypeOK, NEW lab, PlaceInv(lab), Live(process), iterator = NULL, work = <<>>,
         NEW m \in Memory, m.head = head, m.next = next,
         \A x \in PCB \ {process} : m.state[x] = state[x],
         m.state[process] # "SIG_WAIT",
         NoKill \/ m.state[process] # "BLOCKED",
         NEW q \in Queue \ {sleep_queue},
         q = ready_queue \/ (process # Idle /\ NoKill),
         q \in Port => inUse[q],
         find_next_ready_process(addToQueue(m, q, process)),
         UNCHANGED <<sleepVars, pid, inUse, sigTable>>
  PROVE  \E lab1 : /\ PlaceInv(lab1)'
                   /\ Meets(lab, lab1, {x \in {process} : q = blocked_queue}, {q})
                   /\ q # ready_queue => lab1[process] = q
<1> DEFINE a == addToQueue(m, q, process)
<1>1. /\ WellLinked(M, lab) /\ lab \in Labelling /\ M \in Memory
      /\ M.head = head /\ M.next = next /\ M.state = state
      /\ lab[process] = Unlisted /\ lab[Idle] = Unlisted
  BY PlacedTypes
<1>2. process \in PCB /\ Idle \in PCB /\ q \in Queue /\ q # sleep_queue /\ Unlisted \notin Queue
  BY ConstantTypes DEF TypeOK, Unlisted, Queue
<1>3. WellLinked(m, lab) /\ SameSleepers(M, lab, m, lab) /\ SameReady(M, lab, m, lab)
  BY <1>1, SameLinks
<1>4. ready_queue # blocked_queue /\ ready_queue \notin Port /\ blocked_queue \notin Port
  BY DEF ready_queue, blocked_queue, Port
<1>5. \E lab0 : /\ WellLinked(a, lab0) /\ SameSleepers(m, lab, a, lab0)
                /\ \A x \in PCB \ {process} : lab0[x] = lab[x] /\ a.state[x] = m.state[x]
                /\ \A r \in Queue \ {q} : a.head[r] = m.head[r]
                /\ a.state[process] # "SIG_WAIT"
                /\ NoKill \/ a.state[process] # "BLOCKED"
                /\ lab0[process] = q \/ (process = Idle /\ lab0[process] = Unlisted)
                /\ lab0[Idle] = Unlisted \/ a.head[ready_queue] = Idle
                /\ \A s : Spells(m, lab, ready_queue, s) =>
                     \E s0 : Spells(a, lab0, ready_queue, s0) /\ Joins(q, s, s0)
  <2>1. CASE process = Idle /\ m.head[q] # NULL
    <3>1. a = m
      BY <2>1 DEF addToQueue
    <3>2. ASSUME NEW s, Spells(m, lab, ready_queue, s) PROVE Joins(q, s, s)
      BY <2>1, <3>2 DEF Joins, Spells
    <3> QED
      BY <1>1, <1>3, <2>1, <3>1, <3>2 DEF SameSleepers, SameQueue
  <2>2. CASE process # Idle \/ m.head[q] = NULL
    <3>1. PICK lab0 : Relabels(lab, process, q, lab0)
      BY <1>1, <1>2, RelabelExists
    <3>2. /\ WellLinked(a, lab0) /\ SameSleepers(m, lab, a, lab0)
          /\ \A x \in PCB \ {process} : a.state[x] = m.state[x]
          /\ q # blocked_queue => a.state[process] \in {m.state[process], "READY"}
          /\ a.state[process] \in {m.state[process], "READY", "BLOCKED"}
          /\ m.head[q] = NULL => a.head[q] = process
          /\ \A r \in Queue \ {q} : a.head[r] = m.head[r]
          /\ q # ready_queue => SameReady(m, lab, a, lab0)
          /\ \A s : Spells(m, lab, q, s) => Spells(a, lab0, q, Append(s, process))
      BY <1>1, <1>2, <1>3, <2>2, <3>1, Added
    <3>3. lab0[process] = q /\ \A x \in PCB \ {process} : lab0[x] = lab[x]
      BY <3>1 DEF Relabels
    <3> HIDE DEF a
    <3>4. lab0[Idle] = Unlisted \/ a.head[ready_queue] = Idle
      BY <1>1, <1>2, <2>2, <3>2, <3>3
    <3>5. NoKill \/ a.state[process] # "BLOCKED"
      BY <1>4, <3>2
    <3>6. ASSUME NEW s, Spells(m, lab, ready_queue, s)
          PROVE  \E s0 : Spells(a, lab0, ready_queue, s0) /\ Joins(q, s, s0)
      <4>1. CASE q # ready_queue
        BY <3>2, <3>6, <4>1, SameReadySpelled DEF Joins
      <4>2. CASE q = ready_queue
        <5>1. process # Idle \/ s = <<>>
          <6>1. Len(s) > 0 => m.head[q] \in PCB
            BY <3>6, <4>2 DEF Spells
          <6> QED
            BY <2>2, <3>6, <6>1, ConstantTypes DEF Spells
        <5> QED
          BY <3>2, <3>6, <4>2, <5>1 DEF Joins
      <4> QED
        BY <4>1, <4>2
    <3> QED
      BY <3>2, <3>3, <3>4, <3>5, <3>6
  <2> QED
    BY <2>1, <2>2
<1>6. PICK lab0 : /\ WellLinked(a, lab0) /\ SameSleepers(m, lab, a, lab0)
                  /\ \A x \in PCB \ {process} : lab0[x] = lab[x] /\ a.state[x] = m.state[x]
                  /\ \A r \in Queue \ {q} : a.head[r] = m.head[r]
                  /\ a.state[process] # "SIG_WAIT"
                  /\ NoKill \/ a.state[process] # "BLOCKED"
                  /\ lab0[process] = q \/ (process = Idle /\ lab0[process] = Unlisted)
                  /\ lab0[Idle] = Unlisted \/ a.head[ready_queue] = Idle
                  /\ \A s : Spells(m, lab, ready_queue, s) =>
                       \E s0 : Spells(a, lab0, ready_queue, s0) /\ Joins(q, s, s0)
  BY <1>5
<1> HIDE DEF a
<1>7. PICK lab1 : /\ Relabels(lab0, process', Unlisted, lab1)
                  /\ WellLinked(M, lab1)' /\ SameSleepers(a, lab0, M', lab1)
                  /\ process' \in PCB
                  /\ lab0[process'] = ready_queue \/ (process' = Idle /\ lab0[Idle] = Unlisted)
                  /\ a.head[ready_queue] # NULL => process' = a.head[ready_queue]
                  /\ kpc' = "user" /\ iterator' = NULL /\ work' = <<>>
                  /\ state' = [a.state EXCEPT ![process'] = "RUNNING"]
                  /\ \A r \in Queue \ {ready_queue} : head'[r] = a.head[r]
                  /\ \A s : Spells(a, lab0, ready_queue, s) =>
                       \E s1 : Spells(M', lab1, ready_queue, s1) /\ Takes(s, s1)
  BY <1>6, FindNextPlaces DEF a
<1>8. lab1[process'] = Unlisted /\ \A x \in PCB \ {process'} : lab1[x] = lab0[x]
  BY <1>7 DEF Relabels
<1>9. SameSleepers(M, lab, M', lab1)
  BY <1>3, <1>6, <1>7, SameSleepersTwice
<1>10. Clocked(lab1)' /\ Sweeping(lab1)'
  BY <1>7, <1>9, ClockKept DEF PlaceInv
<1>11. /\ state'[process'] = "RUNNING" /\ \A x \in PCB \ {process'} : state'[x] = a.state[x]
       /\ pid' = pid
  BY <1>6, <1>7 DEF WellLinked, Memory
<1>12. Live(process')
  <2>1. CASE process' = Idle
    BY <2>1 DEF PlaceInv, Dispatching
  <2>2. CASE process' = process
    BY <2>2
  <2>3. CASE process' # process /\ lab0[process'] = ready_queue
    <3>1. lab[process'] # Unlisted
      BY <1>2, <1>6, <1>7, <2>3, ConstantTypes
    <3> QED
      BY <3>1, <1>7 DEF PlaceInv, Placed, Unqueued
  <2> QED
    BY <1>7, <2>1, <2>2, <2>3
<1>13. Placed(lab1)'
  <2> SUFFICES ASSUME NEW p \in PCB PROVE lab1[p] = Unlisted <=> Unqueued(p)'
    BY <1>7 DEF Placed
  <2>1. CASE p = process'
    BY <2>1, <1>8 DEF Unqueued
  <2>2. CASE p # process' /\ p = process
    <3>1. p = Idle => lab1[p] = Unlisted
      BY <2>2, <1>2, <1>6, <1>7, <1>8, ConstantTypes
    <3> QED
      BY <2>2, <3>1, <1>2, <1>6, <1>8, <1>11 DEF Unqueued, Live
  <2>3. CASE p # process' /\ p # process
    BY <2>3, <1>6, <1>8, <1>11 DEF PlaceInv, Placed, Unqueued, Live
  <2> QED
    BY <2>1, <2>2, <2>3
<1>14. Dispatching'
  BY <1>7, <1>11, <1>12 DEF PlaceInv, Dispatching, Live
<1>15. SendersHeld'
  <2>1. \A n \in Port : head'[n] # NULL => inUse[n]
    <3> TAKE n \in Port
    <3>1. n # ready_queue /\ n \in Queue
      BY <1>4, ConstantTypes
    <3>2. head'[n] # NULL => head[n] # NULL \/ n = q
      BY <3>1, <1>6, <1>7
    <3> QED
      BY <3>2 DEF PlaceInv, SendersHeld
  <2> QED
    BY <2>1 DEF SendersHeld
<1>16. Signalled'
  BY <1>6, <1>11 DEF PlaceInv, Signalled
<1>17. Meets(lab, lab1, {x \in {process} : q = blocked_queue}, {q})
  <2>1. \A n \in Port \ {q} : head'[n] = head[n]
    BY <1>4, <1>6, <1>7, ConstantTypes
  <2>2. ASSUME NEW p \in PCB \ {x \in {process} : q = blocked_queue}
        PROVE  lab1[p] = blocked_queue <=> lab[p] = blocked_queue
    <3>1. blocked_queue # Unlisted
      BY DEF blocked_queue, Unlisted
    <3> QED
      BY <3>1, <1>1, <1>4, <1>6, <1>7, <1>8
  <2>3. Turns(lab, lab1)
    <3> SUFFICES ASSUME NEW s, Spells(M, lab, ready_queue, s)
                 PROVE  \E s1 : Spells(M', lab1, ready_queue, s1) /\ Moves(s, s1)
      BY DEF Turns
    <3>1. Spells(m, lab, ready_queue, s)
      BY <1>3, SameReadySpelled
    <3>2. PICK s0 : Spells(a, lab0, ready_queue, s0) /\ Joins(q, s, s0)
      BY <1>6, <3>1
    <3>3. PICK s1 : Spells(M', lab1, ready_queue, s1) /\ Takes(s0, s1)
      BY <1>7, <3>2
    <3>4. Takes(s, s1) \/ (process # Idle /\ Takes(Append(s, process), s1))
      <4>1. CASE s0 = s
        BY <3>3, <4>1
      <4>2. CASE s0 = Append(s, process) /\ process # Idle
        BY <3>3, <4>2
      <4>3. CASE s0 = Append(s, process) /\ process = Idle /\ s = <<>>
        <5>1. s0 # <<>> /\ Head(s0) = Idle /\ Tail(s0) = <<>>
          BY <4>3
        <5> QED
          BY <3>3, <4>3, <5>1 DEF Takes
      <4> QED
        BY <3>2, <4>1, <4>2, <4>3 DEF Joins
    <3> QED
      BY <1>11, <3>3, <3>4 DEF Moves
  <2> QED
    BY <2>1, <2>2, <2>3 DEF Meets
<1>18. q # ready_queue => lab1[process] = q
  BY <1>2, <1>6, <1>7, <1>8, ConstantTypes
<1> QED
  BY <1>10, <1>13, <1>14, <1>15, <1>16, <1>17, <1>18 DEF PlaceInv

(* Process t, taken off the queue it was on if it was on one, becomes      *)
(* ready; the running process goes on.                                     *)
LEMMA Readies ==
  ASSUME TypeOK, NEW lab, PlaceInv(lab), Live(process), iterator = NULL, work = <<>>,
         NEW t \in PCB, t # process, t # Idle,
         NEW m, NEW lab0, WellLinked(m, lab0), Relabels(lab, t, Unlisted, lab0),
         SameSleepers(M, lab, m, lab0), SameReady(M, lab, m, lab0),
         \A n \in Port : head[n] = NULL => m.head[n] = NULL,
         \A x \in PCB \ {t} : m.state[x] = state[x],
         m.state[t] # "SIG_WAIT", NoKill \/ m.state[t] # "BLOCKED",
         NEW pend, NEW insig,
         SwitchTo(addToQueue(m, ready_queue, t), process, pend, insig),
         UNCHANGED <<sleepVars, inUse>>, sigTable'[Idle] = {},
         Live(t)', \A x \in PCB \ {t} : pid'[x] = pid[x]
  PROVE  \E lab1 : /\ PlaceInv(lab1)' /\ Meets(lab, lab1, {t}, {})
                   /\ lab1[t] = ready_queue
<1> DEFINE a == addToQueue(m, ready_queue, t)
<1>1. /\ WellLinked(M, lab) /\ lab \in Labelling /\ M \in Memory
      /\ M.head = head /\ M.next = next /\ M.state = state
      /\ lab[process] = Unlisted /\ lab[Idle] = Unlisted
  BY PlacedTypes
<1>2. process \in PCB /\ Idle \in PCB /\ ready_queue \in Queue /\ Unlisted \notin Queue
  BY ConstantTypes DEF TypeOK, Unlisted, Queue
<1>3. /\ ready_queue # blocked_queue /\ ready_queue # sleep_queue
      /\ \A n \in Port : n # ready_queue /\ n \in Queue
  BY ConstantTypes DEF ready_queue, blocked_queue, sleep_queue, Port
<1>4. lab0[t] = Unlisted /\ lab0 \in Labelling /\ \A x \in PCB \ {t} : lab0[x] = lab[x]
  BY DEF Relabels
<1>5. PICK lab1 : Relabels(lab0, t, ready_queue, lab1)
  BY <1>2, <1>4, RelabelExists
<1>6. /\ WellLinked(a, lab1) /\ SameSleepers(m, lab0, a, lab1)
      /\ \A x \in PCB \ {t} : a.state[x] = m.state[x]
      /\ a.state[t] \in {m.state[t], "READY"}
      /\ \A r \in Queue \ {ready_queue} : a.head[r] = m.head[r]
      /\ \A s : Spells(m, lab0, ready_queue, s) => Spells(a, lab1, ready_queue, Append(s, t))
  BY <1>2, <1>3, <1>4, <1>5, Added
<1> HIDE DEF a
<1>7. lab1[t] = ready_queue /\ \A x \in PCB \ {t} : lab1[x] = lab[x]
  BY <1>4, <1>5 DEF Relabels
<1>8. /\ WellLinked(M, lab1)' /\ SameSleepers(a, lab1, M', lab1) /\ SameReady(a, lab1, M', lab1)
      /\ process' = process /\ kpc' = "user" /\ iterator' = NULL /\ work' = <<>>
      /\ head' = a.head /\ state' = [a.state EXCEPT ![process] = "RUNNING"]
  BY <1>1, <1>2, <1>6, <1>7, SwitchToPlaces DEF a
<1>9. SameSleepers(M, lab, M', lab1)
  BY <1>6, <1>8, SameSleepersTwice
<1>10. Clocked(lab1)' /\ Sweeping(lab1)'
  BY <1>8, <1>9, ClockKept DEF PlaceInv
<1>11. state[process] = "RUNNING" /\ a.state[process] = "RUNNING"
  BY <1>2, <1>6 DEF PlaceInv, Dispatching
<1>12. \A x \in PCB : state'[x] = a.state[x]
  BY <1>2, <1>6, <1>8, <1>11 DEF WellLinked, Memory
<1>13. Placed(lab1)'
  <2> SUFFICES ASSUME NEW p \in PCB PROVE lab1[p] = Unlisted <=> Unqueued(p)'
    BY <1>8 DEF Placed
  <2>1. CASE p = t
    BY <2>1, <1>2, <1>6, <1>7, <1>8, <1>12 DEF Unqueued
  <2>2. CASE p # t
    BY <2>2, <1>6, <1>7, <1>8, <1>12 DEF PlaceInv, Placed, Unqueued, Live
  <2> QED
    BY <2>1, <2>2
<1>14. Dispatching'
  BY <1>2, <1>8, <1>11, <1>12 DEF PlaceInv, Dispatching, Live
<1>15. \A n \in Port : head[n] = NULL => head'[n] = NULL
  BY <1>3, <1>6, <1>8
<1>16. SendersHeld'
  BY <1>15 DEF PlaceInv, SendersHeld
<1>17. Signalled'
  BY <1>6, <1>12 DEF PlaceInv, Signalled
<1>18. Turns(lab, lab1)
  <2>1. \A x \in PCB \ {t} : Live(x)' <=> Live(x)
    BY DEF Live
  <2> QED
    BY <1>6, <1>8, <2>1, TurnsJoined
<1>19. Meets(lab, lab1, {t}, {})
  BY <1>7, <1>15, <1>18 DEF Meets
<1> QED
  BY <1>7, <1>10, <1>13, <1>14, <1>16, <1>17, <1>19 DEF PlaceInv

---------------------------------------------------------------------------
(* The actions.                                                            *)
LEMMA SysYieldPlaces ==
  ASSUME TypeOK, NEW lab, PlaceInv(lab), SysYield
  PROVE  \E lab1 : PlaceInv(lab1)' /\ Meets(lab, lab1, {}, {})
<1>1. kpc = "user" /\ Live(process) /\ iterator = NULL /\ work = <<>>
  BY DEF SysYield, Call, PlaceInv, Dispatching, Sweeping
<1>2. M \in Memory /\ M.head = head /\ M.next = next /\ M.state = state
  BY DEF TypeOK, M
<1>3. M.state[process] = "RUNNING"
  BY <1>1, <1>2 DEF PlaceInv, Dispatching
<1>4. ready_queue \in Queue \ {sleep_queue} /\ ready_queue \notin Port /\ ready_queue # blocked_queue
  BY ConstantTypes DEF ready_queue, sleep_queue, blocked_queue, Port
<1>5. /\ find_next_ready_process(addToQueue(M, ready_queue, process))
      /\ UNCHANGED <<sleepVars, pid, inUse, sigTable>>
  BY DEF SysYield, idVars, portVars
<1>6. PICK lab1 : /\ PlaceInv(lab1)'
                  /\ Meets(lab, lab1, {x \in {process} : ready_queue = blocked_queue}, {ready_queue})
  BY <1>1, <1>2, <1>3, <1>4, <1>5, Leaves
<1>7. Meets(lab, lab1, {}, {})
  BY <1>4, <1>6 DEF Meets
<1> QED
  BY <1>6, <1>7

(* The rest of case TIMER_INT.                                             *)
LEMMA PreemptPlaces ==
  ASSUME TypeOK, NEW lab, PlaceInv(lab), Live(process), iterator = NULL, work = <<>>,
         Preempt, UNCHANGED <<sleepVars, pid, inUse, sigTable>>
  PROVE  \E lab1 : PlaceInv(lab1)' /\ Meets(lab, lab1, {}, {})
<1> DEFINE m == [head |-> head, next |-> next, state |-> [state EXCEPT ![process] = "READY"]]
<1>1. /\ m \in Memory /\ m.head = head /\ m.next = next
      /\ m.state[process] = "READY" /\ \A x \in PCB \ {process} : m.state[x] = state[x]
  BY StateWritten DEF TypeOK, M, Memory, Process_state
<1>2. ready_queue \in Queue \ {sleep_queue} /\ ready_queue \notin Port /\ ready_queue # blocked_queue
  BY ConstantTypes DEF ready_queue, sleep_queue, blocked_queue, Port
<1>3. find_next_ready_process(addToQueue(m, ready_queue, process))
  BY DEF Preempt
<1> HIDE DEF m
<1>4. PICK lab1 : /\ PlaceInv(lab1)'
                  /\ Meets(lab, lab1, {x \in {process} : ready_queue = blocked_queue}, {ready_queue})
  BY <1>1, <1>2, <1>3, Leaves
<1>5. Meets(lab, lab1, {}, {})
  BY <1>2, <1>4 DEF Meets
<1> QED
  BY <1>4, <1>5

LEMMA SysGetPidPlaces ==
  ASSUME TypeOK, NEW lab, PlaceInv(lab), SysGetPid
  PROVE  PlaceInv(lab)' /\ Meets(lab, lab, {}, {})
<1>1. Live(process) /\ iterator = NULL /\ work = <<>> /\ sigTable'[Idle] = {}
  BY DEF SysGetPid, Call, PlaceInv, Dispatching, Sweeping, Signalled
<1>2. SwitchTo(M, process, pending, inSig) /\ UNCHANGED <<sleepVars, pid, inUse>>
  BY DEF SysGetPid, Return, idVars, portVars
<1>3. M \in Memory /\ M.head = head /\ M.next = next /\ M.state = state
  BY DEF TypeOK, M
<1> QED
  BY <1>1, <1>2, <1>3, Stays

LEMMA PidIsNotFree ==
  ASSUME NEW i \in PCB, NEW g \in Nat
  PROVE  PidOf(i, g) # FREE
<1>1. PidCycle \in Nat /\ i \in Nat
  BY ParameterAssumption, ConstantTypes
<1>2. i * PidCycle \in Nat
  BY <1>1
<1> QED
  BY <1>2 DEF PidOf, FREE

(* The new process goes from a free slot, which is on no queue, to the     *)
(* ready queue.                                                            *)
LEMMA SysCreatePlaces ==
  ASSUME TypeOK, NEW lab, PlaceInv(lab), SysCreate
  PROVE  \E lab1 : PlaceInv(lab1)' /\ Meets(lab, lab1, {}, {})
<1>1. Live(process) /\ iterator = NULL /\ work = <<>> /\ sigTable[Idle] = {} /\ Live(Idle)
  BY DEF SysCreate, Call, PlaceInv, Dispatching, Sweeping, Signalled
<1>2. M \in Memory /\ M.head = head /\ M.next = next /\ M.state = state
  BY DEF TypeOK, M
<1>3. UNCHANGED sleepVars /\ UNCHANGED inUse
  BY DEF SysCreate
<1>4. CASE FreeSlots = {}
  <2>1. SwitchTo(M, process, pending, inSig) /\ pid' = pid /\ sigTable' = sigTable
    BY <1>4 DEF SysCreate, Return, idVars
  <2> QED
    BY <1>1, <1>2, <1>3, <2>1, Stays
<1>5. CASE FreeSlots # {}
  <2>0. PICK i : i = MinOf(FreeSlots)
    OBVIOUS
  <2> DEFINE g == (gen[i] + 1) % PidCycle
             m == [head  |-> head,
                   next  |-> [next EXCEPT ![i] = NULL],
                   state |-> [state EXCEPT ![i] = "READY"]]
  <2>1. i \in PCB /\ ~ Live(i)
    <3>1. FreeSlots \in SUBSET Nat
      BY ConstantTypes DEF FreeSlots
    <3>2. i \in FreeSlots
      BY <1>5, <2>0, <3>1, MinExists
    <3> QED
      BY <3>2 DEF FreeSlots, Live
  <2>2. i # process /\ i # Idle
    BY <1>1, <2>1
  <2>3. CreateIn(i)
    BY <1>5, <2>0 DEF SysCreate
  <2>4. /\ pid' = [pid EXCEPT ![i] = PidOf(i, g)]
        /\ sigTable' = [sigTable EXCEPT ![i] = {}]
        /\ SwitchTo(addToQueue(m, ready_queue, i), process,
                    [pending EXCEPT ![i] = {}], [inSig EXCEPT ![i] = FALSE])
    BY <2>3 DEF CreateIn
  <2>5. g \in Nat
    <3>1. gen[i] \in Int /\ PidCycle \in Nat \ {0}
      BY <2>1, ParameterAssumption DEF TypeOK
    <3> QED
      BY <3>1
  <2>6. WellLinked(M, lab) /\ lab \in Labelling
    BY PlacedTypes
  <2>7. lab[i] = Unlisted /\ next[i] = NULL
    <3>1. lab[i] = Unlisted
      BY <2>1 DEF PlaceInv, Placed, Unqueued
    <3> QED
      BY <1>2, <2>1, <2>6, <3>1, UnlistedIsFree
  <2>8. /\ m \in Memory /\ m.head = head /\ m.next = next
        /\ m.state[i] = "READY" /\ \A x \in PCB \ {i} : m.state[x] = state[x]
    BY <2>1, <2>7 DEF TypeOK, M, Memory, Process_state
  <2> HIDE DEF m, g
  <2>9. WellLinked(m, lab) /\ SameSleepers(M, lab, m, lab) /\ SameReady(M, lab, m, lab)
    BY <1>2, <2>6, <2>8, SameLinks
  <2>10. Relabels(lab, i, Unlisted, lab)
    BY <2>6, <2>7 DEF Relabels
  <2>11. Live(i)' /\ (\A x \in PCB \ {i} : pid'[x] = pid[x]) /\ sigTable'[Idle] = {}
    <3>1. PidOf(i, g) # FREE
      BY <2>1, <2>5, PidIsNotFree
    <3>2. pid'[i] = PidOf(i, g) /\ \A x \in PCB \ {i} : pid'[x] = pid[x]
      BY <2>1, <2>4 DEF TypeOK
    <3>3. sigTable'[Idle] = {}
      BY <1>1, <2>1, <2>2, <2>4, ConstantTypes DEF TypeOK
    <3> QED
      BY <3>1, <3>2, <3>3 DEF Live
  <2>12. \A n \in Port : head[n] = NULL => m.head[n] = NULL
    BY <2>8
  <2>13. PICK lab1 : /\ PlaceInv(lab1)' /\ Meets(lab, lab1, {i}, {})
                     /\ lab1[i] = ready_queue
    <3>1. PICK pend, insig : SwitchTo(addToQueue(m, ready_queue, i), process, pend, insig)
      BY <2>4
    <3>2. m.state[i] # "SIG_WAIT" /\ m.state[i] # "BLOCKED"
      BY <2>8
    <3> QED
      BY <1>1, <1>3, <2>1, <2>2, <2>8, <2>9, <2>10, <2>11, <2>12, <3>1, <3>2, Readies
  <2>14. Meets(lab, lab1, {}, {})
    BY <2>7, <2>13 DEF Meets, blocked_queue, ready_queue, Unlisted
  <2> QED
    BY <2>13, <2>14
<1> QED
  BY <1>4, <1>5

(* The ending process is on no queue; its ports are still to be emptied.   *)
LEMMA SysStopPlaces ==
  ASSUME TypeOK, NEW lab, PlaceInv(lab), SysStop
  PROVE  PlaceInv(lab)' /\ Meets(lab, lab, {}, {})
<1>1. /\ Live(process) /\ process # Idle /\ iterator = NULL /\ work = <<>>
      /\ sigTable[Idle] = {} /\ Live(Idle)
  BY DEF SysStop, Call, PlaceInv, Dispatching, Sweeping, Signalled
<1>2. /\ WellLinked(M, lab) /\ M \in Memory
      /\ M.head = head /\ M.next = next /\ M.state = state
      /\ lab[process] = Unlisted
  BY PlacedTypes
<1>3. process \in PCB /\ next[process] = NULL
  BY <1>2, UnlistedIsFree DEF TypeOK
<1>4. /\ state' = [state EXCEPT ![process] = "STOPPED"]
      /\ pid' = [pid EXCEPT ![process] = FREE]
      /\ next' = [next EXCEPT ![process] = NULL]
      /\ inUse' = InUseAfterExit(process) /\ kpc' = "unblock" /\ work' = ports[process]
      /\ process' = process /\ head' = head /\ iterator' = iterator
      /\ UNCHANGED sleepVars /\ sigTable' = sigTable
  BY DEF SysStop, sigVars
<1>5. next' = next
  BY <1>3, <1>4 DEF TypeOK, M, Memory
<1>6. M' \in Memory /\ M'.head = M.head /\ M'.next = M.next
  BY <1>4, <1>5 DEF TypeOK, M, Memory, Process_state
<1>7. WellLinked(M, lab)' /\ SameSleepers(M, lab, M', lab) /\ SameReady(M, lab, M', lab)
  BY <1>2, <1>6, SameLinks
<1>8. Clocked(lab)' /\ Sweeping(lab)'
  BY <1>1, <1>4, <1>7, ClockKept DEF PlaceInv
<1>9. /\ \A x \in PCB \ {process} : state'[x] = state[x] /\ pid'[x] = pid[x]
      /\ pid'[process] = FREE /\ state'[process] = "STOPPED"
  BY <1>3, <1>4 DEF TypeOK, M, Memory
<1>10. Placed(lab)'
  <2> SUFFICES ASSUME NEW p \in PCB PROVE lab[p] = Unlisted <=> Unqueued(p)'
    BY <1>7 DEF Placed
  <2>1. CASE p = process
    BY <2>1, <1>2, <1>4 DEF Unqueued
  <2>2. CASE p # process
    BY <2>2, <1>4, <1>9 DEF PlaceInv, Placed, Unqueued, Live
  <2> QED
    BY <2>1, <2>2
<1>11. Dispatching'
  BY <1>1, <1>4, <1>9, ConstantTypes DEF Dispatching, Live
<1>12. SendersHeld'
  <2> SUFFICES ASSUME NEW n \in Port, head'[n] # NULL, ~ inUse'[n]
               PROVE  \E k \in 1 .. Len(work') : work'[k] = n
    BY DEF SendersHeld
  <2>1. inUse[n]
    BY <1>1, <1>4 DEF PlaceInv, SendersHeld
  <2>2. ListsPort(process, n)
    BY <1>4, <2>1 DEF InUseAfterExit
  <2> QED
    BY <1>4, <2>2 DEF ListsPort
<1>13. Signalled'
  BY <1>4, <1>9 DEF PlaceInv, Signalled
<1>14. Turns(lab, lab)
  BY <1>1, <1>4, <1>7, <1>9, TurnsStill DEF Live
<1>15. Meets(lab, lab, {}, {})
  BY <1>4, <1>14 DEF Meets
<1> QED
  BY <1>8, <1>10, <1>11, <1>12, <1>13, <1>15 DEF PlaceInv

(* A sender of a closed port goes to the ready queue, or the port is done. *)
LEMMA UnblockStepPlaces ==
  ASSUME TypeOK, NEW lab, PlaceInv(lab), UnblockStep
  PROVE  \E lab1 : PlaceInv(lab1)' /\ Meets(lab, lab1, {}, {})
<1>1. /\ WellLinked(M, lab) /\ lab \in Labelling /\ M \in Memory
      /\ M.head = head /\ M.next = next /\ M.state = state
      /\ lab[process] = Unlisted /\ lab[Idle] = Unlisted
  BY PlacedTypes
<1>2. /\ kpc = "unblock" /\ kpc' = "unblock" /\ work # <<>> /\ work \in Seq(Port)
      /\ iterator = NULL /\ iterator' = NULL /\ UNCHANGED sleepVars
      /\ process' = process /\ pid' = pid /\ inUse' = inUse /\ sigTable' = sigTable
  BY DEF UnblockStep, TypeOK, PlaceInv, Sweeping, idVars, portVars, sigVars
<1>3. PICK n \in Port : n = Head(work)
  BY <1>2
<1>4. CASE head[n] = NULL
  <2>1. work' = Tail(work) /\ head' = head /\ next' = next /\ state' = state
    BY <1>3, <1>4 DEF UnblockStep, queueVars
  <2>2. M' = M
    BY <2>1 DEF M
  <2>3. Placed(lab)' /\ Clocked(lab)' /\ Sweeping(lab)' /\ Dispatching' /\ Signalled'
    <3>1. Placed(lab)'
      BY <1>2, <2>1, <2>2 DEF PlaceInv, Placed, Unqueued, Live
    <3>2. Clocked(lab)'
      BY <1>2, <2>1 DEF PlaceInv, Clocked, sleepVars
    <3>3. Sweeping(lab)'
      BY <1>2, <2>1 DEF PlaceInv, Sweeping, Swept, sleepVars
    <3>4. Dispatching' /\ Signalled'
      BY <1>2, <2>1 DEF PlaceInv, Dispatching, Signalled, Live
    <3> QED
      BY <3>1, <3>2, <3>3, <3>4
  <2>4. SendersHeld'
    <3> SUFFICES ASSUME NEW k \in Port, head[k] # NULL, ~ inUse[k]
                 PROVE  \E j \in 1 .. Len(Tail(work)) : Tail(work)[j] = k
      BY <1>2, <2>1 DEF SendersHeld
    <3>1. PICK j \in 1 .. Len(work) : work[j] = k
      BY DEF PlaceInv, SendersHeld
    <3>2. j # 1
      BY <1>2, <1>3, <1>4, <3>1
    <3>3. j - 1 \in 1 .. Len(Tail(work)) /\ Tail(work)[j - 1] = k
      BY <1>2, <3>1, <3>2
    <3> QED
      BY <3>3
  <2>5. Turns(lab, lab)
    BY <1>2, <2>2, UnmovedTurns
  <2>6. Meets(lab, lab, {}, {})
    BY <2>1, <2>5 DEF Meets
  <2> QED
    BY <2>3, <2>4, <2>6 DEF PlaceInv
<1>5. CASE head[n] # NULL
  <2> DEFINE m == removeFirst(M, n)
             a == addToQueue(m, ready_queue, head[n])
  <2>1. /\ head' = a.head /\ next' = a.next /\ state' = a.state /\ work' = work
    BY <1>3, <1>5 DEF UnblockStep
  <2>2. PICK s \in PCB : s = head[n]
    BY <1>5, HeadIsNullOrPCB, ConstantTypes DEF TypeOK
  <2>3. /\ n \in Queue /\ n # sleep_queue /\ n # ready_queue /\ n # blocked_queue
        /\ ready_queue \in Queue /\ ready_queue # sleep_queue /\ ready_queue # blocked_queue
        /\ \A k \in Port : k # ready_queue /\ k \in Queue
        /\ Unlisted \notin Queue /\ Unlisted \in Queue \cup {Unlisted}
    BY ConstantTypes DEF ready_queue, sleep_queue, blocked_queue, Port, Unlisted, Queue
  <2>4. PICK lab0 : Relabels(lab, s, Unlisted, lab0)
    BY <1>1, <2>3, RelabelExists
  <2>5. PICK lab1 : Relabels(lab0, s, ready_queue, lab1)
    BY <2>3, <2>4, RelabelExists DEF Relabels
  <2>6. /\ lab[s] = n
        /\ WellLinked(m, lab0) /\ SameSleepers(M, lab, m, lab0) /\ SameReady(M, lab, m, lab0)
        /\ m.state = state /\ \A r \in Queue \ {n} : m.head[r] = head[r]
    BY <1>1, <1>5, <2>2, <2>3, <2>4, FirstRemoved
  <2>7. s # process /\ s # Idle
    BY <1>1, <2>3, <2>6
  <2>8. lab0[s] = Unlisted
    BY <2>4 DEF Relabels
  <2>9. /\ WellLinked(a, lab1) /\ SameSleepers(m, lab0, a, lab1)
        /\ \A u : Spells(m, lab0, ready_queue, u) => Spells(a, lab1, ready_queue, Append(u, s))
        /\ \A x \in PCB \ {s} : a.state[x] = m.state[x]
        /\ a.state[s] \in {m.state[s], "READY"}
        /\ \A r \in Queue \ {ready_queue} : a.head[r] = m.head[r]
    <3> HIDE DEF m
    <3> QED
      BY <2>2, <2>3, <2>5, <2>6, <2>7, <2>8, Added
  <2>10. a = [head |-> a.head, next |-> a.next, state |-> a.state]
    BY <2>7, <2>2 DEF addToQueue
  <2> HIDE DEF m, a
  <2>11. M' = a
    BY <2>1, <2>10 DEF M
  <2>12. SameSleepers(M, lab, M', lab1) /\ WellLinked(M, lab1)'
    BY <2>6, <2>9, <2>11, SameSleepersTwice
  <2>13. Clocked(lab1)' /\ Sweeping(lab1)'
    BY <1>2, <2>12, ClockKept DEF PlaceInv
  <2>14. lab1[s] = ready_queue /\ \A x \in PCB \ {s} : lab1[x] = lab[x]
    BY <2>4, <2>5 DEF Relabels
  <2>15. state'[s] \in {state[s], "READY"} /\ \A x \in PCB \ {s} : state'[x] = state[x]
    BY <2>1, <2>6, <2>9
  <2>16. Placed(lab1)'
    <3> SUFFICES ASSUME NEW p \in PCB PROVE lab1[p] = Unlisted <=> Unqueued(p)'
      BY <2>12 DEF Placed
    <3>1. CASE p = s
      <4>1. ~ Unqueued(s)
        BY <2>3, <2>6 DEF PlaceInv, Placed
      <4> QED
        BY <3>1, <4>1, <1>2, <2>3, <2>14, <2>15 DEF Unqueued, Live
    <3>2. CASE p # s
      BY <3>2, <1>2, <2>14, <2>15 DEF PlaceInv, Placed, Unqueued, Live
    <3> QED
      BY <3>1, <3>2
  <2>17. Dispatching'
    BY <1>2, <2>7, <2>15 DEF TypeOK, PlaceInv, Dispatching, Live
  <2>18. \A k \in Port : head[k] = NULL => head'[k] = NULL
    BY <1>5, <2>1, <2>3, <2>6, <2>9
  <2>19. SendersHeld'
    BY <1>2, <2>1, <2>18 DEF PlaceInv, SendersHeld
  <2>20. Signalled'
    BY <1>2, <2>15 DEF PlaceInv, Signalled
  <2>21. Turns(lab, lab1)
    <3>1. SameReady(a, lab1, M', lab1)
      BY <2>11 DEF SameReady, SameQueue
    <3> QED
      BY <1>2, <2>6, <2>9, <3>1, TurnsJoined DEF Live
  <2>22. Meets(lab, lab1, {}, {})
    BY <2>3, <2>6, <2>14, <2>18, <2>21 DEF Meets
  <2> QED
    BY <2>13, <2>16, <2>17, <2>19, <2>20, <2>22 DEF PlaceInv
<1> QED
  BY <1>4, <1>5

(* The running process is dead, or waits for a signal: it joins no queue.  *)
LEMMA Vanishes ==
  ASSUME TypeOK, NEW lab, PlaceInv(lab), iterator = NULL, work = <<>>,
         NEW m \in Memory, m.head = head, m.next = next,
         \A x \in PCB \ {process} : m.state[x] = state[x],
         process # Idle, ~ Live(process) \/ m.state[process] = "SIG_WAIT",
         NoKill \/ m.state[process] # "BLOCKED",
         find_next_ready_process(m), UNCHANGED <<sleepVars, pid, inUse, sigTable>>
  PROVE  \E lab1 : PlaceInv(lab1)' /\ Meets(lab, lab1, {}, {})
<1>1. /\ WellLinked(M, lab) /\ lab \in Labelling /\ M \in Memory
      /\ M.head = head /\ M.next = next /\ M.state = state
      /\ lab[process] = Unlisted /\ lab[Idle] = Unlisted
  BY PlacedTypes
<1>2. /\ process \in PCB /\ Idle \in PCB /\ ready_queue \in Queue /\ ready_queue # blocked_queue
      /\ Unlisted \notin Queue /\ \A k \in Port : k # ready_queue /\ k \in Queue
  BY ConstantTypes DEF TypeOK, Unlisted, Queue, Port, ready_queue, blocked_queue
<1>3. WellLinked(m, lab) /\ SameSleepers(M, lab, m, lab) /\ SameReady(M, lab, m, lab)
  BY <1>1, SameLinks
<1>4. PICK lab1 : /\ Relabels(lab, process', Unlisted, lab1)
                  /\ WellLinked(M, lab1)' /\ SameSleepers(m, lab, M', lab1)
                  /\ process' \in PCB
                  /\ lab[process'] = ready_queue \/ (process' = Idle /\ lab[Idle] = Unlisted)
                  /\ kpc' = "user" /\ iterator' = NULL /\ work' = <<>>
                  /\ state' = [m.state EXCEPT ![process'] = "RUNNING"]
                  /\ \A r \in Queue \ {ready_queue} : head'[r] = m.head[r]
                  /\ \A s : Spells(m, lab, ready_queue, s) =>
                       \E s1 : Spells(M', lab1, ready_queue, s1) /\ Takes(s, s1)
  BY <1>1, <1>3, FindNextPlaces
<1>5. lab1[process'] = Unlisted /\ \A x \in PCB \ {process'} : lab1[x] = lab[x]
  BY <1>4 DEF Relabels
<1>6. SameSleepers(M, lab, M', lab1)
  BY <1>3, <1>4, SameSleepersTwice
<1>7. Clocked(lab1)' /\ Sweeping(lab1)'
  BY <1>4, <1>6, ClockKept DEF PlaceInv
<1>8. /\ state'[process'] = "RUNNING" /\ \A x \in PCB \ {process'} : state'[x] = m.state[x]
      /\ pid' = pid
  BY <1>4 DEF Memory
<1>9. process' # process /\ Live(process')
  BY <1>1, <1>2, <1>4 DEF PlaceInv, Placed, Unqueued, Dispatching
<1>10. Placed(lab1)'
  <2> SUFFICES ASSUME NEW p \in PCB PROVE lab1[p] = Unlisted <=> Unqueued(p)'
    BY <1>4 DEF Placed
  <2>1. CASE p = process'
    BY <2>1, <1>5 DEF Unqueued
  <2>2. CASE p = process
    BY <2>2, <1>1, <1>5, <1>8, <1>9 DEF Unqueued, Live
  <2>3. CASE p # process' /\ p # process
    BY <2>3, <1>5, <1>8 DEF PlaceInv, Placed, Unqueued, Live
  <2> QED
    BY <2>1, <2>2, <2>3
<1>11. Dispatching'
  BY <1>4, <1>8, <1>9 DEF PlaceInv, Dispatching, Live
<1>12. \A n \in Port : head'[n] = head[n]
  BY <1>2, <1>4
<1>13. SendersHeld'
  BY <1>12 DEF PlaceInv, SendersHeld
<1>14. Signalled'
  BY <1>8 DEF PlaceInv, Signalled
<1>15. Turns(lab, lab1)
  BY <1>3, <1>4, <1>8, TurnsTaken
<1>16. Meets(lab, lab1, {}, {})
  BY <1>2, <1>4, <1>5, <1>12, <1>15 DEF Meets, blocked_queue, Unlisted
<1> QED
  BY <1>7, <1>10, <1>11, <1>13, <1>14, <1>16 DEF PlaceInv

LEMMA UnblockDonePlaces ==
  ASSUME TypeOK, NEW lab, PlaceInv(lab), UnblockDone
  PROVE  \E lab1 : PlaceInv(lab1)' /\ Meets(lab, lab1, {}, {})
<1>1. /\ kpc = "unblock" /\ work = <<>> /\ iterator = NULL
      /\ UNCHANGED <<sleepVars, pid, inUse, sigTable>>
      /\ sigTable[Idle] = {} /\ Live(Idle)
  BY DEF UnblockDone, PlaceInv, Sweeping, Dispatching, Signalled, idVars, portVars
<1>2. M \in Memory /\ M.head = head /\ M.next = next /\ M.state = state
  BY DEF TypeOK, M
<1>3. CASE Live(process)
  <2>1. SwitchTo(M, process, pending, inSig)
    BY <1>3 DEF UnblockDone, Live
  <2> QED
    BY <1>1, <1>2, <1>3, <2>1, Stays
<1>4. CASE ~ Live(process)
  <2>1. find_next_ready_process(M) /\ process # Idle
    BY <1>1, <1>4 DEF UnblockDone, Live
  <2>2. NoKill \/ M.state[process] # "BLOCKED"
    BY <1>2 DEF PlaceInv, Signalled, TypeOK
  <2> QED
    BY <1>1, <1>2, <1>4, <2>1, <2>2, Vanishes
<1> QED
  BY <1>3, <1>4

LEMMA SysSigWaitPlaces ==
  ASSUME TypeOK, NEW lab, PlaceInv(lab), SysSigWait
  PROVE  \E lab1 : PlaceInv(lab1)' /\ Meets(lab, lab1, {}, {})
<1>1. /\ Live(process) /\ work = <<>> /\ iterator = NULL /\ process # Idle
      /\ UNCHANGED <<sleepVars, pid, inUse, sigTable>> /\ sigTable'[Idle] = {}
  BY DEF SysSigWait, Call, PlaceInv, Sweeping, Dispatching, Signalled, idVars, portVars
<1>2. CASE NothingPending(process)
  <2> DEFINE m == [head |-> head, next |-> next, state |-> [state EXCEPT ![process] = "SIG_WAIT"]]
  <2>1. /\ m \in Memory /\ m.head = head /\ m.next = next
        /\ m.state[process] = "SIG_WAIT" /\ \A x \in PCB \ {process} : m.state[x] = state[x]
    BY StateWritten DEF TypeOK, M, Memory, Process_state
  <2>2. find_next_ready_process(m)
    BY <1>2 DEF SysSigWait
  <2> HIDE DEF m
  <2> QED
    BY <1>1, <2>1, <2>2, Vanishes
<1>3. CASE ~ NothingPending(process)
  <2>1. SwitchTo(M, process, pending, inSig)
    BY <1>3 DEF SysSigWait
  <2>2. M \in Memory /\ M.head = head /\ M.next = next /\ M.state = state
    BY DEF TypeOK, M
  <2> QED
    BY <1>1, <2>1, <2>2, Stays
<1> QED
  BY <1>2, <1>3

(* The timer interrupt counts every sleeper down by one; tick then has all *)
(* of them to sweep.                                                       *)
LEMMA TimerIntPlaces ==
  ASSUME TypeOK, NEW lab, PlaceInv(lab), TimerInt
  PROVE  \E lab1 : PlaceInv(lab1)' /\ Meets(lab, lab1, {}, {})
<1>1. /\ WellLinked(M, lab) /\ lab \in Labelling /\ M \in Memory
      /\ M.head = head /\ M.next = next /\ M.state = state
  BY PlacedTypes
<1>2. /\ kpc = "user" /\ Live(process) /\ iterator = NULL /\ work = <<>>
      /\ UNCHANGED <<ticks, pid, inUse, sigTable>>
      /\ due' = [p \in PCB |-> IF due[p] > 0 THEN due[p] - 1 ELSE due[p]]
  BY DEF TimerInt, PlaceInv, Sweeping, Dispatching, idVars, portVars
<1>3. sleep_queue \in Queue /\ sleep_queue # Unlisted
  BY ConstantTypes DEF sleep_queue, Unlisted
<1>4. CASE head[sleep_queue] = NULL /\ Preempt
  <2>1. Chain(M, sleep_queue) = {}
    BY <1>1, <1>4 DEF Chain
  <2>2. \A p \in PCB : lab[p] # sleep_queue
    BY <1>1, <1>3, <2>1, ChainIsClass
  <2>3. \A p \in PCB : due[p] = 0
    BY <2>2 DEF PlaceInv, Clocked
  <2>4. due' = due
    BY <1>2, <2>3 DEF TypeOK
  <2> QED
    BY <1>2, <1>4, <2>4, PreemptPlaces DEF sleepVars
<1>5. CASE head[sleep_queue] # NULL /\ kpc' = "tick" /\ iterator' = head[sleep_queue]
           /\ UNCHANGED <<process, work, queueVars, pending, inSig>>
  <2>1. /\ head' = head /\ next' = next /\ state' = state /\ work' = work
        /\ process' = process /\ M' = M
    BY <1>5 DEF queueVars, M
  <2>2. head[sleep_queue] \in PCB /\ lab[head[sleep_queue]] = sleep_queue
    BY <1>1, <1>3, <1>5 DEF WellLinked, Labelled, Memory
  <2>3. \A p \in PCB : next[p] # NULL => next[p] \in PCB /\ next[p] # head[sleep_queue]
    BY <1>1, <1>3 DEF WellLinked, SinglyLinked, Memory
  <2>4. \A p \in PCB : lab[p] = sleep_queue /\ next[p] # NULL => lab[next[p]] = sleep_queue
    BY <1>1, <1>3 DEF WellLinked, Labelled
  <2>5. \A p \in PCB : ticks[p] \in Int /\ due[p] \in Int
    BY DEF TypeOK
  <2>6. \A p \in PCB : lab[p] = sleep_queue => ticks[p] >= 0 /\ due[p] = ticks[p] + 1
    BY <1>2, <2>5, AllSwept DEF PlaceInv, Clocked, Swept
  <2>7. \A p \in PCB : IF lab[p] = sleep_queue THEN due'[p] = ticks[p] ELSE due'[p] = 0
    BY <1>2, <2>5, <2>6 DEF PlaceInv, Clocked
  <2>8. \A p \in PCB : lab[p] = sleep_queue => ~ Swept(p)'
    BY <1>2, <2>5, <2>7 DEF Swept
  <2>9. Clocked(lab)'
    <3>1. \A p \in PCB : lab[p] = sleep_queue /\ next[p] # NULL => due[p] <= due[next[p]]
      BY DEF PlaceInv, Clocked
    <3> QED
      BY <1>2, <2>1, <2>3, <2>4, <2>5, <2>6, <2>7, <3>1 DEF Clocked
  <2>10. Sweeping(lab)'
    BY <1>5, <2>1, <2>2, <2>3, <2>4, <2>8 DEF Sweeping
  <2>11. Placed(lab)' /\ Dispatching' /\ SendersHeld' /\ Signalled'
    BY <1>2, <1>5, <2>1 DEF PlaceInv, Placed, Unqueued, Live, Dispatching, SendersHeld, Signalled
  <2>12. Turns(lab, lab)
    BY <1>2, <2>1, UnmovedTurns
  <2>13. Meets(lab, lab, {}, {})
    BY <2>1, <2>12 DEF Meets
  <2> QED
    BY <2>9, <2>10, <2>11, <2>13 DEF PlaceInv
<1> QED
  BY <1>4, <1>5 DEF TimerInt

LEMMA TickDonePlaces ==
  ASSUME TypeOK, NEW lab, PlaceInv(lab), TickDone
  PROVE  \E lab1 : PlaceInv(lab1)' /\ Meets(lab, lab1, {}, {})
<1>1. /\ kpc = "tick" /\ Live(process) /\ iterator = NULL /\ work = <<>>
      /\ UNCHANGED <<sleepVars, pid, inUse, sigTable>> /\ Preempt
  BY DEF TickDone, PlaceInv, Dispatching, idVars, portVars
<1> QED
  BY <1>1, PreemptPlaces

(* One iteration of tick.  A sleeper that expires is the first one: the    *)
(* one in front of it was swept and has no less than 0 ticks left, and the *)
(* queue is sorted.                                                        *)
LEMMA TickStepPlaces ==
  ASSUME TypeOK, NEW lab, PlaceInv(lab), TickStep
  PROVE  \E lab1 : PlaceInv(lab1)' /\ Meets(lab, lab1, {}, {})
<1>1. /\ WellLinked(M, lab) /\ lab \in Labelling /\ M \in Memory
      /\ M.head = head /\ M.next = next /\ M.state = state
      /\ lab[process] = Unlisted /\ lab[Idle] = Unlisted
  BY PlacedTypes
<1>2. /\ kpc = "tick" /\ kpc' = "tick" /\ Live(process) /\ work = <<>> /\ work' = work
      /\ iterator # NULL /\ UNCHANGED <<pid, inUse, sigTable, due, process>>
  BY DEF TickStep, PlaceInv, Dispatching, idVars, portVars, sigVars
<1>3. PICK it \in PCB : it = iterator
  BY <1>2 DEF TypeOK
<1>4. /\ sleep_queue \in Queue /\ sleep_queue # Unlisted /\ sleep_queue # ready_queue
      /\ ready_queue \in Queue /\ ready_queue # Unlisted /\ ready_queue # blocked_queue
      /\ blocked_queue # sleep_queue
      /\ \A n \in Port : n \in Queue /\ n # ready_queue /\ n # sleep_queue
      /\ Unlisted \notin Queue /\ Unlisted \in Queue \cup {Unlisted}
  BY ConstantTypes DEF sleep_queue, Unlisted, ready_queue, blocked_queue, Port, Queue
<1>5. \A p \in PCB : ticks[p] \in Int /\ due[p] \in Int
  BY DEF TypeOK
<1>6. \A p \in PCB : next[p] # NULL => /\ next[p] \in PCB /\ next[p] # p
                                       /\ lab[next[p]] = lab[p]
                                       /\ next[p] # head[sleep_queue]
                                       /\ \A x \in PCB : next[x] = next[p] => x = p
  <2>1. \A p \in PCB : next[p] # p
    <3> SUFFICES ASSUME NEW p \in PCB, next[p] = p PROVE FALSE
      OBVIOUS
    <3>1. {p} \in SUBSET PCB /\ {p} # {}
      OBVIOUS
    <3>2. \E x \in {p} : M.next[x] \notin {p}
      BY <1>1, <3>1 DEF WellLinked, Acyclic
    <3> QED
      BY <1>1, <3>2
  <2> QED
    BY <1>1, <1>4, <2>1 DEF WellLinked, Labelled, SinglyLinked, Memory
<1>7. lab[it] = sleep_queue
  BY <1>2, <1>3 DEF PlaceInv, Sweeping, Swept
<1>8. ~ (ticks[it] < due[it]) /\ head[sleep_queue] # NULL
  <2>1. CASE head[sleep_queue] = it
    BY <1>3, <2>1, ConstantTypes DEF PlaceInv, Sweeping, Swept
  <2>2. CASE head[sleep_queue] # it
    <3>1. PICK y \in PCB : next[y] = it
      BY <1>1, <1>4, <1>7, <2>2 DEF WellLinked, SinglyLinked
    <3>2. lab[y] = sleep_queue
      BY <1>6, <1>7, <3>1, ConstantTypes
    <3>3. head[sleep_queue] # NULL
      <4>1. Chain(M, sleep_queue) # {}
        BY <1>1, <1>4, <1>7, ChainIsClass
      <4> QED
        BY <1>1, <4>1 DEF Chain
    <3> QED
      BY <1>3, <3>1, <3>2, <3>3, ConstantTypes DEF PlaceInv, Sweeping, Swept
  <2> QED
    BY <2>1, <2>2
<1>9. ticks[it] >= 0 /\ due[it] = ticks[it]
  BY <1>5, <1>7, <1>8 DEF PlaceInv, Clocked
<1>10. /\ ticks' = [ticks EXCEPT ![it] = @ - 1] /\ iterator' = next[it]
       /\ ticks'[it] = ticks[it] - 1 /\ \A x \in PCB \ {it} : ticks'[x] = ticks[x]
  BY <1>3 DEF TickStep, TypeOK
<1>11. \A x \in PCB \ {it} : (ticks'[x] < due'[x]) <=> (ticks[x] < due[x])
  BY <1>2, <1>10 DEF Swept
<1>12. next[it] # NULL => ~ (ticks[next[it]] < due[next[it]]) /\ next[it] # iterator
  BY <1>3, <1>6, <1>7, <1>8 DEF PlaceInv, Sweeping, Swept
<1>13. CASE ~ Expired(ticks[it] - 1)
  <2>1. /\ head' = head /\ next' = next /\ state' = state /\ M' = M
    BY <1>3, <1>13 DEF TickStep, queueVars, M
  <2>2. ticks[it] - 1 >= 0 /\ (ticks'[it] < due'[it])
    BY <1>2, <1>3, <1>5, <1>9, <1>10, <1>13 DEF Expired, Swept
  <2>3. Clocked(lab)'
    <3>1. \A p \in PCB : lab[p] # sleep_queue => due'[p] = 0
      BY <1>2 DEF PlaceInv, Clocked
    <3>2. \A p \in PCB : lab[p] = sleep_queue => ticks'[p] >= 0 /\ due'[p] \in {ticks'[p], ticks'[p] + 1}
      <4> TAKE p \in PCB
      <4>1. CASE p = it
        BY <4>1, <1>2, <1>5, <1>9, <1>10, <2>2
      <4>2. CASE p # it
        BY <4>2, <1>2, <1>10 DEF PlaceInv, Clocked
      <4> QED
        BY <4>1, <4>2
    <3>3. \A p \in PCB : lab[p] = sleep_queue /\ next[p] # NULL => due[p] <= due[next[p]]
      BY DEF PlaceInv, Clocked
    <3> QED
      BY <1>2, <2>1, <3>1, <3>2, <3>3 DEF Clocked
  <2>4. Sweeping(lab)'
    <3>1. head[sleep_queue] \in PCB
      BY <1>1, <1>4, <1>8 DEF Memory
    <3>2. (ticks'[head[sleep_queue]] < due'[head[sleep_queue]]) <=> head[sleep_queue] # next[it]
      <4>1. head[sleep_queue] # next[it]
        BY <1>6, <1>8
      <4>2. CASE head[sleep_queue] = it
        BY <2>2, <4>1, <4>2
      <4>3. CASE head[sleep_queue] # it
        BY <1>3, <1>8, <1>11, <3>1, <4>1, <4>3 DEF PlaceInv, Sweeping, Swept
      <4> QED
        BY <4>2, <4>3
    <3>3. ASSUME NEW p \in PCB, lab[p] = sleep_queue, next[p] # NULL
          PROVE  /\ (ticks'[next[p]] < due'[next[p]]) <=> (ticks'[p] < due'[p]) /\ next[p] # next[it]
                 /\ next[p] = next[it] => (ticks'[p] < due'[p])
      <4>1. /\ (ticks[next[p]] < due[next[p]]) <=> (ticks[p] < due[p]) /\ next[p] # it
            /\ next[p] = it => (ticks[p] < due[p])
        BY <1>3, <3>3 DEF PlaceInv, Sweeping, Swept
      <4>2. CASE p = it
        BY <4>2, <1>6, <1>11, <1>12, <2>2, <3>3
      <4>3. CASE p # it /\ next[p] = it
        BY <4>1, <4>3, <1>6, <1>11, <2>2, <3>3
      <4>4. CASE p # it /\ next[p] # it
        BY <4>1, <4>4, <1>6, <1>11, <3>3
      <4> QED
        BY <4>2, <4>3, <4>4
    <3>4. next[it] # NULL => lab[next[it]] = sleep_queue
      BY <1>6, <1>7
    <3> QED
      BY <1>2, <1>10, <2>1, <3>2, <3>3, <3>4 DEF Sweeping, Swept
  <2>5. Placed(lab)' /\ Dispatching' /\ SendersHeld' /\ Signalled'
    BY <1>2, <2>1 DEF PlaceInv, Placed, Unqueued, Live, Dispatching, SendersHeld, Signalled
  <2>6. Turns(lab, lab)
    BY <1>2, <2>1, UnmovedTurns
  <2>7. Meets(lab, lab, {}, {})
    BY <2>1, <2>6 DEF Meets
  <2> QED
    BY <2>3, <2>4, <2>5, <2>7 DEF PlaceInv
<1>14. CASE Expired(ticks[it] - 1)
  <2>1. ticks[it] = 0 /\ due[it] = 0
    BY <1>5, <1>9, <1>14 DEF Expired
  <2>2. head[sleep_queue] = it
    <3> SUFFICES ASSUME head[sleep_queue] # it PROVE FALSE
      OBVIOUS
    <3>1. PICK y \in PCB : next[y] = it
      BY <1>1, <1>4, <1>7 DEF WellLinked, SinglyLinked
    <3>2. lab[y] = sleep_queue /\ next[y] # NULL
      BY <1>6, <1>7, <3>1, ConstantTypes
    <3>3. (ticks[y] < due[y]) /\ due[y] <= due[it] /\ ticks[y] >= 0
      BY <1>3, <3>1, <3>2 DEF PlaceInv, Clocked, Sweeping, Swept
    <3> QED
      BY <1>5, <2>1, <3>3 DEF Swept
  <2> DEFINE m == removeFirst(M, sleep_queue)
             a == addToQueue(m, ready_queue, it)
  <2>3. m = Unlink(it)
    BY <1>1, <2>2 DEF removeFirst, Unlink
  <2>4. head' = a.head /\ next' = a.next /\ state' = a.state
    <3> HIDE DEF m
    <3> QED
      BY <1>3, <1>14, <2>3 DEF TickStep
  <2>5. PICK lab0 : Relabels(lab, it, Unlisted, lab0)
    BY <1>1, <1>4, RelabelExists
  <2>6. PICK lab1 : Relabels(lab0, it, ready_queue, lab1)
    BY <1>4, <2>5, RelabelExists DEF Relabels
  <2>7. lab0 = [lab EXCEPT ![it] = Unlisted]
    BY <1>1, <2>5, RelabelIs
  <2>8. /\ WellLinked(m, [lab EXCEPT ![it] = Unlisted]) /\ m.state = state
        /\ SameOthers(sleep_queue, M, lab, m, [lab EXCEPT ![it] = Unlisted])
    BY <1>1, <1>4, <2>2, RemoveFirst, ConstantTypes, SMT
  <2>9. WellLinked(m, lab0) /\ SameReady(M, lab, m, lab0)
    <3>1. WellLinked(m, lab0) /\ SameOthers(sleep_queue, M, lab, m, lab0)
      BY <2>7, <2>8, Zenon
    <3> QED
      BY <1>4, <3>1 DEF SameOthers, SameReady
  <2>10. /\ m.head[sleep_queue] = next[it] /\ m.next[it] = NULL
         /\ \A x \in PCB \ {it} : m.next[x] = next[x]
         /\ \A r \in Queue \ {sleep_queue} : m.head[r] = head[r]
    BY <1>1, <1>4, <2>3 DEF Unlink, Memory
  <2>11. it # process /\ it # Idle
    BY <1>1, <1>4, <1>7
  <2>12. lab0[it] = Unlisted
    BY <2>5 DEF Relabels
  <2>13. /\ WellLinked(a, lab1) /\ SameSleepers(m, lab0, a, lab1)
         /\ \A s : Spells(m, lab0, ready_queue, s) => Spells(a, lab1, ready_queue, Append(s, it))
         /\ \A x \in PCB \ {it} : a.state[x] = m.state[x]
         /\ a.state[it] \in {m.state[it], "READY"}
         /\ \A r \in Queue \ {ready_queue} : a.head[r] = m.head[r]
    <3> HIDE DEF m
    <3> QED
      BY <1>4, <2>6, <2>9, <2>11, <2>12, Added
  <2>14. a = [head |-> a.head, next |-> a.next, state |-> a.state]
    BY <2>11 DEF addToQueue
  <2> HIDE DEF m, a
  <2>15. M' = a
    BY <2>4, <2>14 DEF M
  <2>16. lab1[it] = ready_queue /\ \A x \in PCB \ {it} : lab1[x] = lab[x] /\ lab0[x] = lab[x]
    BY <2>5, <2>6 DEF Relabels
  <2>17. /\ head'[sleep_queue] = next[it]
         /\ \A x \in PCB \ {it} : lab[x] = sleep_queue => next'[x] = next[x]
    BY <1>4, <2>4, <2>10, <2>13, <2>16 DEF SameSleepers, SameQueue
  <2>18. WellLinked(M, lab1)'
    BY <2>13, <2>15
  <2>19. \A x \in PCB : lab1[x] = sleep_queue => /\ x # it /\ lab[x] = sleep_queue
                                               /\ next'[x] = next[x] /\ next[x] # it
    BY <1>4, <1>6, <2>2, <2>16, <2>17, ConstantTypes
  <2>20. Clocked(lab1)'
    <3>1. \A p \in PCB : lab1[p] # sleep_queue => due'[p] = 0
      BY <1>2, <2>1, <2>16 DEF PlaceInv, Clocked
    <3>2. \A p \in PCB : lab1[p] = sleep_queue =>
            /\ ticks'[p] >= 0 /\ due'[p] \in {ticks'[p], ticks'[p] + 1}
            /\ next[p] # NULL => due'[p] <= due'[next[p]]
      BY <1>2, <1>10, <2>19 DEF PlaceInv, Clocked
    <3> QED
      BY <2>19, <3>1, <3>2 DEF Clocked
  <2>21. Sweeping(lab1)'
    <3>1. next[it] # NULL => /\ lab1[next[it]] = sleep_queue
                             /\ ~ (ticks'[next[it]] < due'[next[it]])
      BY <1>6, <1>7, <1>11, <1>12, <2>16
    <3>2. ASSUME NEW p \in PCB, lab1[p] = sleep_queue, next[p] # NULL
          PROVE  /\ (ticks'[next[p]] < due'[next[p]]) <=> (ticks'[p] < due'[p]) /\ next[p] # next[it]
                 /\ next[p] = next[it] => (ticks'[p] < due'[p])
      <4>1. p # it /\ lab[p] = sleep_queue /\ next[p] # it /\ next[p] # next[it]
        BY <1>6, <2>19, <3>2
      <4>2. (ticks[next[p]] < due[next[p]]) <=> (ticks[p] < due[p])
        BY <1>3, <3>2, <4>1 DEF PlaceInv, Sweeping, Swept
      <4> QED
        BY <1>6, <1>11, <3>2, <4>1, <4>2
    <3> QED
      BY <1>2, <1>10, <2>17, <2>19, <3>1, <3>2 DEF Sweeping, Swept
  <2>22. state'[it] \in {state[it], "READY"} /\ \A x \in PCB \ {it} : state'[x] = state[x]
    BY <2>4, <2>8, <2>13
  <2>23. Placed(lab1)'
    <3> SUFFICES ASSUME NEW p \in PCB PROVE lab1[p] = Unlisted <=> Unqueued(p)'
      BY <2>18 DEF Placed
    <3>1. CASE p = it
      <4>1. ~ Unqueued(it)
        BY <1>4, <1>7 DEF PlaceInv, Placed
      <4> QED
        BY <3>1, <4>1, <1>2, <1>4, <2>16, <2>22 DEF Unqueued, Live
    <3>2. CASE p # it
      BY <3>2, <1>2, <2>16, <2>22 DEF PlaceInv, Placed, Unqueued, Live
    <3> QED
      BY <3>1, <3>2
  <2>24. Dispatching'
    BY <1>2, <2>11, <2>22 DEF TypeOK, PlaceInv, Dispatching, Live
  <2>25. \A k \in Port : head'[k] = head[k]
    BY <1>4, <2>4, <2>10, <2>13
  <2>26. SendersHeld' /\ Signalled'
    BY <1>2, <2>22, <2>25 DEF PlaceInv, SendersHeld, Signalled
  <2>27. Turns(lab, lab1)
    <3>1. SameReady(a, lab1, M', lab1)
      BY <2>15 DEF SameReady, SameQueue
    <3> QED
      BY <1>2, <2>9, <2>13, <3>1, TurnsJoined DEF Live
  <2>28. Meets(lab, lab1, {}, {})
    BY <1>4, <1>7, <2>16, <2>25, <2>27 DEF Meets
  <2> QED
    BY <2>20, <2>21, <2>23, <2>24, <2>26, <2>28 DEF PlaceInv
<1> QED
  BY <1>13, <1>14

(* The process is inserted in order among sleepers that are all swept, as  *)
(* it is itself.                                                           *)
LEMMA SysSleepPlaces ==
  ASSUME TypeOK, NEW lab, PlaceInv(lab), NEW milliseconds \in Millis, SysSleep(milliseconds)
  PROVE  \E lab1 : PlaceInv(lab1)' /\ Meets(lab, lab1, {}, {})
<1>1. /\ kpc = "user" /\ Live(process) /\ iterator = NULL /\ work = <<>> /\ process # Idle
      /\ UNCHANGED <<pid, inUse, sigTable>> /\ sigTable'[Idle] = {}
  BY DEF SysSleep, Call, PlaceInv, Dispatching, Sweeping, Signalled, idVars, portVars
<1>2. /\ WellLinked(M, lab) /\ lab \in Labelling /\ M \in Memory
      /\ M.head = head /\ M.next = next /\ M.state = state
      /\ lab[process] = Unlisted /\ lab[Idle] = Unlisted
  BY PlacedTypes
<1>3. /\ process \in PCB /\ Idle \in PCB
      /\ sleep_queue \in Queue /\ sleep_queue # Unlisted /\ sleep_queue # ready_queue
      /\ ready_queue \in Queue /\ ready_queue # blocked_queue /\ blocked_queue # sleep_queue
      /\ \A n \in Port : n \in Queue /\ n # ready_queue /\ n # sleep_queue
      /\ Unlisted \notin Queue /\ Unlisted \in Queue \cup {Unlisted}
      /\ blocked_queue # Unlisted
  BY ConstantTypes DEF TypeOK, sleep_queue, ready_queue, blocked_queue, Port, Queue, Unlisted
<1>4. CASE milliseconds <= 0
  <2>1. milliseconds \in Int /\ ~ milliseconds > 0
    BY <1>4, ParameterAssumption
  <2>2. SwitchTo(M, process, pending, inSig) /\ UNCHANGED sleepVars
    BY <2>1 DEF SysSleep
  <2> QED
    BY <1>1, <1>2, <2>2, Stays
<1>5. CASE milliseconds > 0
  <2>1. PICK k \in Nat : k = milliseconds \div 10
    BY <1>5, ParameterAssumption
  <2> DEFINE t == [ticks EXCEPT ![process] = milliseconds \div 10]
             m == [head |-> head, next |-> next, state |-> [state EXCEPT ![process] = "SLEEP"]]
             s == sleepInsert(m, t, process)
  <2>2. /\ ticks' = t /\ due' = [due EXCEPT ![process] = t[process] + 1]
        /\ find_next_ready_process(s)
    BY <1>5 DEF SysSleep
  <2>3. t \in [PCB -> Int] /\ t[process] = k /\ \A x \in PCB \ {process} : t[x] = ticks[x]
    BY <1>3, <2>1 DEF TypeOK
  <2>4. /\ due'[process] = k + 1 /\ \A x \in PCB \ {process} : due'[x] = due[x]
    BY <1>3, <2>2, <2>3 DEF TypeOK
  <2>5. /\ m \in Memory /\ m.head = head /\ m.next = next
        /\ m.state[process] = "SLEEP" /\ \A x \in PCB \ {process} : m.state[x] = state[x]
    BY <1>2, <1>3, StateWritten DEF M, Memory, Process_state
  <2> HIDE DEF t, m
  <2>6. WellLinked(m, lab) /\ SameReady(M, lab, m, lab)
    BY <1>2, <2>5, SameLinks
  <2>7. \A x \in PCB : lab[x] = sleep_queue => ticks[x] \in Nat /\ due[x] = ticks[x] + 1
    BY <1>1, AllSwept DEF PlaceInv, Clocked, Swept, TypeOK
  <2>8. Sorted(m, lab, t)
    <3> SUFFICES ASSUME NEW x \in PCB, lab[x] = sleep_queue, next[x] # NULL
                 PROVE  t[x] <= t[next[x]]
      BY <2>5 DEF Sorted
    <3>1. next[x] \in PCB /\ lab[next[x]] = sleep_queue
      BY <1>2, <1>3 DEF WellLinked, Labelled, Memory
    <3>2. due[x] <= due[next[x]]
      BY DEF PlaceInv, Clocked
    <3> QED
      BY <1>2, <1>3, <2>3, <2>7, <3>1, <3>2
  <2>9. PICK lab0 : Relabels(lab, process, sleep_queue, lab0)
    BY <1>2, <1>3, RelabelExists
  <2>10. lab0[process] = sleep_queue /\ \A x \in PCB \ {process} : lab0[x] = lab[x]
    BY <2>9 DEF Relabels
  <2>11. /\ WellLinked(s, lab0) /\ Sorted(s, lab0, t) /\ s.state = m.state
         /\ SameOthers(sleep_queue, m, lab, s, lab0)
    <3>1. lab0 = [lab EXCEPT ![process] = sleep_queue]
      BY <1>2, <1>3, <2>9, RelabelIs
    <3>2. /\ WellLinked(s, [lab EXCEPT ![process] = sleep_queue])
          /\ Sorted(s, [lab EXCEPT ![process] = sleep_queue], t) /\ s.state = m.state
          /\ SameOthers(sleep_queue, m, lab, s, [lab EXCEPT ![process] = sleep_queue])
      BY <1>2, <1>3, <2>3, <2>6, <2>8, SleepInsert, SMT
    <3> QED
      BY <3>1, <3>2, Zenon
  <2> HIDE DEF s
  <2>12. PICK lab1 : /\ Relabels(lab0, process', Unlisted, lab1)
                     /\ WellLinked(M, lab1)' /\ SameSleepers(s, lab0, M', lab1)
                     /\ process' \in PCB
                     /\ lab0[process'] = ready_queue \/ (process' = Idle /\ lab0[Idle] = Unlisted)
                     /\ kpc' = "user" /\ iterator' = NULL /\ work' = <<>>
                     /\ state' = [s.state EXCEPT ![process'] = "RUNNING"]
                     /\ \A r \in Queue \ {ready_queue} : head'[r] = s.head[r]
                     /\ \A u : Spells(s, lab0, ready_queue, u) =>
                          \E u1 : Spells(M', lab1, ready_queue, u1) /\ Takes(u, u1)
    <3>1. lab0[Idle] = Unlisted
      BY <1>1, <1>2, <1>3, <2>10
    <3> QED
      BY <2>2, <2>11, <3>1, FindNextPlaces
  <2>13. lab1[process'] = Unlisted /\ \A x \in PCB \ {process'} : lab1[x] = lab0[x]
    BY <2>12 DEF Relabels
  <2>14. \A x \in PCB : lab1[x] = sleep_queue =>
           /\ ticks'[x] \in Nat /\ due'[x] = ticks'[x] + 1
           /\ next'[x] = s.next[x]
           /\ next'[x] # NULL => /\ next'[x] \in PCB /\ lab1[next'[x]] = sleep_queue
                                 /\ ticks'[x] <= ticks'[next'[x]]
    <3> SUFFICES ASSUME NEW x \in PCB, lab1[x] = sleep_queue
                 PROVE  /\ ticks'[x] \in Nat /\ due'[x] = ticks'[x] + 1
                        /\ next'[x] = s.next[x]
                        /\ next'[x] # NULL =>
                             /\ next'[x] \in PCB /\ lab1[next'[x]] = sleep_queue
                             /\ ticks'[x] <= ticks'[next'[x]]
      OBVIOUS
    <3>1. lab0[x] = sleep_queue /\ next'[x] = s.next[x]
      BY <2>12 DEF SameSleepers, SameQueue, M
    <3>2. ticks'[x] \in Nat /\ due'[x] = ticks'[x] + 1
      BY <2>2, <2>3, <2>4, <2>7, <2>10, <3>1
    <3>3. next'[x] # NULL => next'[x] \in PCB /\ lab1[next'[x]] = sleep_queue
      BY <1>3, <2>12 DEF WellLinked, Labelled, Memory, M
    <3>4. next'[x] # NULL => ticks'[x] <= ticks'[next'[x]]
      BY <2>2, <2>11, <3>1 DEF Sorted
    <3> QED
      BY <3>1, <3>2, <3>3, <3>4
  <2>15. Clocked(lab1)'
    <3>1. \A x \in PCB : lab1[x] # sleep_queue => due'[x] = 0
      BY <1>3, <2>4, <2>10, <2>12, <2>13 DEF PlaceInv, Clocked
    <3>2. \A x \in PCB : lab1[x] = sleep_queue =>
            /\ ticks'[x] >= 0 /\ due'[x] \in {ticks'[x], ticks'[x] + 1}
            /\ next'[x] # NULL => due'[x] <= due'[next'[x]]
      BY <2>14
    <3> QED
      BY <3>1, <3>2 DEF Clocked
  <2>16. Sweeping(lab1)'
    <3>1. \A x \in PCB : lab1[x] = sleep_queue => ticks'[x] < due'[x]
      BY <2>14
    <3>2. head'[sleep_queue] # NULL => /\ head'[sleep_queue] \in PCB
                                       /\ lab1[head'[sleep_queue]] = sleep_queue
      BY <1>3, <2>12 DEF WellLinked, Labelled, Memory, M
    <3>3. head'[sleep_queue] # NULL => ticks'[head'[sleep_queue]] < due'[head'[sleep_queue]]
      BY <3>1, <3>2
    <3>4. \A x \in PCB : lab1[x] = sleep_queue /\ next'[x] # NULL =>
            /\ ticks'[x] < due'[x] /\ ticks'[next'[x]] < due'[next'[x]]
      BY <2>14, <3>1
    <3> QED
      BY <2>12, <3>3, <3>4 DEF Sweeping, Swept
  <2>17. /\ state'[process'] = "RUNNING" /\ \A x \in PCB \ {process'} : state'[x] = m.state[x]
         /\ pid' = pid
    BY <1>1, <2>5, <2>11, <2>12 DEF Memory
  <2>18. process' # process /\ Live(process')
    BY <1>1, <1>2, <1>3, <2>10, <2>12 DEF PlaceInv, Placed, Unqueued, Dispatching
  <2>19. Placed(lab1)'
    <3> SUFFICES ASSUME NEW p \in PCB PROVE lab1[p] = Unlisted <=> Unqueued(p)'
      BY <2>12 DEF Placed
    <3>1. CASE p = process'
      BY <3>1, <2>13 DEF Unqueued
    <3>2. CASE p = process
      BY <3>2, <1>1, <1>3, <2>5, <2>10, <2>13, <2>17, <2>18 DEF Unqueued, Live
    <3>3. CASE p # process' /\ p # process
      BY <3>3, <2>5, <2>10, <2>13, <2>17 DEF PlaceInv, Placed, Unqueued, Live
    <3> QED
      BY <3>1, <3>2, <3>3
  <2>20. Dispatching'
    BY <2>12, <2>17, <2>18 DEF PlaceInv, Dispatching, Live
  <2>21. \A n \in Port : head'[n] = head[n]
    BY <1>3, <2>5, <2>11, <2>12 DEF SameOthers, SameQueue
  <2>22. SendersHeld'
    BY <1>1, <2>21 DEF PlaceInv, SendersHeld
  <2>23. Signalled'
    BY <1>1, <1>3, <2>5, <2>17 DEF PlaceInv, Signalled
  <2>24. Turns(lab, lab1)
    <3>1. SameReady(M, lab, s, lab0)
      BY <1>3, <2>6, <2>11 DEF SameReady, SameOthers, SameQueue
    <3> QED
      BY <1>1, <2>12, <3>1, TurnsTaken
  <2>25. Meets(lab, lab1, {}, {})
    BY <1>2, <1>3, <2>10, <2>12, <2>13, <2>21, <2>24 DEF Meets
  <2> QED
    BY <2>15, <2>16, <2>19, <2>20, <2>22, <2>23, <2>25 DEF PlaceInv
<1> QED
  BY <1>4, <1>5, ParameterAssumption

---------------------------------------------------------------------------
(* Ports.                                                                  *)
LEMMA ReturnPlaces ==
  ASSUME TypeOK, NEW lab, PlaceInv(lab), kpc = "user", process # Idle,
         NEW r, Return(M, r), UNCHANGED <<sleepVars, pid>>,
         \A n \in Port : inUse[n] => inUse'[n],
         \A x \in PCB \ {process} : sigTable'[x] = sigTable[x]
  PROVE  PlaceInv(lab)' /\ Meets(lab, lab, {}, {})
<1>1. Live(process) /\ iterator = NULL /\ work = <<>> /\ sigTable'[Idle] = {}
  BY ConstantTypes DEF PlaceInv, Dispatching, Sweeping, Signalled
<1>2. SwitchTo(M, process, pending, inSig)
  BY DEF Return
<1>3. M \in Memory /\ M.head = head /\ M.next = next /\ M.state = state
  BY DEF TypeOK, M
<1> QED
  BY <1>1, <1>2, <1>3, Stays

(* A new port's blocked_list is set to NULL, which it is already.          *)
LEMMA SysPortCreatePlaces ==
  ASSUME TypeOK, NEW lab, PlaceInv(lab), NEW n \in PortArgs, SysPortCreate(n)
  PROVE  PlaceInv(lab)' /\ Meets(lab, lab, {}, {})
<1>1. /\ kpc = "user" /\ process # Idle /\ UNCHANGED <<sleepVars, pid, sigTable>>
      /\ Live(process) /\ iterator = NULL /\ work = <<>> /\ sigTable'[Idle] = {}
  BY DEF SysPortCreate, Call, idVars, PlaceInv, Dispatching, Sweeping, Signalled
<1>2. CASE \E r : RefusePort(r)
  BY <1>1, <1>2, ReturnPlaces DEF RefusePort, portVars
<1>3. CASE \E k \in Port : ~ inUse[k] /\ OpenPort(k)
  <2>1. PICK k \in Port : ~ inUse[k] /\ OpenPort(k)
    BY <1>3
  <2> DEFINE m == [head |-> [head EXCEPT ![k] = NULL], next |-> next, state |-> state]
  <2>2. head[k] = NULL
    BY <1>1, <2>1 DEF PlaceInv, SendersHeld
  <2>3. m \in Memory /\ m.head = head /\ m.next = next /\ m.state = state
    BY <2>2 DEF TypeOK, M, Memory
  <2>4. SwitchTo(m, process, pending, inSig) /\ inUse' = [inUse EXCEPT ![k] = TRUE]
    BY <2>1 DEF OpenPort, Return
  <2>5. \A j \in Port : inUse[j] => inUse'[j]
    BY <2>4 DEF TypeOK
  <2> HIDE DEF m
  <2> QED
    BY <1>1, <2>3, <2>4, <2>5, Stays
<1>4. CASE ValidPort(n) /\ n # 0 /\ ~ inUse[n] /\ OpenPort(n)
  <2>1. n \in Port
    BY <1>4, ValidPortIsPort, ParameterAssumption
  <2> QED
    BY <1>3, <1>4, <2>1
<1>5. CASE n = 0 /\ FreePorts # {} /\ OpenPort(MinOf(FreePorts))
  <2>1. FreePorts \in SUBSET Nat
    BY ConstantTypes DEF FreePorts
  <2>2. PICK k \in FreePorts : k = MinOf(FreePorts)
    BY <1>5, <2>1, MinExists
  <2>3. k \in Port /\ ~ inUse[k]
    BY <2>2, SizeAssumption DEF FreePorts, Port
  <2> QED
    BY <1>3, <1>5, <2>2, <2>3
<1> QED
  BY <1>2, <1>4, <1>5 DEF SysPortCreate

LEMMA SysPortDeletePlaces ==
  ASSUME TypeOK, NEW lab, PlaceInv(lab), NEW n \in PortArgs, SysPortDelete(n)
  PROVE  PlaceInv(lab)' /\ Meets(lab, lab, {}, {})
<1>1. /\ kpc = "user" /\ process # Idle /\ UNCHANGED <<sleepVars, pid, sigTable>>
      /\ Live(process) /\ iterator = NULL /\ work = <<>> /\ n \in Port
  BY DEF SysPortDelete, Call, idVars, PlaceInv, Dispatching, Sweeping
<1>2. CASE owner[n] = process /\ ListsPort(process, n)
  <2>1. /\ inUse' = [inUse EXCEPT ![n] = FALSE]
        /\ kpc' = "unblock" /\ work' = <<n>>
        /\ UNCHANGED <<process, iterator, queueVars>>
    BY <1>2 DEF SysPortDelete
  <2>2. head' = head /\ next' = next /\ state' = state /\ M' = M
    BY <2>1 DEF queueVars, M
  <2>3. Placed(lab)' /\ Dispatching' /\ Signalled'
    BY <1>1, <2>1, <2>2 DEF PlaceInv, Placed, Unqueued, Live, Dispatching, Signalled
  <2>4. Clocked(lab)'
    BY <1>1, <2>2 DEF PlaceInv, Clocked, sleepVars
  <2>5. Sweeping(lab)'
    BY <1>1, <2>1, <2>2 DEF PlaceInv, Sweeping, Swept, sleepVars
  <2>6. SendersHeld'
    <3> SUFFICES ASSUME NEW k \in Port, head[k] # NULL, ~ inUse'[k]
                 PROVE  \E j \in 1 .. Len(<<n>>) : <<n>>[j] = k
      BY <2>1, <2>2 DEF SendersHeld
    <3>1. inUse[k]
      BY <1>1 DEF PlaceInv, SendersHeld
    <3>2. k = n
      BY <2>1, <3>1 DEF TypeOK
    <3> QED
      BY <3>2
  <2>7. Turns(lab, lab)
    BY <1>1, <2>1, <2>2, UnmovedTurns
  <2>8. Meets(lab, lab, {}, {})
    BY <2>2, <2>7 DEF Meets
  <2> QED
    BY <2>3, <2>4, <2>5, <2>6, <2>8 DEF PlaceInv
<1>3. CASE ~ (owner[n] = process /\ ListsPort(process, n))
  <2>1. Return(M, -1) /\ UNCHANGED inUse
    BY <1>3 DEF SysPortDelete
  <2> QED
    BY <1>1, <2>1, ReturnPlaces
<1> QED
  BY <1>2, <1>3

(* The running process blocks on queue q.                                  *)
LEMMA BlockPlaces ==
  ASSUME TypeOK, NEW lab, PlaceInv(lab), kpc = "user", process # Idle, NoKill,
         NEW q \in Queue \ {sleep_queue}, q \in Port => inUse[q],
         find_next_ready_process(addToQueue(
           [head |-> head, next |-> next, state |-> [state EXCEPT ![process] = "BLOCKED"]],
           q, process)),
         UNCHANGED <<sleepVars, pid, inUse, sigTable>>
  PROVE  \E lab1 : /\ PlaceInv(lab1)'
                   /\ Meets(lab, lab1, {x \in {process} : q = blocked_queue}, {q})
                   /\ q # ready_queue => lab1[process] = q
<1> DEFINE m == [head |-> head, next |-> next, state |-> [state EXCEPT ![process] = "BLOCKED"]]
<1>1. /\ m \in Memory /\ m.head = head /\ m.next = next
      /\ m.state[process] = "BLOCKED" /\ \A x \in PCB \ {process} : m.state[x] = state[x]
  BY StateWritten DEF TypeOK, M, Memory, Process_state
<1>2. find_next_ready_process(addToQueue(m, q, process))
  OBVIOUS
<1>3. Live(process) /\ iterator = NULL /\ work = <<>>
  BY DEF PlaceInv, Dispatching, Sweeping
<1> HIDE DEF m
<1> QED
  BY <1>1, <1>2, <1>3, Leaves

(* Process r is taken off the blocked queue and readied; whoever runs goes *)
(* on.                                                                     *)
LEMMA ReleasePlaces ==
  ASSUME TypeOK, NEW lab, PlaceInv(lab), kpc = "user", NoKill,
         NEW r, IsRemovable(M, blocked_queue, r),
         SwitchTo(addToQueue(removeFromQueue(M, blocked_queue, r), ready_queue, r),
                  process, pending, inSig),
         UNCHANGED <<sleepVars, pid, sigTable, inUse>>
  PROVE  \E lab1 : /\ PlaceInv(lab1)' /\ Meets(lab, lab1, {r}, {})
                   /\ lab1[r] = ready_queue
<1>1. Live(process) /\ iterator = NULL /\ work = <<>> /\ sigTable'[Idle] = {}
  BY DEF PlaceInv, Dispatching, Sweeping, Signalled
<1>2. /\ WellLinked(M, lab) /\ lab \in Labelling /\ M \in Memory
      /\ M.head = head /\ M.next = next /\ M.state = state
      /\ lab[process] = Unlisted /\ lab[Idle] = Unlisted
  BY PlacedTypes
<1>3. /\ blocked_queue \in Queue /\ blocked_queue # sleep_queue /\ blocked_queue # Unlisted
      /\ blocked_queue # ready_queue
      /\ Unlisted \in Queue \cup {Unlisted}
      /\ \A k \in Port : k \in Queue \ {sleep_queue} /\ k # blocked_queue
  BY ConstantTypes DEF blocked_queue, sleep_queue, ready_queue, Unlisted, Port, Queue
<1>4. r \in PCB /\ r # Idle
  BY <1>2, <1>3, ChainIsClass DEF IsRemovable
<1> DEFINE m == removeFromQueue(M, blocked_queue, r)
<1>5. SwitchTo(addToQueue(m, ready_queue, r), process, pending, inSig)
  OBVIOUS
<1>6. PICK lab0 : Relabels(lab, r, Unlisted, lab0)
  BY <1>2, <1>3, <1>4, RelabelExists
<1>7. /\ lab[r] = blocked_queue
      /\ WellLinked(m, lab0) /\ SameSleepers(M, lab, m, lab0) /\ SameReady(M, lab, m, lab0)
      /\ m.state = state
      /\ \A k \in Queue \ {blocked_queue} : m.head[k] = head[k]
  BY <1>2, <1>3, <1>4, <1>6, Removed
<1> HIDE DEF m
<1>8. /\ r # process /\ state[r] # "SIG_WAIT" /\ Live(r)' /\ pid' = pid
      /\ \A k \in Port : head[k] = NULL => m.head[k] = NULL
  <2>1. ~ Unqueued(r)
    BY <1>3, <1>4, <1>7 DEF PlaceInv, Placed
  <2> QED
    BY <1>1, <1>3, <1>7, <2>1 DEF Unqueued, Live
<1> QED
  BY <1>1, <1>4, <1>5, <1>6, <1>7, <1>8, Readies

(* A sender finds the receiver blocked, and readies it.                    *)
Serves(n) ==
  /\ SysSend(n) /\ CanSend(n) /\ owner[n] # process
  /\ ReceiverWaits(owner[n]) /\ Deliver(n, owner[n])

LEMMA ServePlaces ==
  ASSUME TypeOK, UnblockedTargets, NEW lab, PlaceInv(lab), NEW n \in PortArgs, Serves(n)
  PROVE  \E lab1 : /\ PlaceInv(lab1)' /\ Meets(lab, lab1, {owner[n]}, {})
                   /\ lab1[owner[n]] = ready_queue
<1>1. /\ kpc = "user" /\ NoKill /\ UNCHANGED <<sleepVars, pid, sigTable, inUse>>
      /\ IsRemovable(M, blocked_queue, owner[n])
      /\ SwitchTo(addToQueue(removeFromQueue(M, blocked_queue, owner[n]), ready_queue, owner[n]),
                  process, pending, inSig)
  BY DEF Serves, SysSend, Call, Deliver, ReceiverWaits, idVars, portVars,
         UnblockedTargets, NoBlocking
<1> QED
  BY <1>1, ReleasePlaces

LEMMA SysSendPlaces ==
  ASSUME TypeOK, UnblockedTargets, NEW lab, PlaceInv(lab), NEW n \in PortArgs, SysSend(n)
  PROVE  \/ \E lab1 : PlaceInv(lab1)' /\ Meets(lab, lab1, {}, {})
         \/ Serves(n)
         \/ /\ CanSend(n) /\ owner[n] # process
            /\ ~ ReceiverWaits(owner[n]) /\ BlockSender(n)
            /\ \E lab1 : PlaceInv(lab1)' /\ Meets(lab, lab1, {}, {n})
<1>1. /\ kpc = "user" /\ process # Idle /\ UNCHANGED <<sleepVars, pid, sigTable, inUse>>
      /\ Live(process) /\ iterator = NULL /\ work = <<>> /\ sigTable'[Idle] = {} /\ NoKill
  BY DEF SysSend, Call, idVars, portVars, PlaceInv, Dispatching, Sweeping, Signalled,
         UnblockedTargets, NoBlocking
<1>2. /\ WellLinked(M, lab) /\ lab \in Labelling /\ M \in Memory
      /\ M.head = head /\ M.next = next /\ M.state = state
      /\ lab[process] = Unlisted /\ lab[Idle] = Unlisted
  BY PlacedTypes
<1>3. /\ blocked_queue \in Queue /\ blocked_queue # sleep_queue /\ blocked_queue # Unlisted
      /\ blocked_queue # ready_queue
      /\ Unlisted \in Queue \cup {Unlisted}
      /\ \A k \in Port : k \in Queue \ {sleep_queue} /\ k # blocked_queue
  BY ConstantTypes DEF blocked_queue, sleep_queue, ready_queue, Unlisted, Port, Queue
<1>4. CASE \E r : Return(M, r)
  BY <1>1, <1>4, ReturnPlaces
<1>5. CASE CanSend(n) /\ owner[n] # process /\ ~ ReceiverWaits(owner[n]) /\ BlockSender(n)
  <2>1. n \in Port /\ inUse[n]
    BY <1>5, ValidPortIsPort, ParameterAssumption DEF CanSend
  <2>2. find_next_ready_process(addToQueue(
           [head |-> head, next |-> next, state |-> [state EXCEPT ![process] = "BLOCKED"]],
           n, process))
    BY <1>5 DEF BlockSender
  <2>3. \E lab1 : PlaceInv(lab1)' /\ Meets(lab, lab1, {x \in {process} : n = blocked_queue}, {n})
    BY <1>1, <1>3, <2>1, <2>2, BlockPlaces
  <2>4. {x \in {process} : n = blocked_queue} = {}
    BY <1>3, <2>1
  <2> QED
    BY <1>5, <2>3, <2>4
<1> QED
  BY <1>4, <1>5 DEF SysSend, Serves

LEMMA SysPortRecvPlaces ==
  ASSUME TypeOK, UnblockedTargets, NEW lab, PlaceInv(lab), NEW n \in PortArgs, SysPortRecv(n)
  PROVE  \/ \E lab1 : PlaceInv(lab1)' /\ Meets(lab, lab1, {}, {})
         \/ /\ n \in Port /\ inUse[n] /\ procOwnsPort(process, n) /\ SenderPorts(n) = {}
            /\ BlockReceiver(n)
            /\ \E lab1 : PlaceInv(lab1)' /\ Meets(lab, lab1, {process}, {})
<1>1. /\ kpc = "user" /\ process # Idle /\ UNCHANGED <<sleepVars, pid, sigTable, inUse>>
      /\ Live(process) /\ iterator = NULL /\ work = <<>> /\ sigTable'[Idle] = {} /\ NoKill
  BY DEF SysPortRecv, Call, idVars, portVars, PlaceInv, Dispatching, Sweeping, Signalled,
         UnblockedTargets, NoBlocking
<1>2. /\ WellLinked(M, lab) /\ lab \in Labelling /\ M \in Memory
      /\ M.head = head /\ M.next = next /\ M.state = state
      /\ lab[process] = Unlisted /\ lab[Idle] = Unlisted
  BY PlacedTypes
<1>3. /\ blocked_queue \in Queue \ {sleep_queue} /\ blocked_queue \notin Port
      /\ ready_queue # blocked_queue
      /\ Unlisted \in Queue \cup {Unlisted}
      /\ \A k \in Port : k # ready_queue
      /\ \A k \in Port : k \in Queue /\ k # sleep_queue /\ k # blocked_queue /\ k # Unlisted
  BY ConstantTypes DEF ready_queue, blocked_queue, sleep_queue, Unlisted, Port, Queue
<1>4. CASE \E r : Return(M, r)
  BY <1>1, <1>4, ReturnPlaces
<1>5. CASE n \in Port /\ SenderPorts(n) # {} /\ TakeMessage(n, FirstSenderPort(n))
  <2>1. PICK k \in Port : k = FirstSenderPort(n) /\ head[k] # NULL
    BY <1>5, FirstSenderPortFound
  <2>2. PICK s \in PCB : s = head[k]
    BY <2>1, <1>3, HeadIsNullOrPCB DEF TypeOK
  <2> DEFINE m == removeFirst(M, k)
  <2>3. SwitchTo(addToQueue(m, ready_queue, s), process, pending, inSig)
    BY <1>5, <2>1, <2>2 DEF TakeMessage
  <2>4. PICK lab0 : Relabels(lab, s, Unlisted, lab0)
    BY <1>2, <1>3, <2>2, RelabelExists
  <2>5. /\ lab[s] = k
        /\ WellLinked(m, lab0) /\ SameSleepers(M, lab, m, lab0) /\ SameReady(M, lab, m, lab0)
        /\ m.state = state
        /\ \A r \in Queue \ {k} : m.head[r] = head[r]
    BY <1>2, <1>3, <2>1, <2>2, <2>4, FirstRemoved
  <2> HIDE DEF m
  <2>6. /\ s # process /\ s # Idle /\ state[s] # "SIG_WAIT" /\ Live(s)' /\ pid' = pid
        /\ \A j \in Port : head[j] = NULL => m.head[j] = NULL
    <3>1. ~ Unqueued(s)
      BY <1>3, <2>2, <2>5 DEF PlaceInv, Placed
    <3> QED
      BY <1>1, <1>3, <2>1, <2>5, <3>1 DEF Unqueued, Live
  <2>7. PICK lab1 : PlaceInv(lab1)' /\ Meets(lab, lab1, {s}, {}) /\ lab1[s] = ready_queue
    BY <1>1, <2>2, <2>3, <2>4, <2>5, <2>6, Readies
  <2>8. Meets(lab, lab1, {}, {})
    BY <1>3, <2>2, <2>5, <2>7 DEF Meets
  <2> QED
    BY <2>7, <2>8
<1>6. CASE /\ n \in Port /\ inUse[n] /\ procOwnsPort(process, n) /\ SenderPorts(n) = {}
           /\ BlockReceiver(n)
  <2>1. find_next_ready_process(addToQueue(
           [head |-> head, next |-> next, state |-> [state EXCEPT ![process] = "BLOCKED"]],
           blocked_queue, process))
    BY <1>6 DEF BlockReceiver
  <2>2. PICK lab1 : /\ PlaceInv(lab1)'
                    /\ Meets(lab, lab1, {x \in {process} : blocked_queue = blocked_queue},
                             {blocked_queue})
    BY <1>1, <1>3, <2>1, BlockPlaces
  <2>3. Meets(lab, lab1, {process}, {})
    BY <1>3, <2>2 DEF Meets
  <2> QED
    BY <1>6, <2>2, <2>3
<1>7. ValidPort(n) => n \in Port
  BY ValidPortIsPort, ParameterAssumption
<1> QED
  BY <1>4, <1>5, <1>6, <1>7 DEF SysPortRecv

---------------------------------------------------------------------------
(* Signals.                                                                *)
LEMMA SysSigHandlePlaces ==
  ASSUME TypeOK, NEW lab, PlaceInv(lab), NEW s, NEW newhandler, SysSigHandle(s, newhandler)
  PROVE  PlaceInv(lab)' /\ Meets(lab, lab, {}, {})
<1>1. /\ kpc = "user" /\ process # Idle /\ UNCHANGED <<sleepVars, pid, inUse>>
      /\ \E r : Return(M, r)
  BY DEF SysSigHandle, Call, idVars, portVars
<1>2. \A x \in PCB \ {process} : sigTable'[x] = sigTable[x]
  BY DEF SysSigHandle, TypeOK
<1> QED
  BY <1>1, <1>2, ReturnPlaces

LEMMA SysSigReturnPlaces ==
  ASSUME TypeOK, NEW lab, PlaceInv(lab), SysSigReturn
  PROVE  PlaceInv(lab)' /\ Meets(lab, lab, {}, {})
<1>1. /\ Live(process) /\ iterator = NULL /\ work = <<>> /\ sigTable'[Idle] = {}
      /\ UNCHANGED <<sleepVars, pid, inUse>>
      /\ \E insig : SwitchTo(M, process, pending, insig)
  BY DEF SysSigReturn, idVars, portVars, PlaceInv, Dispatching, Sweeping, Signalled
<1>2. M \in Memory /\ M.head = head /\ M.next = next /\ M.state = state
  BY DEF TypeOK, M
<1> QED
  BY <1>1, <1>2, Stays

(* signal() readies its target only if the target waits for a signal: its  *)
(* state is not BLOCKED, by the hypothesis on Calls.                       *)
LEMMA SysKillPlaces ==
  ASSUME TypeOK, NEW lab, PlaceInv(lab),
         NEW target, NEW s, SysKill(target, s)
  PROVE  \E lab1 : PlaceInv(lab1)' /\ Meets(lab, lab1, {}, {})
<1>1. /\ kpc = "user" /\ process # Idle /\ UNCHANGED <<sleepVars, pid, sigTable, inUse>>
      /\ Live(process) /\ iterator = NULL /\ work = <<>> /\ sigTable'[Idle] = {}
      /\ sigTable[Idle] = {} /\ \A x \in PCB : state[x] # "BLOCKED"
  BY DEF SysKill, Call, NoKill, idVars, portVars,
         PlaceInv, Dispatching, Sweeping, Signalled
<1>2. CASE \E r : Return(M, r)
  BY <1>1, <1>2, ReturnPlaces
<1>3. CASE \E t \in PCB : Live(t) /\ HasHandler(t, s) /\ Signal(t, s)
  <2>1. PICK t \in PCB : Live(t) /\ HasHandler(t, s) /\ Signal(t, s)
    BY <1>3
  <2>2. t # Idle
    BY <1>1, <2>1 DEF HasHandler
  <2>3. M \in Memory /\ M.head = head /\ M.next = next /\ M.state = state
    BY DEF TypeOK, M
  <2>4. CASE ~ IsWaiting(t)
    <3>1. \E pend : SwitchTo(M, process, pend, inSig)
      BY <2>1, <2>4 DEF Signal
    <3> QED
      BY <1>1, <2>3, <3>1, Stays
  <2>5. CASE IsWaiting(t)
    <3> DEFINE m == [head |-> head, next |-> next, state |-> [state EXCEPT ![t] = "READY"]]
    <3>1. state[t] = "SIG_WAIT"
      BY <1>1, <2>5 DEF IsWaiting
    <3>2. t # process
      BY <1>1, <3>1 DEF PlaceInv, Dispatching
    <3>3. Wake(t) = addToQueue(m, ready_queue, t)
      BY <2>3, <3>1 DEF Wake
    <3>4. PICK pend : SwitchTo(addToQueue(m, ready_queue, t), process, pend, inSig)
      BY <2>1, <2>5, <3>3 DEF Signal
    <3>5. /\ m \in Memory /\ m.head = head /\ m.next = next
          /\ m.state[t] = "READY" /\ \A x \in PCB \ {t} : m.state[x] = state[x]
      <4>1. m \in Memory /\ m.head = head /\ m.next = next
        BY <2>1 DEF TypeOK, M, Memory, Process_state
      <4>2. state \in [PCB -> Process_state] /\ m.state = [state EXCEPT ![t] = "READY"]
        BY DEF TypeOK, M, Memory
      <4> HIDE DEF m
      <4> QED
        BY <2>1, <4>1, <4>2
    <3> HIDE DEF m
    <3>6. lab[t] = Unlisted /\ WellLinked(M, lab) /\ lab \in Labelling
      BY <3>1, PlacedTypes DEF PlaceInv, Placed, Unqueued
    <3>7. WellLinked(m, lab) /\ SameSleepers(M, lab, m, lab) /\ SameReady(M, lab, m, lab)
      BY <2>3, <3>5, <3>6, SameLinks
    <3>8. Relabels(lab, t, Unlisted, lab)
      BY <3>6 DEF Relabels
    <3>9. Live(t)' /\ pid' = pid
      BY <1>1, <2>1 DEF Live
    <3>10. PICK lab1 : PlaceInv(lab1)' /\ Meets(lab, lab1, {t}, {}) /\ lab1[t] = ready_queue
      BY <1>1, <2>2, <3>2, <3>4, <3>5, <3>7, <3>8, <3>9, Readies
    <3>11. Meets(lab, lab1, {}, {})
      BY <3>6, <3>10 DEF Meets, Unlisted, blocked_queue, ready_queue
    <3> QED
      BY <3>10, <3>11
  <2> QED
    BY <2>4, <2>5
<1> QED
  BY <1>2, <1>3 DEF SysKill, Live

---------------------------------------------------------------------------
(* The theorems.                                                           *)
LEMMA InitPlaces ==
  Init => \E lab : PlaceInv(lab) /\ Spells(M, lab, ready_queue, <<>>)
<1> SUFFICES ASSUME Init PROVE \E lab : PlaceInv(lab) /\ Spells(M, lab, ready_queue, <<>>)
  OBVIOUS
<1> DEFINE lab == [p \in PCB |-> Unlisted]
<1>1. /\ lab \in Labelling /\ \A p \in PCB : lab[p] = Unlisted
      /\ Unlisted \notin Queue /\ sleep_queue # Unlisted
  BY ConstantTypes DEF Labelling, Unlisted, Queue, sleep_queue
<1>2. /\ M \in Memory /\ M.head = [q \in Queue |-> NULL] /\ M.next = [p \in PCB |-> NULL]
  BY InitType DEF Init, TypeOK, M
<1> HIDE DEF lab
<1>3. NULL \notin PCB
  BY ConstantTypes
<1>4. WellLinked(M, lab)
  <2>1. Labelled(M, lab) /\ SinglyLinked(M, lab)
    BY <1>1, <1>2 DEF Labelled, SinglyLinked
  <2>2. Acyclic(M)
    BY <1>2, <1>3 DEF Acyclic
  <2> QED
    BY <1>1, <1>2, <2>1, <2>2 DEF WellLinked
<1>5. \A p \in PCB : Unqueued(p)
  BY DEF Init, Unqueued, Live
<1>6. Clocked(lab) /\ Sweeping(lab)
  BY <1>1, ConstantTypes DEF Init, Clocked, Sweeping
<1>7. Dispatching
  BY ConstantTypes, PidIsNotFree DEF Init, Dispatching, Live, Root, Idle
<1>8. SendersHeld /\ Signalled
  BY ConstantTypes DEF Init, SendersHeld, Signalled
<1>9. Spells(M, lab, ready_queue, <<>>)
  <2>1. ready_queue # Unlisted /\ M.head[ready_queue] = NULL
    BY <1>2, QueueNames DEF Unlisted, ready_queue
  <2>2. <<>> \in Seq(PCB) /\ Len(<<>>) = 0
    OBVIOUS
  <2> QED
    BY <1>1, <2>1, <2>2 DEF Spells
<1> QED
  BY <1>1, <1>4, <1>5, <1>6, <1>7, <1>8, <1>9 DEF PlaceInv, Placed

(* Every step, with what it does to the rendezvous of senders and          *)
(* receivers.                                                              *)
LEMMA StepPlaces ==
  ASSUME TypeOK, UnblockedTargets, NEW lab, PlaceInv(lab), [Next]_vars
  PROVE  \/ \E lab1 : PlaceInv(lab1)' /\ Meets(lab, lab1, {}, {})
         \/ \E n \in PortArgs :
              \/ Serves(n)
              \/ /\ SysSend(n) /\ CanSend(n) /\ owner[n] # process
                 /\ ~ ReceiverWaits(owner[n]) /\ BlockSender(n)
                 /\ \E lab1 : PlaceInv(lab1)' /\ Meets(lab, lab1, {}, {n})
              \/ /\ SysPortRecv(n) /\ n \in Port /\ inUse[n] /\ procOwnsPort(process, n)
                 /\ SenderPorts(n) = {} /\ BlockReceiver(n)
                 /\ \E lab1 : PlaceInv(lab1)' /\ Meets(lab, lab1, {process}, {})
<1>1. CASE SysYield \/ SysCreate \/ SysStop \/ SysGetPid
  BY <1>1, SysYieldPlaces, SysCreatePlaces, SysStopPlaces, SysGetPidPlaces
<1>2. CASE TimerInt \/ KernelLoop
  BY <1>2, TimerIntPlaces, UnblockStepPlaces, UnblockDonePlaces, TickStepPlaces, TickDonePlaces
  DEF KernelLoop
<1>3. CASE \E t \in Millis : SysSleep(t)
  BY <1>3, SysSleepPlaces
<1>4. CASE \E n \in PortArgs : SysPortCreate(n) \/ SysPortDelete(n)
  BY <1>4, SysPortCreatePlaces, SysPortDeletePlaces
<1>5. CASE \E n \in PortArgs : SysSend(n)
  BY <1>5, SysSendPlaces
<1>6. CASE \E n \in PortArgs : SysPortRecv(n)
  BY <1>6, SysPortRecvPlaces
<1>7. CASE \E s \in SigArgs, newhandler \in {NULL, Handler} : SysSigHandle(s, newhandler)
  BY <1>7, SysSigHandlePlaces
<1>8. CASE \E i \in PCB, g \in 0 .. PidCycle - 1, s \in SigArgs : SysKill(PidOf(i, g), s)
  BY <1>8, SysKillPlaces
<1>9. CASE SysSigWait \/ SysSigReturn
  BY <1>9, SysSigWaitPlaces, SysSigReturnPlaces
<1>10. CASE UNCHANGED vars
  <2>1. /\ process' = process /\ kpc' = kpc /\ iterator' = iterator /\ work' = work
        /\ pid' = pid /\ inUse' = inUse /\ sigTable' = sigTable /\ UNCHANGED sleepVars
        /\ head' = head /\ next' = next /\ state' = state /\ M' = M
    BY <1>10 DEF vars, loopVars, idVars, portVars, sigVars, queueVars, M
  <2>2. Placed(lab)' /\ Dispatching' /\ SendersHeld' /\ Signalled'
    BY <2>1 DEF PlaceInv, Placed, Unqueued, Live, Dispatching, SendersHeld, Signalled
  <2>3. Clocked(lab)'
    BY <2>1 DEF PlaceInv, Clocked, sleepVars
  <2>4. Sweeping(lab)'
    BY <2>1 DEF PlaceInv, Sweeping, Swept, sleepVars
  <2>5. Turns(lab, lab)
    BY <2>1, UnmovedTurns
  <2>6. Meets(lab, lab, {}, {})
    BY <2>1, <2>5 DEF Meets
  <2> QED
    BY <2>2, <2>3, <2>4, <2>6 DEF PlaceInv
<1> QED
  BY <1>1, <1>2, <1>3, <1>4, <1>5, <1>6, <1>7, <1>8, <1>9, <1>10 DEF Next

(* The queue memory is well-linked and holds exactly the processes that    *)
(* wait, in every reachable state.                                         *)
THEOREM PlaceStep ==
  ASSUME UnblockedTargets
  PROVE  Spec => [](TypeOK /\ \E lab : PlaceInv(lab))
<1> DEFINE Inv == \E lab : PlaceInv(lab)
<1>1. Init => Inv
  BY InitPlaces
<1>2. TypeOK /\ Inv /\ [Next]_vars => Inv'
  <2> SUFFICES ASSUME TypeOK, Inv, [Next]_vars PROVE Inv'
    OBVIOUS
  <2>1. PICK lab : PlaceInv(lab)
    OBVIOUS
  <2> QED
    BY <2>1, StepPlaces, ServePlaces
<1> HIDE DEF Inv
<1>3. Spec => [](TypeOK /\ Inv)
  BY <1>1, <1>2, TypeCorrect, PTL DEF Spec
<1> QED
  BY <1>3 DEF Inv

LEMMA PlaceChains ==
  ASSUME NEW lab, Placed(lab), NEW p \in PCB
  PROVE  /\ \A q \in Queue : On(p, q) <=> lab[p] = q
         /\ Places(p) = IF lab[p] = Unlisted THEN {} ELSE {lab[p]}
<1>1. WellLinked(M, lab) /\ lab[p] \in Queue \cup {Unlisted} /\ Unlisted \notin Queue
  BY WellLinkedTypes DEF Placed
<1>2. \A q \in Queue : On(p, q) <=> lab[p] = q
  BY <1>1, ChainIsClass DEF On
<1> QED
  BY <1>1, <1>2 DEF Places

LEMMA OnePlaceHolds == (\E lab : PlaceInv(lab)) => OnePlace
<1> SUFFICES ASSUME NEW lab, PlaceInv(lab), NEW p \in PCB
             PROVE  IF Unqueued(p) THEN Places(p) = {}
                    ELSE \E q \in Queue : Places(p) = {q}
  BY DEF OnePlace
<1>1. lab[p] = Unlisted <=> Unqueued(p)
  BY DEF PlaceInv, Placed
<1>2. lab[p] \in Queue \cup {Unlisted}
  BY WellLinkedTypes DEF PlaceInv, Placed
<1>3. Places(p) = IF lab[p] = Unlisted THEN {} ELSE {lab[p]}
  BY PlaceChains DEF PlaceInv
<1> QED
  BY <1>1, <1>2, <1>3

(* No process is lost and none is on two queues: a live process runs, or   *)
(* waits for a signal, or is on exactly one queue (addToQueue,             *)
(* removeFromQueue, sleep, tick and contextswitch share the one PCB.next). *)
THEOREM ProcessesPlaced ==
  ASSUME UnblockedTargets
  PROVE  Spec => []OnePlace
BY OnePlaceHolds, PlaceStep, PTL

(* The sleep queue is sorted by the ticks left whenever user code runs,    *)
(* which tick relies on when it unlinks a sleeper as if it were the first. *)
THEOREM SleepersSorted ==
  ASSUME UnblockedTargets
  PROVE  Spec => []SleepSorted
<1>1. TypeOK /\ (\E lab : PlaceInv(lab)) => SleepSorted
  <2> SUFFICES ASSUME TypeOK, NEW lab, PlaceInv(lab), kpc = "user",
                      NEW x \in Chain(M, sleep_queue), next[x] # NULL
               PROVE  ticks[x] <= ticks[next[x]]
    BY DEF SleepSorted
  <2>1. WellLinked(M, lab) /\ M.next = next /\ iterator = NULL
    BY DEF PlaceInv, Placed, Sweeping, M
  <2>2. x \in PCB /\ lab[x] = sleep_queue
    BY <2>1, ChainIsClass, ConstantTypes
  <2>3. next[x] \in PCB /\ lab[next[x]] = sleep_queue
    BY <2>1, <2>2 DEF WellLinked, Labelled, Memory
  <2>4. \A p \in PCB : lab[p] = sleep_queue => ticks[p] \in Int /\ due[p] = ticks[p] + 1
    BY <2>1, AllSwept DEF TypeOK, PlaceInv, Clocked, Swept
  <2>5. due[x] <= due[next[x]]
    BY <2>2 DEF PlaceInv, Clocked
  <2> QED
    BY <2>2, <2>3, <2>4, <2>5
<1> QED
  BY <1>1, PlaceStep, PTL

(* A sleeper is woken by exactly the timer interrupt it asked for, whoever *)
(* else sleeps, wakes or goes to sleep meanwhile (sleep against tick).     *)
THEOREM SleepersOnTime ==
  ASSUME UnblockedTargets
  PROVE  Spec => []OnTime
<1>1. TypeOK /\ (\E lab : PlaceInv(lab)) => OnTime
  <2> SUFFICES ASSUME TypeOK, NEW lab, PlaceInv(lab), kpc = "user", NEW p \in PCB
               PROVE  On(p, sleep_queue) <=> due[p] > 0
    BY DEF OnTime
  <2>1. On(p, sleep_queue) <=> lab[p] = sleep_queue
    BY PlaceChains, ConstantTypes DEF PlaceInv
  <2>2. lab[p] # sleep_queue => due[p] = 0
    BY DEF PlaceInv, Clocked
  <2>3. lab[p] = sleep_queue => ticks[p] < due[p] /\ ticks[p] >= 0
    BY AllSwept DEF PlaceInv, Clocked, Sweeping, Swept
  <2>4. ticks[p] \in Int /\ due[p] \in Int
    BY DEF TypeOK
  <2> QED
    BY <2>1, <2>2, <2>3, <2>4
<1> QED
  BY <1>1, PlaceStep, PTL
===========================================================================
