----------------------------- MODULE Scheduler -----------------------------
(***************************************************************************)
(* What the kernel promises its processes about the processor: a round     *)
(* robin.  The ready processes form one first-in first-out queue; a        *)
(* process enters it at the back when it is created, preempted, yields or  *)
(* is woken, and leaves it at the front only, to run.  A process that is   *)
(* neither running nor ready is parked until somebody wakes it.  Idle runs *)
(* when nobody is ready, and is never in the queue.                        *)
(*                                                                         *)
(* There is no list, no queue memory and no process table here.            *)
(***************************************************************************)
EXTENDS Naturals, Sequences

CONSTANTS Process,   \* the processes there can be
          Idle,      \* the one that runs when no other can
          First,     \* the one that runs first
          None       \* stands for "the kernel is ending a process"

VARIABLES running, ready, parked

vars == <<running, ready, parked>>

Present == {running, Idle} \cup {ready[i] : i \in 1 .. Len(ready)} \cup parked

Init == running = First /\ ready = <<>> /\ parked = {}

(* The processor goes to the front of queue q.                             *)
RunFrontOf(q) ==
  IF q = <<>> THEN running' = Idle /\ ready' = <<>>
              ELSE running' = Head(q) /\ ready' = Tail(q)

Spawn(p) ==
  /\ p \in Process \ Present
  /\ ready' = Append(ready, p)
  /\ UNCHANGED <<running, parked>>

Rotate ==
  /\ running # None
  /\ RunFrontOf(IF running = Idle THEN ready ELSE Append(ready, running))
  /\ UNCHANGED parked

Park ==
  /\ running \notin {None, Idle}
  /\ parked' = parked \cup {running}
  /\ RunFrontOf(ready)

Wake(p) ==
  /\ p \in parked
  /\ parked' = parked \ {p}
  /\ ready' = Append(ready, p)
  /\ UNCHANGED running

(* A process ends in two steps: between them its senders are woken.        *)
Exit ==
  /\ running \notin {None, Idle}
  /\ running' = None
  /\ UNCHANGED <<ready, parked>>

Dispatch ==
  /\ running = None
  /\ RunFrontOf(ready)
  /\ UNCHANGED parked

Next ==
  \/ Rotate \/ Park \/ Exit \/ Dispatch
  \/ \E p \in Process : Spawn(p) \/ Wake(p)

Spec == Init /\ [][Next]_vars
===========================================================================
