-------------------------- MODULE KernelScheduler --------------------------
(***************************************************************************)
(* The kernel implements the round robin of Scheduler: its linked ready    *)
(* queue, read from head to tail, is the abstract queue.                   *)
(***************************************************************************)
EXTENDS Kernel, FiniteSets

(* The number of nodes of queue q from which p can be reached: the place   *)
(* of p in the queue.                                                      *)
PlaceIn(q, p) == Cardinality({x \in Chain(M, q) : p \in Reach(next, x)})

QueueSeq(q) ==
  [i \in 1 .. Cardinality(Chain(M, q)) |->
     CHOOSE p \in Chain(M, q) : PlaceIn(q, p) = i]

(* kkillproc clears the pid before the blocked senders are moved.          *)
Running == IF Live(process) THEN process ELSE NULL

Parked ==
  {p \in PCB : Live(p) /\ p \notin {process, Idle} /\ ~ On(p, ready_queue)}

Abstract == INSTANCE Scheduler WITH
  Process <- PCB, First <- Root, None <- NULL,
  running <- Running, ready <- QueueSeq(ready_queue), parked <- Parked

(* Every step of the kernel is a step of the round robin, or moves no      *)
(* process (addToQueue, find_next_ready_process and all their callers).    *)
RoundRobin == Abstract!Spec
===========================================================================
