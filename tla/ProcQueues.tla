---------------------------- MODULE ProcQueues ----------------------------
(***************************************************************************)
(* The process queues of the kernel (c/disp.c): singly linked lists of     *)
(* PCBs threaded through PCB.next.  ready_queue, blocked_queue and         *)
(* sleep_queue are global heads, and every port has a blocked_list head.   *)
(*                                                                         *)
(* The operators below are the C functions on a queue memory m, a record   *)
(*   m.head  : the PCB each queue head points at,                          *)
(*   m.next  : PCB.next,                                                   *)
(*   m.state : PCB.state (addToQueue writes it),                           *)
(* and return the memory after the call.  A PCB has one next field for all *)
(* queues, so nothing here assumes that a PCB is on a single queue.        *)
(***************************************************************************)
EXTENDS Integers

CONSTANTS
  NPCB,    \* MAX_NUMBER_OF_PCBS: slots of global_process_table
  NPORTS   \* MAX_NUMBER_OF_PORTS: entries of global_port_table

ASSUME SizeAssumption == /\ NPCB \in Nat /\ NPCB >= 2
                         /\ NPORTS \in Nat /\ NPORTS >= 1

(* A struct PCB* is the index of its slot.                                 *)
NULL == -1
PCB  == 0 .. NPCB - 1
Root == 0    \* initproc creates root first, then idle
Idle == 1    \* idle_process

(* Entries of global_port_table; NPORTS itself is one past its end.        *)
Port == 0 .. NPORTS

(* A queue is the address of its head; that of a port's blocked_list is    *)
(* the port number.                                                        *)
ready_queue   == -1
blocked_queue == -2
sleep_queue   == -3
Queue == -3 .. NPORTS

Process_state == {"RUNNING", "READY", "STOPPED", "BLOCKED", "SLEEP", "SIG_WAIT"}

Memory == [ head  : [Queue -> PCB \cup {NULL}],
            next  : [PCB -> PCB \cup {NULL}],
            state : [PCB -> Process_state] ]

(* The PCBs met when following next from h: the least set that holds h and *)
(* is closed under next.                                                   *)
Reach(next, h) ==
  {p \in PCB : \A S \in SUBSET PCB :
     (h \in S /\ \A x \in S : next[x] \in S \cup {NULL}) => p \in S}

Chain(m, q) == IF m.head[q] = NULL THEN {} ELSE Reach(m.next, m.head[q])

(* The node at which "while (iterator->next != NULL)" stops.               *)
LastOf(m, q) == CHOOSE t \in Chain(m, q) : m.next[t] = NULL

(* The node in front of p on queue q.                                      *)
PrevOf(m, q, p) == CHOOSE x \in Chain(m, q) : m.next[x] = p

---------------------------------------------------------------------------
(* addToQueue.  The three early cases come in the order of the code: an    *)
(* empty queue takes any process and leaves its state alone; only then is  *)
(* the idle process refused.  "*queue == ready_queue" compares heads.      *)
StateOnAdd(m, q, p) ==
  IF m.head[q] = m.head[blocked_queue] THEN "BLOCKED"
  ELSE IF m.head[q] = m.head[ready_queue] THEN "READY"
  ELSE m.state[p]

addToQueue_AtFront(m, q, p) ==
  IF p = Idle THEN m
  ELSE [ head  |-> [m.head EXCEPT ![q] = p],
         next  |-> [m.next EXCEPT ![p] = m.head[q]],
         state |-> [m.state EXCEPT ![p] = StateOnAdd(m, q, p)] ]

addToQueue(m, q, p) ==
  IF m.head[q] = NULL
  THEN [ head  |-> [m.head EXCEPT ![q] = p],
         next  |-> [m.next EXCEPT ![p] = NULL],
         state |-> m.state ]
  ELSE IF p = Idle THEN m
  ELSE [ head  |-> m.head,
         next  |-> [m.next EXCEPT ![LastOf(m, q)] = p, ![p] = NULL],
         state |-> [m.state EXCEPT ![p] = StateOnAdd(m, q, p)] ]

removeFirst_Swapped(m, q) ==
  [ head  |-> [m.head EXCEPT ![q] = NULL],
    next  |-> [m.next EXCEPT ![m.head[q]] = NULL],
    state |-> m.state ]

(* removeFromQueue(queue, NULL) on a queue that is not empty.              *)
removeFirst(m, q) ==
  [ head  |-> [m.head EXCEPT ![q] = m.next[m.head[q]]],
    next  |-> [m.next EXCEPT ![m.head[q]] = NULL],
    state |-> m.state ]

(* removeFromQueue(queue, process); the code returns NULL, and changes     *)
(* nothing, when process is not on the queue or is the idle process.       *)
IsRemovable(m, q, p) == p # Idle /\ p \in Chain(m, q)

removeFromQueue(m, q, p) ==
  IF ~ IsRemovable(m, q, p) THEN m
  ELSE IF m.head[q] = p THEN removeFirst(m, q)
  ELSE [ head  |-> m.head,
         next  |-> [m.next EXCEPT ![PrevOf(m, q, p)] = m.next[p], ![p] = NULL],
         state |-> m.state ]

(* sleep (c/sleep.c): insert p before the first sleeper that has more      *)
(* ticks left, behind those with as many.                                  *)
LaterSleepers_Reversed(m, ticks, p) ==
  {x \in Chain(m, sleep_queue) : ticks[x] < ticks[p]}

LaterSleepers(m, ticks, p) == {x \in Chain(m, sleep_queue) : ticks[p] < ticks[x]}

FirstLater(m, ticks, p) ==
  CHOOSE x \in LaterSleepers(m, ticks, p) :
    LaterSleepers(m, ticks, p) \subseteq Reach(m.next, x)

insertBefore(m, p, it) ==
  IF it = m.head[sleep_queue]
  THEN [ head  |-> [m.head EXCEPT ![sleep_queue] = p],
         next  |-> [m.next EXCEPT ![p] = it],
         state |-> m.state ]
  ELSE [ head  |-> m.head,
         next  |-> [m.next EXCEPT ![PrevOf(m, sleep_queue, it)] = p, ![p] = it],
         state |-> m.state ]

sleepInsert(m, ticks, p) ==
  IF m.head[sleep_queue] = NULL
  THEN [ head  |-> [m.head EXCEPT ![sleep_queue] = p],
         next  |-> m.next,
         state |-> m.state ]
  ELSE IF LaterSleepers(m, ticks, p) = {}
  THEN [ head  |-> m.head,
         next  |-> [m.next EXCEPT ![LastOf(m, sleep_queue)] = p, ![p] = NULL],
         state |-> m.state ]
  ELSE insertBefore(m, p, FirstLater(m, ticks, p))
===========================================================================
