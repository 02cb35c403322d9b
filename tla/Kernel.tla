------------------------------ MODULE Kernel ------------------------------
(***************************************************************************)
(* The kernel proper: dispatcher (c/disp.c), process creation (c/create.c),*)
(* context switch (c/ctsw.c), ports (c/msg.c), sleep (c/sleep.c) and       *)
(* signals (c/signal.c).                                                   *)
(*                                                                         *)
(* Every state in which kpc = "user" is one in which `process' executes    *)
(* user code.  A step is then a trap: a system call it makes, or the timer *)
(* interrupt, followed by everything the dispatcher does until it is back  *)
(* at contextswitch(process).  User programs are arbitrary: a process may  *)
(* make any call of Calls at any time, with any argument of the input sets.*)
(*                                                                         *)
(* The two loops of the kernel that move a whole list of processes (tick,  *)
(* unblockPort) take one step per iteration; kpc is then not "user", which *)
(* disables everything but the loop: the kernel runs with interrupts off.  *)
(*                                                                         *)
(* A definition whose name ends in _Capitalised is a variant of the one    *)
(* below it with a mistake in it.  No specification uses it: PROJECT.json  *)
(* puts it in place of the right one to see that a property notices.       *)
(***************************************************************************)
EXTENDS ProcQueues, Sequences

CONSTANTS
  PidCycle,  \* 100: a pid is slot * 100 + a counter modulo 100
  NSIGS,     \* MAX_NUMBER_OF_SIGS
  Calls,     \* the system calls that user programs make
  PortArgs,  \* port numbers they pass
  Millis,    \* sleep times they pass
  SigArgs    \* signal numbers they pass

System_call == {"SYS_YIELD", "SYS_CREATE", "SYS_STOP", "SYS_PORT_CREATE",
                "SYS_PORT_DELETE", "SYS_SEND", "SYS_PORT_RECV", "SYS_SLEEP",
                "SYS_GET_PID", "SYS_KILL", "SYS_SIG_HANDLE", "SYS_SIG_WAIT"}

ASSUME ParameterAssumption ==
  /\ PidCycle \in Nat \ {0} /\ NSIGS \in Nat \ {0}
  /\ Calls \subseteq System_call
  /\ PortArgs \subseteq Int /\ Millis \subseteq Nat /\ SigArgs \subseteq Int

VARIABLES
  process,   \* the PCB the dispatcher runs (curr_running_process)
  kpc,       \* "user", or the kernel loop in progress: "tick", "unblock"
  iterator,  \* tick's iterator
  work,      \* unblock: the ports whose blocked_list is still to be emptied
  \* PCB fields, and the queue heads
  pid, state, head, next, rc, ticks, blockedQ, ports,
  pending,   \* signal_controller, as the set of its bits
  sigTable,  \* the signals whose signal_table entry is not NULL
  inSig,     \* is_in_signal
  gen,       \* global_process_pid_table
  \* global_port_table
  inUse, owner,
  \* history variables, which no guard reads
  want,      \* the port argument of the receive a process is blocked in
  due        \* timer interrupts still to come before a sleeper is to wake

queueVars == <<head, next, state>>
idVars    == <<pid, gen>>
portVars  == <<inUse, owner, ports>>
ipcVars   == <<blockedQ, want>>
sigVars   == <<pending, sigTable, inSig>>
loopVars  == <<kpc, iterator, work>>
sleepVars == <<ticks, due>>
vars == <<process, rc, sleepVars, queueVars, idVars, portVars, ipcVars, sigVars, loopVars>>

FREE == -1   \* pid of an unused slot
Sig == 0 .. NSIGS - 1
UserEax == 1000   \* whatever user code had in eax when it was interrupted
Handler == 0      \* the address of some signal handler: not NULL

MinOf(S) == CHOOSE x \in S : \A y \in S : x <= y
MaxOf(S) == CHOOSE x \in S : \A y \in S : y <= x

(* The queue memory of ProcQueues in the current state.                    *)
M == [head |-> head, next |-> next, state |-> state]

PidOf(slot, g) == slot * PidCycle + g
find_pcb(p) == p \div PidCycle

TypeOK ==
  /\ process \in PCB
  /\ kpc \in {"user", "tick", "unblock"}
  /\ iterator \in PCB \cup {NULL}
  /\ work \in Seq(Port)
  /\ pid \in [PCB -> Int] /\ gen \in [PCB -> Int]
  /\ M \in Memory
  /\ rc \in [PCB -> Int] /\ ticks \in [PCB -> Int] /\ due \in [PCB -> Int]
  /\ ports \in [PCB -> Seq(Port)]
  /\ inUse \in [Port -> BOOLEAN] /\ owner \in [Port -> PCB \cup {NULL}]
  /\ blockedQ \in [PCB -> Queue] /\ want \in [PCB -> Int]
  /\ pending \in [PCB -> SUBSET Sig] /\ sigTable \in [PCB -> SUBSET Sig]
  /\ inSig \in [PCB -> BOOLEAN]

---------------------------------------------------------------------------
(* initproc up to the first contextswitch: root runs, idle exists.  Fields *)
(* the code leaves to the zeroed .bss of the kernel image start as zero.   *)
(* A blockedQ of NULL is entry 0 of the port table, whose list is always   *)
(* empty: no port has that number.                                         *)
Init ==
  /\ process = Root /\ kpc = "user" /\ iterator = NULL /\ work = <<>>
  /\ gen = [p \in PCB |-> IF p \in {Root, Idle} THEN 0 ELSE -1]
  /\ pid = [p \in PCB |-> IF p \in {Root, Idle} THEN PidOf(p, 0) ELSE FREE]
  /\ state = [p \in PCB |-> IF p = Root THEN "RUNNING"
                            ELSE IF p = Idle THEN "READY" ELSE "STOPPED"]
  /\ head = [q \in Queue |-> NULL]
  /\ next = [p \in PCB |-> NULL]
  /\ rc = [p \in PCB |-> 0]
  /\ ticks = [p \in PCB |-> 0] /\ due = [p \in PCB |-> 0]
  /\ ports = [p \in PCB |-> <<>>]
  /\ inUse = [n \in Port |-> FALSE] /\ owner = [n \in Port |-> NULL]
  /\ blockedQ = [p \in PCB |-> 0] /\ want = [p \in PCB |-> NULL]
  /\ pending = [p \in PCB |-> {}] /\ sigTable = [p \in PCB |-> {}]
  /\ inSig = [p \in PCB |-> FALSE]

---------------------------------------------------------------------------
(* prepare_sigtramp at the top of the dispatch loop: the highest pending   *)
(* signal is taken, unless a handler of p is already active.               *)
prepare_sigtramp_Nested(p, pend, insig) ==
  IF pend[p] # {}
  THEN /\ pending' = [pend EXCEPT ![p] = @ \ {MaxOf(@)}]
       /\ inSig' = [insig EXCEPT ![p] = TRUE]
  ELSE /\ pending' = pend
       /\ inSig' = insig

prepare_sigtramp(p, pend, insig) ==
  IF pend[p] # {} /\ ~ insig[p]
  THEN /\ pending' = [pend EXCEPT ![p] = @ \ {MaxOf(@)}]
       /\ inSig' = [insig EXCEPT ![p] = TRUE]
  ELSE /\ pending' = pend
       /\ inSig' = insig

(* The rest of an iteration of the dispatch loop, with queue memory m and  *)
(* p the process to run: signal delivery, then contextswitch(p).           *)
SwitchTo(m, p, pend, insig) ==
  /\ process' = p
  /\ head' = m.head
  /\ next' = [m.next EXCEPT ![p] = NULL]
  /\ state' = [m.state EXCEPT ![p] = "RUNNING"]
  /\ prepare_sigtramp(p, pend, insig)
  /\ kpc' = "user" /\ iterator' = NULL /\ work' = <<>>

(* process = find_next_ready_process()                                     *)
find_next_ready_process(m) ==
  IF m.head[ready_queue] = NULL
  THEN SwitchTo(m, Idle, pending, inSig)
  ELSE SwitchTo(removeFirst(m, ready_queue), m.head[ready_queue], pending, inSig)

(* A call that returns r to its caller at once.                            *)
Return(m, r) ==
  /\ SwitchTo(m, process, pending, inSig)
  /\ rc' = [rc EXCEPT ![process] = r]

Call(c) == kpc = "user" /\ process # Idle /\ c \in Calls

---------------------------------------------------------------------------
(* disp.c, create.c: processes                                             *)
SysYield ==
  /\ Call("SYS_YIELD")
  /\ find_next_ready_process(addToQueue(M, ready_queue, process))
  /\ UNCHANGED <<rc, sleepVars, idVars, portVars, ipcVars, sigTable>>

(* create: kmalloc is taken to succeed, its result is not tested.  Some    *)
(* fields keep the value of the slot's last process: rc, ticks,            *)
(* blocked_queue.                                                          *)
FreeSlots == {i \in PCB : pid[i] = FREE}

CreateIn(i) ==
  LET g == (gen[i] + 1) % PidCycle
      m == [head  |-> head,
            next  |-> [next EXCEPT ![i] = NULL],
            state |-> [state EXCEPT ![i] = "READY"]]
  IN  /\ gen' = [gen EXCEPT ![i] = g]
      /\ pid' = [pid EXCEPT ![i] = PidOf(i, g)]
      /\ ports' = [ports EXCEPT ![i] = <<>>]
      /\ sigTable' = [sigTable EXCEPT ![i] = {}]
      /\ SwitchTo(addToQueue(m, ready_queue, i), process,
                  [pending EXCEPT ![i] = {}], [inSig EXCEPT ![i] = FALSE])
      /\ rc' = [rc EXCEPT ![process] = PidOf(i, g)]

SysCreate ==
  /\ Call("SYS_CREATE")
  /\ \/ /\ FreeSlots # {}
        /\ CreateIn(MinOf(FreeSlots))
     \/ /\ FreeSlots = {}
        /\ Return(M, -1)
        /\ UNCHANGED <<idVars, ports, sigTable>>
  /\ UNCHANGED <<sleepVars, inUse, owner, ipcVars>>

SysGetPid ==
  /\ Call("SYS_GET_PID")
  /\ Return(M, pid[process])
  /\ UNCHANGED <<sleepVars, idVars, portVars, ipcVars, sigTable>>

ListsPort(p, n) == \E k \in 1 .. Len(ports[p]) : ports[p][k] = n

InUseAfterExit_Leak(p) == inUse

InUseAfterExit(p) == [n \in Port |-> inUse[n] /\ ~ ListsPort(p, n)]

(* kkillproc and kdestroyallports; the loop over the blocked senders is    *)
(* UnblockStep, and UnblockDone picks the next process.                    *)
SysStop ==
  /\ Call("SYS_STOP")
  /\ state' = [state EXCEPT ![process] = "STOPPED"]
  /\ pid' = [pid EXCEPT ![process] = FREE]
  /\ next' = [next EXCEPT ![process] = NULL]
  /\ inUse' = InUseAfterExit(process)
  /\ kpc' = "unblock"
  /\ work' = ports[process]
  /\ UNCHANGED <<process, head, rc, sleepVars, gen, owner, ports, ipcVars, sigVars, iterator>>

(* unblockPort: move the senders of the ports of work to the ready queue.  *)
UnblockStep ==
  /\ kpc = "unblock" /\ work # <<>>
  /\ IF head[Head(work)] = NULL
     THEN work' = Tail(work) /\ UNCHANGED queueVars
     ELSE LET m == addToQueue(removeFirst(M, Head(work)), ready_queue, head[Head(work)])
          IN  head' = m.head /\ next' = m.next /\ state' = m.state /\ UNCHANGED work
  /\ UNCHANGED <<process, kpc, iterator, rc, sleepVars, idVars, portVars, ipcVars, sigVars>>

UnblockDone ==
  /\ kpc = "unblock" /\ work = <<>>
  /\ IF pid[process] = FREE
     THEN find_next_ready_process(M)
     ELSE SwitchTo(M, process, pending, inSig)
  /\ UNCHANGED <<rc, sleepVars, idVars, portVars, ipcVars, sigTable>>

---------------------------------------------------------------------------
Preempt_KeepsRunning ==
  SwitchTo(M, process, pending, inSig)

(* The rest of case TIMER_INT.  When the ready queue is empty even the     *)
(* idle process goes through it.                                           *)
Preempt ==
  LET m == [head |-> head, next |-> next,
            state |-> [state EXCEPT ![process] = "READY"]]
  IN  find_next_ready_process(addToQueue(m, ready_queue, process))

(* TIMER_INT.  Signal handlers run with eflags = 0, that is with           *)
(* interrupts disabled.  contextswitch saves eax in rc, and tick returns   *)
(* at once when nobody sleeps.                                             *)
TimerInt ==
  /\ kpc = "user" /\ ~ inSig[process]
  /\ rc' = [rc EXCEPT ![process] = UserEax]
  /\ \/ head[sleep_queue] = NULL /\ Preempt
     \/ /\ head[sleep_queue] # NULL
        /\ kpc' = "tick" /\ iterator' = head[sleep_queue]
        /\ UNCHANGED <<process, work, queueVars, pending, inSig>>
  /\ due' = [p \in PCB |-> IF due[p] > 0 THEN due[p] - 1 ELSE due[p]]
  /\ UNCHANGED <<ticks, idVars, portVars, ipcVars, sigTable>>

Expired_Early(t) == t <= 0

Expired(t) == t < 0

Unlink_Swapped(p) ==
  [ head  |-> [head EXCEPT ![sleep_queue] = NULL],
    next  |-> [next EXCEPT ![p] = NULL],
    state |-> state ]

(* sleep_queue = iterator->next: tick takes p to be the first sleeper.     *)
Unlink(p) ==
  [ head  |-> [head EXCEPT ![sleep_queue] = next[p]],
    next  |-> [next EXCEPT ![p] = NULL],
    state |-> state ]

(* One iteration of the loop of tick (c/sleep.c).                          *)
TickStep ==
  /\ kpc = "tick" /\ iterator # NULL
  /\ ticks' = [ticks EXCEPT ![iterator] = @ - 1]
  /\ iterator' = next[iterator]
  /\ IF Expired(ticks[iterator] - 1)
     THEN LET m == addToQueue(Unlink(iterator), ready_queue, iterator)
          IN  head' = m.head /\ next' = m.next /\ state' = m.state
     ELSE UNCHANGED queueVars
  /\ UNCHANGED <<process, kpc, work, rc, due, idVars, portVars, ipcVars, sigVars>>

TickDone ==
  /\ kpc = "tick" /\ iterator = NULL
  /\ Preempt
  /\ UNCHANGED <<rc, sleepVars, idVars, portVars, ipcVars, sigTable>>

SysSleep(milliseconds) ==
  /\ Call("SYS_SLEEP")
  /\ IF milliseconds > 0
     THEN LET t == [ticks EXCEPT ![process] = milliseconds \div 10]
              m == [head |-> head, next |-> next,
                    state |-> [state EXCEPT ![process] = "SLEEP"]]
          IN  /\ ticks' = t
              /\ due' = [due EXCEPT ![process] = t[process] + 1]
              /\ find_next_ready_process(sleepInsert(m, t, process))
     ELSE /\ SwitchTo(M, process, pending, inSig)
          /\ UNCHANGED sleepVars
  /\ UNCHANGED <<rc, idVars, portVars, ipcVars, sigTable>>

---------------------------------------------------------------------------
(* msg.c: ports                                                            *)
(* The range test lets NPORTS through, an index past the table.            *)
ValidPort(n) == n >= 0 /\ n <= NPORTS

FreePorts_IgnoreInUse == 1 .. NPORTS - 1

FreePorts == {n \in 1 .. NPORTS - 1 : ~ inUse[n]}   \* findNextFreePort

OpenPort(n) ==
  /\ inUse' = [inUse EXCEPT ![n] = TRUE]
  /\ owner' = [owner EXCEPT ![n] = process]
  /\ ports' = [ports EXCEPT ![process] = Append(@, n)]   \* addPortToPCB
  /\ Return([head |-> [head EXCEPT ![n] = NULL], next |-> next, state |-> state], n)

RefusePort(r) == Return(M, r) /\ UNCHANGED portVars

SysPortCreate(n) ==
  /\ Call("SYS_PORT_CREATE")
  /\ \/ ~ ValidPort(n) /\ RefusePort(-2)
     \/ ValidPort(n) /\ n # 0 /\ inUse[n] /\ RefusePort(-1)
     \/ ValidPort(n) /\ n # 0 /\ ~ inUse[n] /\ OpenPort(n)
     \/ n = 0 /\ FreePorts = {} /\ RefusePort(-3)
     \/ n = 0 /\ FreePorts # {} /\ OpenPort(MinOf(FreePorts))
  /\ UNCHANGED <<sleepVars, idVars, ipcVars, sigTable>>

(* kdestroyport, for a port of the table: numbers outside it, which the    *)
(* code does not refuse, are not modelled.  The walk never advances prev,  *)
(* so the ports in front of the destroyed one leave the list of the        *)
(* process with it.                                                        *)
Position(s, n) == MinOf({k \in 1 .. Len(s) : s[k] = n})

SysPortDelete(n) ==
  /\ Call("SYS_PORT_DELETE") /\ n \in Port
  /\ IF owner[n] = process /\ ListsPort(process, n)
     THEN /\ inUse' = [inUse EXCEPT ![n] = FALSE]
          /\ ports' = [ports EXCEPT ![process] = SubSeq(@, Position(@, n) + 1, Len(@))]
          /\ rc' = [rc EXCEPT ![process] = 1]
          /\ kpc' = "unblock" /\ work' = <<n>>
          /\ UNCHANGED <<process, iterator, queueVars, pending, inSig>>
     ELSE Return(M, -1) /\ UNCHANGED <<inUse, ports>>
  /\ UNCHANGED <<sleepVars, owner, idVars, ipcVars, sigTable>>

CanSend_NotOpen(n) == ValidPort(n) /\ n # 0

CanSend(n) == ValidPort(n) /\ n # 0 /\ inUse[n]

(* ksendtoport.  unblockProcess looks for the owner on blocked_queue,      *)
(* whatever it is blocked for, and recv_proc->msg is written through.      *)
ReceiverWaits(r) == IsRemovable(M, blocked_queue, r)

Deliver(n, r) ==
  /\ SwitchTo(addToQueue(removeFromQueue(M, blocked_queue, r), ready_queue, r),
              process, pending, inSig)
  /\ want' = [want EXCEPT ![r] = NULL]
  /\ rc' = [rc EXCEPT ![r] = n, ![process] = 1]
  /\ UNCHANGED blockedQ

BlockSender(n) ==
  /\ LET m == [head |-> head, next |-> next,
               state |-> [state EXCEPT ![process] = "BLOCKED"]]
     IN  find_next_ready_process(addToQueue(m, n, process))
  /\ blockedQ' = [blockedQ EXCEPT ![process] = n]
  /\ rc' = [rc EXCEPT ![process] = -2]
  /\ UNCHANGED want

SysSend(n) ==
  /\ Call("SYS_SEND")
  /\ \/ ~ CanSend(n) /\ Return(M, -1) /\ UNCHANGED ipcVars
     \/ /\ CanSend(n)
        /\ \/ owner[n] = process /\ Return(M, -3) /\ UNCHANGED ipcVars
           \/ owner[n] # process /\ ReceiverWaits(owner[n]) /\ Deliver(n, owner[n])
           \/ owner[n] # process /\ ~ ReceiverWaits(owner[n]) /\ BlockSender(n)
  /\ UNCHANGED <<sleepVars, idVars, portVars, sigTable>>

(* krecvfromport.  Port 0 stands for every port of the receiver.           *)
procOwnsPort(p, n) == n = 0 \/ owner[n] = p

SenderPorts_AnyOnly(n) ==
  IF n # 0 THEN {}
  ELSE {k \in Port : ListsPort(process, k) /\ head[k] # NULL}

(* The ports a receive on n looks at that have a sender blocked.           *)
SenderPorts(n) ==
  IF n # 0 THEN {n} \cap {k \in Port : head[k] # NULL}
  ELSE {k \in Port : ListsPort(process, k) /\ head[k] # NULL}

FirstSenderPort(n) ==
  CHOOSE k \in SenderPorts(n) :
    n = 0 => \A j \in SenderPorts(n) :
               Position(ports[process], k) <= Position(ports[process], j)

TakeMessage(n, k) ==
  LET s == head[k]
  IN  /\ SwitchTo(addToQueue(removeFirst(M, k), ready_queue, s), process, pending, inSig)
      /\ rc' = [rc EXCEPT ![s] = 1, ![process] = n]
      /\ UNCHANGED ipcVars

BlockReceiver(n) ==
  /\ LET m == [head |-> head, next |-> next,
               state |-> [state EXCEPT ![process] = "BLOCKED"]]
     IN  find_next_ready_process(addToQueue(m, blocked_queue, process))
  /\ blockedQ' = [blockedQ EXCEPT ![process] = blocked_queue]
  /\ want' = [want EXCEPT ![process] = n]
  /\ rc' = [rc EXCEPT ![process] = -2]

SysPortRecv(n) ==
  /\ Call("SYS_PORT_RECV")
  /\ \/ /\ ~ ValidPort(n) \/ (ValidPort(n) /\ (~ inUse[n] \/ ~ procOwnsPort(process, n)))
        /\ Return(M, -1) /\ UNCHANGED ipcVars
     \/ /\ ValidPort(n) /\ inUse[n] /\ procOwnsPort(process, n)
        /\ IF SenderPorts(n) # {} THEN TakeMessage(n, FirstSenderPort(n))
                                  ELSE BlockReceiver(n)
  /\ UNCHANGED <<sleepVars, idVars, portVars, sigTable>>

---------------------------------------------------------------------------
(* signal.c                                                                *)
ValidSig_OffByOne(s) == s >= 0 /\ s <= NSIGS

ValidSig(s) == s >= 0 /\ s <= NSIGS - 1

ValidHandler_Any(newhandler) == TRUE

ValidHandler(newhandler) == newhandler # NULL

(* signal_table[s] = newhandler.                                           *)
SetHandler(table, s, newhandler) ==
  IF newhandler = NULL THEN table \ {s} ELSE table \cup {s}

SysSigHandle(s, newhandler) ==
  /\ Call("SYS_SIG_HANDLE")
  /\ IF ~ ValidSig(s) THEN UNCHANGED sigTable /\ Return(M, -1)
     ELSE IF ~ ValidHandler(newhandler) THEN UNCHANGED sigTable /\ Return(M, -2)
     ELSE /\ sigTable' = [sigTable EXCEPT ![process] = SetHandler(@, s, newhandler)]
          /\ Return(M, 0)
  /\ UNCHANGED <<sleepVars, idVars, portVars, ipcVars>>

(* signal(): queue memory after the target t was taken out of its wait.    *)
Wake(t) ==
  LET m == IF state[t] = "BLOCKED" THEN removeFromQueue(M, blockedQ[t], t) ELSE M
  IN  addToQueue([head  |-> m.head, next |-> m.next,
                  state |-> [m.state EXCEPT ![t] = "READY"]], ready_queue, t)

IsWaiting_NotReady(t) == state[t] # "READY"

IsWaiting(t) == state[t] \in {"BLOCKED", "SIG_WAIT"}

HasHandler(t, s) == s \in sigTable[t]

Signal(t, s) ==
  LET waits == IsWaiting(t)
  IN  /\ SwitchTo(IF waits THEN Wake(t) ELSE M, process,
                  [pending EXCEPT ![t] = @ \cup {s}], inSig)
      /\ rc' = [rc EXCEPT ![t] = IF state[t] = "BLOCKED" THEN -452
                                 ELSE IF state[t] = "SIG_WAIT" THEN s ELSE @,
                          ![process] = 0]
      /\ want' = [want EXCEPT ![t] = IF waits THEN NULL ELSE @]

(* Pids beyond the process table make find_pcb read past it: not modelled. *)
SysKill(target, s) ==
  /\ Call("SYS_KILL") /\ find_pcb(target) \in PCB
  /\ LET t == find_pcb(target)
     IN  IF pid[t] = FREE \/ pid[t] # target THEN Return(M, -90) /\ UNCHANGED want
         ELSE IF ~ ValidSig(s) THEN Return(M, -68) /\ UNCHANGED want
         ELSE IF ~ HasHandler(t, s) THEN Return(M, 0) /\ UNCHANGED want
         ELSE Signal(t, s)
  /\ UNCHANGED <<sleepVars, idVars, portVars, blockedQ, sigTable>>

NothingPending_Unchecked(p) == TRUE

NothingPending(p) == pending[p] = {}

SysSigWait ==
  /\ Call("SYS_SIG_WAIT")
  /\ IF NothingPending(process)
     THEN find_next_ready_process([head |-> head, next |-> next,
            state |-> [state EXCEPT ![process] = "SIG_WAIT"]])
     ELSE SwitchTo(M, process, pending, inSig)
  /\ UNCHANGED <<rc, sleepVars, idVars, portVars, ipcVars, sigTable>>

(* The handler returns into sigtramp, which makes SYS_SIG_RETURN (only     *)
(* sigtramp makes it here).  The rc read back, one byte off the saved      *)
(* slot, is not the saved one; the interrupted frame keeps the right eax.  *)
SysSigReturn ==
  /\ kpc = "user" /\ inSig[process]
  /\ SwitchTo(M, process, pending, [inSig EXCEPT ![process] = FALSE])
  /\ rc' = [rc EXCEPT ![process] = UserEax]
  /\ UNCHANGED <<sleepVars, idVars, portVars, ipcVars, sigTable>>

---------------------------------------------------------------------------
KernelLoop == UnblockStep \/ UnblockDone \/ TickStep \/ TickDone

Next ==
  \/ SysYield \/ SysCreate \/ SysStop \/ SysGetPid
  \/ TimerInt \/ KernelLoop
  \/ \E t \in Millis : SysSleep(t)
  \/ \E n \in PortArgs : SysPortCreate(n) \/ SysPortDelete(n) \/ SysPortRecv(n)
                       \/ SysSend(n)
  \/ \E s \in SigArgs, newhandler \in {NULL, Handler} : SysSigHandle(s, newhandler)
  \/ \E i \in PCB, g \in 0 .. PidCycle - 1, s \in SigArgs : SysKill(PidOf(i, g), s)
  \/ SysSigWait \/ SysSigReturn

Spec == Init /\ [][Next]_vars

(* The kernel runs its loops to the end, the 8259 keeps a timer interrupt  *)
(* until the processor takes it, and signal handlers return.               *)
Fairness == WF_vars(KernelLoop) /\ SF_vars(TimerInt) /\ SF_vars(SysSigReturn)

FairSpec == Spec /\ Fairness

---------------------------------------------------------------------------
(* Properties.                                                             *)
On(p, q) == p \in Chain(M, q)
Places(p) == {q \in Queue : On(p, q)}
Live(p) == pid[p] # FREE

(* No process is lost and none is queued twice: a live process is running, *)
(* or waits for a signal, or is on exactly one queue; the idle process is  *)
(* on none (addToQueue, removeFromQueue, sleep, tick and contextswitch all *)
(* write the one PCB.next).                                                *)
Unqueued(p) == ~ Live(p) \/ p = process \/ p = Idle \/ state[p] = "SIG_WAIT"

OnePlace ==
  \A p \in PCB : IF Unqueued(p) THEN Places(p) = {}
                 ELSE \E q \in Queue : Places(p) = {q}

(* The port table and the port lists of the PCBs agree: an open port is in *)
(* the list of a live process, its owner, and lists hold open ports only,  *)
(* so a port never outlives its process (kcreateport, kdestroyport,        *)
(* kdestroyallports).                                                      *)
PortsAgree ==
  kpc = "user" =>
    /\ \A n \in Port : inUse[n] => owner[n] \in PCB /\ Live(owner[n])
    /\ \A p \in PCB, n \in Port :
         Live(p) => (ListsPort(p, n) <=> inUse[n] /\ owner[n] = p)

(* A sender blocked on a port can still be reached: the port is open and   *)
(* its owner, who may yet receive or destroy it, is alive and lists it     *)
(* (ksendtoport against kdestroyport and kdestroyallports).                *)
NoStrandedSender ==
  kpc = "user" =>
    \A n \in Port : head[n] # NULL =>
      inUse[n] /\ owner[n] \in PCB /\ Live(owner[n]) /\ ListsPort(owner[n], n)

(* No rendezvous is missed: a process blocked in a receive still owns the  *)
(* open port it waits for, and no sender is blocked on it at the same time *)
(* (ksendtoport against krecvfromport).                                    *)
NoMissedRendezvous ==
  \A r \in PCB : On(r, blocked_queue) =>
    want[r] \in Port /\ inUse[want[r]] /\ owner[want[r]] = r /\ head[want[r]] = NULL

(* A receiver that stops waiting was interrupted by a signal, or got a     *)
(* message of a port in its own list: never one that was sent to a port    *)
(* of an earlier process in its PCB, whose entry in the table still names  *)
(* the PCB as the owner (ksendtoport, kdestroyallports).  It need not be   *)
(* the port it asked for: RecvGetsItsPort.                                 *)
ReceivesOnOwnPort ==
  [][\A r \in PCB : On(r, blocked_queue) /\ ~ On(r, blocked_queue)' =>
       rc'[r] = -452 \/ ListsPort(r, rc'[r])]_vars

(* A receiver that stops waiting got a message of the port it asked for,   *)
(* or was interrupted by a signal.  "if receiver is waiting on the         *)
(* blocked_queue with same port number" (c/msg.c, ksendtoport).            *)
RecvGetsItsPort ==
  [][\A r \in PCB : On(r, blocked_queue) /\ ~ On(r, blocked_queue)' =>
       rc'[r] \in {want[r], -452}]_vars

(* The sleep queue is sorted by the ticks left, which tick relies on when  *)
(* it unlinks a sleeper as if it were the first.                           *)
SleepSorted ==
  kpc = "user" =>
    \A x \in Chain(M, sleep_queue) : next[x] # NULL => ticks[x] <= ticks[next[x]]

(* A sleeper is woken by exactly the timer interrupt it asked for: not     *)
(* early, not late, whoever else sleeps, wakes or goes to sleep meanwhile. *)
OnTime ==
  kpc = "user" => \A p \in PCB : On(p, sleep_queue) <=> due[p] > 0

(* A signal that is to be delivered has a handler, so that sigtramp never  *)
(* calls through NULL, also after the PCB was reused (signal, create).     *)
PendingHasHandler == \A p \in PCB : pending[p] \subseteq sigTable[p]

(* Signals are handled in turn and none is lost: one that was to be        *)
(* delivered goes away with its process, or because its handler now runs,  *)
(* and then no handler of the process was active before, but for one that  *)
(* has just returned, and no higher signal is left behind (signal,         *)
(* prepare_sigtramp, SYS_SIG_RETURN and create in any order).              *)
SignalsInTurn ==
  [][\A p \in PCB : \A s \in pending[p] \ pending'[p] :
       \/ pid'[p] # pid[p]
       \/ /\ process' = p /\ inSig'[p]
          /\ inSig[p] => SysSigReturn
          /\ \A t \in pending'[p] : t < s]_vars

(* No wakeup is lost: a process that waits for a signal has none pending   *)
(* (signal against SYS_SIG_WAIT, whose test may run in a handler while     *)
(* further signals arrive).                                                *)
SigWaitNonePending ==
  \A p \in PCB : Live(p) /\ state[p] = "SIG_WAIT" => pending[p] = {}

(* "If blocked, pcb is in this blocked_queue" (h/xeroskernel.h).           *)
BlockedInItsQueue ==
  \A p \in PCB : Live(p) /\ state[p] = "BLOCKED" => On(p, blockedQ[p])

(* "Adds a PCB to the end of the specified queue" (h/xeroskernel.h,        *)
(* addToQueue): a call that does not give up the processor adds processes  *)
(* to the ready queue and takes none off it.                               *)
ReadyQueueGrows ==
  [][kpc = "user" /\ kpc' = "user" /\ process' = process =>
       \A p \in PCB : On(p, ready_queue) => On(p, ready_queue)']_vars

(* Every ready process runs, whatever the others do (find_next_ready_      *)
(* process and the timer).                                                 *)
ReadyRuns == \A p \in PCB : On(p, ready_queue) ~> process = p

(* Every sleeper runs again (tick).                                        *)
SleeperRuns == \A p \in PCB : On(p, sleep_queue) ~> process = p

(* "If port number is 0, check blocked queue for every port" (c/msg.c,     *)
(* krecvfromport): such a receive does not fail while a sender is blocked  *)
(* on a port of the caller.                                                *)
RecvAnyTakesMessage ==
  [][SysPortRecv(0) /\ SenderPorts(0) # {} => rc'[process] # -1]_vars

(* "Port must be greater than or equal to 0 and less than %d"              *)
(* (kcreateport, with MAX_NUMBER_OF_PORTS): no port past the end of the    *)
(* table is created.                                                       *)
PortsInTable == \A n \in Port : inUse[n] => n < NPORTS
===========================================================================
