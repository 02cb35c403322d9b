--------------------------- MODULE KernelProofs ---------------------------
(***************************************************************************)
(* Theorems about Kernel that hold for every value of its constants: any   *)
(* number of processes and ports, any set of calls, any arguments.         *)
(*                                                                         *)
(*   TypeCorrect      the type invariant;                                  *)
(*   HandlersPresent  a pending signal has a handler;                      *)
(*   NoLostWakeup     who waits for a signal has none pending.             *)
(*   HandledInTurn    signals are handled one at a time, highest first.    *)
(***************************************************************************)
EXTENDS Kernel, QueueProofs, FiniteSetTheorems

(* The parts of the state by type, as TypeOK lists them.                   *)
SignalTypes ==
  /\ pending \in [PCB -> SUBSET Sig] /\ sigTable \in [PCB -> SUBSET Sig]
  /\ inSig \in [PCB -> BOOLEAN]

---------------------------------------------------------------------------
(* Arithmetic.                                                             *)

(* A set of naturals that is not empty has a least element: among its      *)
(* initial segments 0..x one is least for strict inclusion.                *)
LEMMA MinExists ==
  ASSUME NEW S \in SUBSET Nat, S # {}
  PROVE  MinOf(S) \in S /\ \A y \in S : MinOf(S) <= y
<1> DEFINE T == {0 .. x : x \in S}
           R == StrictSubsetOrdering(Nat)
<1>1. IsWellFoundedOn(R, FiniteSubsetsOf(Nat))
  BY FS_StrictSubsetOrderingWellFounded
<1>2. T \subseteq FiniteSubsetsOf(Nat) /\ T # {}
  <2>1. ASSUME NEW x \in S PROVE 0 .. x \in FiniteSubsetsOf(Nat)
    <3>1. x \in Int /\ 0 \in Int /\ 0 .. x \in SUBSET Nat
      OBVIOUS
    <3>2. IsFiniteSet(0 .. x)
      BY <3>1, FS_Interval
    <3> QED
      BY <3>1, <3>2 DEF FiniteSubsetsOf
  <2> QED
    BY <2>1
<1>3. PICK t \in T : \A u \in T : ~ (<<u, t>> \in R)
  <2> HIDE DEF T, R
  <2> QED
    BY <1>1, <1>2, WFMin
<1>4. PICK x \in S : t = 0 .. x
  OBVIOUS
<1>5. ASSUME NEW y \in S, y < x PROVE FALSE
  <2>1. 0 .. y \in T /\ 0 .. y \in SUBSET Nat /\ t \in SUBSET Nat
    BY <1>4
  <2>2. 0 .. y \subseteq t /\ 0 .. y # t
    BY <1>4, <1>5
  <2> QED
    BY <2>1, <2>2, <1>3 DEF StrictSubsetOrdering
<1>6. \E z \in S : \A y \in S : z <= y
  BY <1>5
<1> QED
  BY <1>6 DEF MinOf

LEMMA PidIsInt ==
  ASSUME NEW i \in PCB, NEW g \in Int
  PROVE  PidOf(i, g) \in Int
<1>1. PidCycle \in Int /\ i \in Int
  BY ParameterAssumption DEF PCB
<1>2. i * PidCycle \in Int
  BY <1>1
<1> QED
  BY <1>2 DEF PidOf

---------------------------------------------------------------------------
(* Constants.                                                              *)
LEMMA ConstantTypes ==
  /\ Root \in PCB /\ Idle \in PCB /\ Root # Idle
  /\ ready_queue \in Queue /\ blocked_queue \in Queue /\ sleep_queue \in Queue
  /\ Port \subseteq Queue /\ Port \subseteq Nat /\ PCB \subseteq Nat
  /\ NULL \notin PCB
BY SizeAssumption DEF Root, Idle, PCB, Port, Queue, ready_queue, blocked_queue,
                      sleep_queue, NULL

---------------------------------------------------------------------------
(* The dispatcher.                                                         *)
LEMMA SwitchToType ==
  ASSUME NEW m \in Memory, NEW p \in PCB,
         NEW pend \in [PCB -> SUBSET Sig], NEW insig \in [PCB -> BOOLEAN],
         SwitchTo(m, p, pend, insig)
  PROVE  /\ process' \in PCB /\ kpc' = "user" /\ iterator' = NULL
         /\ work' \in Seq(Port) /\ M' \in Memory
         /\ pending' \in [PCB -> SUBSET Sig] /\ inSig' \in [PCB -> BOOLEAN]
<1>1. M' = [ head  |-> m.head,
             next  |-> [m.next EXCEPT ![p] = NULL],
             state |-> [m.state EXCEPT ![p] = "RUNNING"] ]
  BY DEF SwitchTo, M
<1>2. M' \in Memory
  BY <1>1 DEF Memory, Process_state
<1>3. pending' \in [PCB -> SUBSET Sig] /\ inSig' \in [PCB -> BOOLEAN]
  BY DEF SwitchTo, prepare_sigtramp
<1> QED
  BY <1>2, <1>3 DEF SwitchTo

LEMMA FindNextType ==
  ASSUME NEW m \in Memory, find_next_ready_process(m), SignalTypes
  PROVE  /\ process' \in PCB /\ kpc' = "user" /\ iterator' = NULL
         /\ work' \in Seq(Port) /\ M' \in Memory
         /\ pending' \in [PCB -> SUBSET Sig] /\ inSig' \in [PCB -> BOOLEAN]
<1> USE ConstantTypes
<1>1. CASE m.head[ready_queue] = NULL
  BY <1>1, SwitchToType DEF find_next_ready_process, SignalTypes
<1>2. CASE m.head[ready_queue] # NULL
  <2>1. removeFirst(m, ready_queue) \in Memory /\ m.head[ready_queue] \in PCB
    BY <1>2, RemoveFirstType
  <2>2. SwitchTo(removeFirst(m, ready_queue), m.head[ready_queue], pending, inSig)
    BY <1>2 DEF find_next_ready_process
  <2> QED
    BY <2>1, <2>2, SwitchToType DEF SignalTypes
<1> QED
  BY <1>1, <1>2

(* Queue memories the calls start from.                                    *)
LEMMA StateWritten ==
  ASSUME M \in Memory, NEW p \in PCB, NEW s \in Process_state
  PROVE  [head |-> head, next |-> next, state |-> [state EXCEPT ![p] = s]] \in Memory
BY DEF M, Memory

LEMMA HeadIsNullOrPCB ==
  ASSUME M \in Memory, NEW q \in Queue
  PROVE  head[q] \in PCB \cup {NULL}
BY DEF M, Memory

---------------------------------------------------------------------------
(* TypeOK is preserved, action by action.                                  *)
LEMMA ReturnType ==
  ASSUME TypeOK, NEW m \in Memory, NEW r \in Int, Return(m, r)
  PROVE  /\ process' \in PCB /\ kpc' = "user" /\ iterator' = NULL
         /\ work' \in Seq(Port) /\ M' \in Memory
         /\ pending' \in [PCB -> SUBSET Sig] /\ inSig' \in [PCB -> BOOLEAN]
         /\ rc' \in [PCB -> Int]
<1>1. SwitchTo(m, process, pending, inSig)
  BY DEF Return
<1>2. rc' \in [PCB -> Int]
  BY DEF Return, TypeOK
<1> QED
  BY <1>1, <1>2, SwitchToType DEF TypeOK

LEMMA MemoryUnchanged ==
  ASSUME UNCHANGED queueVars
  PROVE  M' = M
BY DEF queueVars, M

LEMMA SysYieldType == TypeOK /\ SysYield => TypeOK'
<1> SUFFICES ASSUME TypeOK, SysYield PROVE TypeOK'
  OBVIOUS
<1>1. addToQueue(M, ready_queue, process) \in Memory
  BY ConstantTypes, AddToQueueType DEF TypeOK
<1> QED
  BY <1>1, FindNextType
  DEF SysYield, TypeOK, SignalTypes, sleepVars, idVars, portVars, ipcVars

LEMMA SysCreateType == TypeOK /\ SysCreate => TypeOK'
<1> SUFFICES ASSUME TypeOK, SysCreate PROVE TypeOK'
  OBVIOUS
<1> USE DEF sleepVars, idVars, ipcVars
<1>1. CASE FreeSlots = {}
  <2>1. Return(M, -1) /\ UNCHANGED <<idVars, ports, sigTable, sleepVars, inUse, owner, ipcVars>>
    BY <1>1 DEF SysCreate
  <2>2. M \in Memory /\ -1 \in Int
    BY DEF TypeOK
  <2> QED
    BY <2>1, <2>2, ReturnType DEF TypeOK
<1>2. CASE FreeSlots # {}
  <2> DEFINE i == MinOf(FreeSlots)
             g == (gen[i] + 1) % PidCycle
             m == [head  |-> head,
                   next  |-> [next EXCEPT ![i] = NULL],
                   state |-> [state EXCEPT ![i] = "READY"]]
  <2>1. i \in PCB
    <3>1. FreeSlots \in SUBSET Nat
      BY ConstantTypes DEF FreeSlots
    <3>2. i \in FreeSlots
      BY <1>2, <3>1, MinExists
    <3> QED
      BY <3>2 DEF FreeSlots
  <2>2. g \in Int
    <3>1. gen[i] \in Int /\ PidCycle \in Nat \ {0}
      BY <2>1, ParameterAssumption DEF TypeOK
    <3> QED
      BY <3>1
  <2>3. PidOf(i, g) \in Int
    BY <2>1, <2>2, PidIsInt
  <2>4. CreateIn(i) /\ UNCHANGED <<sleepVars, inUse, owner, ipcVars>>
    BY <1>2 DEF SysCreate
  <2>5. m \in Memory
    BY <2>1 DEF TypeOK, M, Memory, Process_state
  <2>6. addToQueue(m, ready_queue, i) \in Memory
    <3> HIDE DEF m, i
    <3> QED
      BY <2>1, <2>5, ConstantTypes, AddToQueueType
  <2>7. /\ [pending EXCEPT ![i] = {}] \in [PCB -> SUBSET Sig]
        /\ [inSig EXCEPT ![i] = FALSE] \in [PCB -> BOOLEAN]
    BY DEF TypeOK
  <2>8. SwitchTo(addToQueue(m, ready_queue, i), process,
                 [pending EXCEPT ![i] = {}], [inSig EXCEPT ![i] = FALSE])
    BY <2>4 DEF CreateIn
  <2>9. /\ gen' = [gen EXCEPT ![i] = g] /\ pid' = [pid EXCEPT ![i] = PidOf(i, g)]
        /\ ports' = [ports EXCEPT ![i] = <<>>]
        /\ sigTable' = [sigTable EXCEPT ![i] = {}]
        /\ rc' = [rc EXCEPT ![process] = PidOf(i, g)]
    BY <2>4 DEF CreateIn
  <2> HIDE DEF i, g, m
  <2>10. /\ process' \in PCB /\ kpc' = "user" /\ iterator' = NULL
         /\ work' \in Seq(Port) /\ M' \in Memory
         /\ pending' \in [PCB -> SUBSET Sig] /\ inSig' \in [PCB -> BOOLEAN]
    BY <2>6, <2>7, <2>8, SwitchToType DEF TypeOK
  <2>11. /\ gen' \in [PCB -> Int] /\ pid' \in [PCB -> Int] /\ rc' \in [PCB -> Int]
         /\ ports' \in [PCB -> Seq(Port)] /\ sigTable' \in [PCB -> SUBSET Sig]
    <3>1. gen' \in [PCB -> Int] /\ pid' \in [PCB -> Int] /\ rc' \in [PCB -> Int]
      BY <2>2, <2>3, <2>9 DEF TypeOK
    <3>2. ports' \in [PCB -> Seq(Port)]
      <4>1. <<>> \in Seq(Port)
        OBVIOUS
      <4> QED
        BY <4>1, <2>9 DEF TypeOK
    <3>3. sigTable' \in [PCB -> SUBSET Sig]
      BY <2>9 DEF TypeOK
    <3> QED
      BY <3>1, <3>2, <3>3
  <2> QED
    BY <2>4, <2>10, <2>11 DEF TypeOK
<1> QED
  BY <1>1, <1>2

LEMMA SysStopType == TypeOK /\ SysStop => TypeOK'
<1> SUFFICES ASSUME TypeOK, SysStop PROVE TypeOK'
  OBVIOUS
<1>1. M' = [head  |-> head,
            next  |-> [next EXCEPT ![process] = NULL],
            state |-> [state EXCEPT ![process] = "STOPPED"]]
  BY DEF SysStop, M
<1>2. M' \in Memory
  BY <1>1 DEF TypeOK, M, Memory, Process_state
<1>3. inUse' \in [Port -> BOOLEAN] /\ pid' \in [PCB -> Int] /\ work' \in Seq(Port)
  BY DEF SysStop, InUseAfterExit, FREE, TypeOK
<1> QED
  BY <1>2, <1>3 DEF SysStop, TypeOK, sleepVars, ipcVars, sigVars

LEMMA UnblockStepType == TypeOK /\ UnblockStep => TypeOK'
<1> SUFFICES ASSUME TypeOK, UnblockStep PROVE TypeOK'
  OBVIOUS
<1> DEFINE n == Head(work)
           m == addToQueue(removeFirst(M, n), ready_queue, head[n])
<1>1. n \in Queue /\ Tail(work) \in Seq(Port)
  <2>1. work \in Seq(Port) /\ work # <<>>
    BY DEF UnblockStep, TypeOK
  <2>2. n \in Port /\ Tail(work) \in Seq(Port)
    BY <2>1
  <2> QED
    BY <2>2, ConstantTypes
<1>2. M' \in Memory /\ work' \in Seq(Port)
  <2>1. CASE head[n] = NULL
    BY <1>1, <2>1, MemoryUnchanged DEF UnblockStep, TypeOK
  <2>2. CASE head[n] # NULL
    <3>1. removeFirst(M, n) \in Memory /\ head[n] \in PCB
      BY <1>1, <2>2, RemoveFirstType DEF TypeOK, M
    <3>2. m \in Memory
      BY <3>1, ConstantTypes, AddToQueueType
    <3>3. M' = [head |-> m.head, next |-> m.next, state |-> m.state] /\ UNCHANGED work
      BY <2>2 DEF UnblockStep, M
    <3>4. m = [head |-> m.head, next |-> m.next, state |-> m.state]
      <4> HIDE DEF m
      <4> QED
        BY <3>2 DEF Memory
    <3> QED
      BY <3>2, <3>3, <3>4 DEF TypeOK
  <2> QED
    BY <2>1, <2>2
<1> HIDE DEF n, m
<1> QED
  BY <1>2 DEF UnblockStep, TypeOK, sleepVars, idVars, portVars, ipcVars, sigVars

LEMMA UnblockDoneType == TypeOK /\ UnblockDone => TypeOK'
<1> SUFFICES ASSUME TypeOK, UnblockDone PROVE TypeOK'
  OBVIOUS
<1> USE DEF UnblockDone, TypeOK, SignalTypes, sleepVars, idVars, portVars, ipcVars
<1>1. CASE pid[process] = FREE
  BY <1>1, FindNextType
<1>2. CASE pid[process] # FREE
  BY <1>2, SwitchToType
<1> QED
  BY <1>1, <1>2

LEMMA SysGetPidType == TypeOK /\ SysGetPid => TypeOK'
<1> SUFFICES ASSUME TypeOK, SysGetPid PROVE TypeOK'
  OBVIOUS
<1>1. pid[process] \in Int /\ M \in Memory
  BY DEF TypeOK
<1> QED
  BY <1>1, ReturnType
  DEF SysGetPid, TypeOK, sleepVars, idVars, portVars, ipcVars

LEMMA PreemptType ==
  ASSUME TypeOK, Preempt
  PROVE  /\ process' \in PCB /\ kpc' = "user" /\ iterator' = NULL
         /\ work' \in Seq(Port) /\ M' \in Memory
         /\ pending' \in [PCB -> SUBSET Sig] /\ inSig' \in [PCB -> BOOLEAN]
<1> DEFINE m == [head |-> head, next |-> next,
                 state |-> [state EXCEPT ![process] = "READY"]]
<1>1. m \in Memory
  BY StateWritten DEF TypeOK, Process_state
<1>2. find_next_ready_process(addToQueue(m, ready_queue, process))
  BY DEF Preempt
<1> HIDE DEF m
<1>3. addToQueue(m, ready_queue, process) \in Memory
  BY <1>1, ConstantTypes, AddToQueueType DEF TypeOK
<1> QED
  BY <1>2, <1>3, FindNextType DEF TypeOK, SignalTypes

LEMMA TimerIntType == TypeOK /\ TimerInt => TypeOK'
<1> SUFFICES ASSUME TypeOK, TimerInt PROVE TypeOK'
  OBVIOUS
<1> USE DEF idVars, portVars, ipcVars
<1>1. rc' \in [PCB -> Int] /\ due' \in [PCB -> Int]
  <2>1. rc' \in [PCB -> Int]
    BY DEF TimerInt, TypeOK, UserEax
  <2>2. \A p \in PCB : (IF due[p] > 0 THEN due[p] - 1 ELSE due[p]) \in Int
    BY DEF TypeOK
  <2> QED
    BY <2>1, <2>2 DEF TimerInt
<1>2. CASE Preempt
  BY <1>1, <1>2, PreemptType DEF TimerInt, TypeOK
<1>3. CASE /\ kpc' = "tick" /\ iterator' = head[sleep_queue]
           /\ UNCHANGED <<process, work, queueVars, pending, inSig>>
  <2>1. iterator' \in PCB \cup {NULL}
    BY <1>3, ConstantTypes, HeadIsNullOrPCB DEF TypeOK
  <2>2. M' = M
    BY <1>3, MemoryUnchanged
  <2> QED
    BY <1>1, <1>3, <2>1, <2>2 DEF TimerInt, TypeOK
<1> QED
  BY <1>2, <1>3 DEF TimerInt

LEMMA TickStepType == TypeOK /\ TickStep => TypeOK'
<1> SUFFICES ASSUME TypeOK, TickStep PROVE TypeOK'
  OBVIOUS
<1> DEFINE it == iterator
           m == addToQueue(Unlink(it), ready_queue, it)
<1>1. it \in PCB /\ M \in Memory
  BY DEF TickStep, TypeOK
<1>2. iterator' \in PCB \cup {NULL}
  BY <1>1 DEF TickStep, M, Memory
<1>3. ticks' \in [PCB -> Int]
  <2>1. ticks \in [PCB -> Int] /\ iterator \in PCB
    BY DEF TickStep, TypeOK
  <2>2. ticks' = [ticks EXCEPT ![iterator] = ticks[iterator] - 1]
    BY DEF TickStep
  <2> QED
    BY <2>1, <2>2
<1>4. M' \in Memory
  <2>1. CASE Expired(ticks[it] - 1)
    <3>1. Unlink(it) \in Memory
      BY <1>1, ConstantTypes DEF Unlink, M, Memory
    <3>2. m \in Memory
      <4> HIDE DEF it
      <4> QED
        BY <1>1, <3>1, ConstantTypes, AddToQueueType
    <3>3. M' = [head |-> m.head, next |-> m.next, state |-> m.state]
      BY <2>1 DEF TickStep, M
    <3>4. m = [head |-> m.head, next |-> m.next, state |-> m.state]
      <4> HIDE DEF m
      <4> QED
        BY <3>2 DEF Memory
    <3> QED
      BY <3>2, <3>3, <3>4
  <2>2. CASE ~ Expired(ticks[it] - 1)
    BY <2>2, <1>1, MemoryUnchanged DEF TickStep
  <2> QED
    BY <2>1, <2>2
<1> HIDE DEF it, m
<1> QED
  BY <1>2, <1>3, <1>4 DEF TickStep, TypeOK, idVars, portVars, ipcVars, sigVars

LEMMA TickDoneType == TypeOK /\ TickDone => TypeOK'
BY PreemptType DEF TickDone, TypeOK, sleepVars, idVars, portVars, ipcVars

LEMMA SysSleepType ==
  ASSUME NEW milliseconds \in Millis
  PROVE  TypeOK /\ SysSleep(milliseconds) => TypeOK'
<1> SUFFICES ASSUME TypeOK, SysSleep(milliseconds) PROVE TypeOK'
  OBVIOUS
<1> USE DEF sleepVars, idVars, portVars, ipcVars
<1>1. CASE milliseconds > 0
  <2> DEFINE t == [ticks EXCEPT ![process] = milliseconds \div 10]
             m == [head |-> head, next |-> next,
                   state |-> [state EXCEPT ![process] = "SLEEP"]]
  <2>1. t \in [PCB -> Int]
    <3>1. milliseconds \div 10 \in Int
      BY ParameterAssumption
    <3> QED
      BY <3>1 DEF TypeOK
  <2>2. m \in Memory
    BY StateWritten DEF TypeOK, Process_state
  <2>3. /\ ticks' = t /\ due' = [due EXCEPT ![process] = t[process] + 1]
        /\ find_next_ready_process(sleepInsert(m, t, process))
        /\ UNCHANGED <<rc, idVars, portVars, ipcVars, sigTable>>
    BY <1>1 DEF SysSleep
  <2> HIDE DEF m, t
  <2>4. sleepInsert(m, t, process) \in Memory
    BY <2>2, SleepInsertType DEF TypeOK
  <2>5. ticks' \in [PCB -> Int] /\ due' \in [PCB -> Int]
    BY <2>1, <2>3 DEF TypeOK
  <2> QED
    BY <2>3, <2>4, <2>5, FindNextType DEF TypeOK, SignalTypes
<1>2. CASE ~ (milliseconds > 0)
  BY <1>2, SwitchToType DEF SysSleep, TypeOK
<1> QED
  BY <1>1, <1>2

LEMMA ValidPortIsPort ==
  ASSUME NEW n \in Int, ValidPort(n)
  PROVE  n \in Port
BY SizeAssumption DEF ValidPort, Port

LEMMA OpenPortType ==
  ASSUME TypeOK, NEW n \in Port, OpenPort(n),
         UNCHANGED <<sleepVars, idVars, ipcVars, sigTable>>
  PROVE  TypeOK'
<1> DEFINE m == [head |-> [head EXCEPT ![n] = NULL], next |-> next, state |-> state]
<1>1. m \in Memory
  BY ConstantTypes DEF TypeOK, M, Memory
<1>2. Return(m, n) /\ n \in Int
  BY ConstantTypes DEF OpenPort
<1> HIDE DEF m
<1>3. /\ inUse' \in [Port -> BOOLEAN] /\ owner' \in [Port -> PCB \cup {NULL}]
      /\ ports' \in [PCB -> Seq(Port)]
  <2>1. Append(ports[process], n) \in Seq(Port)
    BY DEF TypeOK
  <2> QED
    BY <2>1 DEF OpenPort, TypeOK
<1> QED
  BY <1>1, <1>2, <1>3, ReturnType DEF TypeOK, sleepVars, idVars, ipcVars

LEMMA SysPortCreateType ==
  ASSUME NEW n \in PortArgs
  PROVE  TypeOK /\ SysPortCreate(n) => TypeOK'
<1> SUFFICES ASSUME TypeOK, SysPortCreate(n) PROVE TypeOK'
  OBVIOUS
<1>1. n \in Int /\ M \in Memory
  BY ParameterAssumption DEF TypeOK
<1>2. UNCHANGED <<sleepVars, idVars, ipcVars, sigTable>>
  BY DEF SysPortCreate
<1>3. CASE \E r \in {-1, -2, -3} : RefusePort(r)
  <2>1. PICK r \in Int : Return(M, r) /\ UNCHANGED portVars
    BY <1>3 DEF RefusePort
  <2> QED
    BY <1>1, <1>2, <2>1, ReturnType DEF TypeOK, sleepVars, idVars, portVars, ipcVars
<1>4. CASE ValidPort(n) /\ OpenPort(n)
  BY <1>1, <1>2, <1>4, ValidPortIsPort, OpenPortType
<1>5. CASE FreePorts # {} /\ OpenPort(MinOf(FreePorts))
  <2>1. FreePorts \in SUBSET Nat /\ FreePorts \subseteq Port
    BY SizeAssumption DEF FreePorts, Port
  <2>2. MinOf(FreePorts) \in Port
    BY <1>5, <2>1, MinExists
  <2> QED
    BY <1>2, <1>5, <2>2, OpenPortType
<1> QED
  BY <1>3, <1>4, <1>5 DEF SysPortCreate

(* The position of a listed port.                                          *)
LEMMA PositionFound ==
  ASSUME TypeOK, NEW p \in PCB, NEW n, ListsPort(p, n)
  PROVE  /\ Position(ports[p], n) \in 1 .. Len(ports[p])
         /\ ports[p][Position(ports[p], n)] = n
<1> DEFINE K == {k \in 1 .. Len(ports[p]) : ports[p][k] = n}
<1>1. ports[p] \in Seq(Port)
  BY DEF TypeOK
<1>2. K # {} /\ K \in SUBSET Nat
  BY <1>1 DEF ListsPort
<1>3. MinOf(K) \in K
  <2> HIDE DEF K
  <2> QED
    BY <1>2, MinExists
<1> QED
  BY <1>3 DEF Position

LEMMA SysPortDeleteType ==
  ASSUME NEW n \in PortArgs
  PROVE  TypeOK /\ SysPortDelete(n) => TypeOK'
<1> SUFFICES ASSUME TypeOK, SysPortDelete(n) PROVE TypeOK'
  OBVIOUS
<1> USE DEF sleepVars, idVars, ipcVars
<1>1. n \in Port /\ M \in Memory /\ -1 \in Int
  BY DEF SysPortDelete, TypeOK
<1>2. CASE owner[n] = process /\ ListsPort(process, n)
  <2> DEFINE k == Position(ports[process], n)
             l == SubSeq(ports[process], k + 1, Len(ports[process]))
  <2>1. k \in 1 .. Len(ports[process])
    BY <1>2, PositionFound DEF TypeOK
  <2>2. l \in Seq(Port)
    <3> HIDE DEF k
    <3>1. ports[process] \in Seq(Port)
      BY DEF TypeOK
    <3> QED
      BY <2>1, <3>1
  <2>3. /\ inUse' = [inUse EXCEPT ![n] = FALSE]
        /\ ports' = [ports EXCEPT ![process] = l]
        /\ rc' = [rc EXCEPT ![process] = 1]
        /\ kpc' = "unblock" /\ work' = <<n>>
        /\ UNCHANGED <<process, iterator, queueVars, pending, inSig>>
        /\ UNCHANGED <<sleepVars, owner, idVars, ipcVars, sigTable>>
    BY <1>2 DEF SysPortDelete
  <2> HIDE DEF l
  <2>4. M' = M
    BY <2>3, MemoryUnchanged
  <2>5. work' \in Seq(Port) /\ ports' \in [PCB -> Seq(Port)]
    BY <1>1, <2>2, <2>3 DEF TypeOK
  <2>6. inUse' \in [Port -> BOOLEAN]
    <3>1. inUse \in [Port -> BOOLEAN]
      BY DEF TypeOK
    <3> QED
      BY <2>3, <3>1
  <2>7. rc' \in [PCB -> Int]
    <3>1. rc \in [PCB -> Int] /\ 1 \in Int
      BY DEF TypeOK
    <3>2. rc' = [rc EXCEPT ![process] = 1]
      BY <2>3
    <3> QED
      BY <3>1, <3>2
  <2> QED
    BY <2>3, <2>4, <2>5, <2>6, <2>7 DEF TypeOK
<1>3. CASE ~ (owner[n] = process /\ ListsPort(process, n))
  BY <1>1, <1>3, ReturnType DEF SysPortDelete, TypeOK
<1> QED
  BY <1>2, <1>3

(* A process woken from queue q, which it is on, and made ready.           *)
LEMMA DeliverType ==
  ASSUME TypeOK, NEW n \in Port, NEW r, ReceiverWaits(r), Deliver(n, r),
         UNCHANGED <<sleepVars, idVars, portVars, sigTable>>
  PROVE  TypeOK'
<1> DEFINE m == addToQueue(removeFromQueue(M, blocked_queue, r), ready_queue, r)
<1>1. r \in PCB
  BY DEF ReceiverWaits, IsRemovable, Chain, Reach
<1>2. m \in Memory
  <2>1. removeFromQueue(M, blocked_queue, r) \in Memory
    BY <1>1, ConstantTypes, RemoveFromQueueType DEF TypeOK
  <2> QED
    BY <1>1, <2>1, ConstantTypes, AddToQueueType
<1>3. SwitchTo(m, process, pending, inSig)
  BY DEF Deliver
<1> HIDE DEF m
<1>4. want' \in [PCB -> Int] /\ rc' \in [PCB -> Int]
  <2>1. n \in Int /\ NULL \in Int
    BY ConstantTypes DEF NULL
  <2>2. want' \in [PCB -> Int]
    BY <2>1 DEF Deliver, TypeOK
  <2>3. rc' \in [PCB -> Int]
    BY <2>1 DEF Deliver, TypeOK
  <2> QED
    BY <2>2, <2>3
<1> QED
  BY <1>2, <1>3, <1>4, SwitchToType
  DEF Deliver, TypeOK, sleepVars, idVars, portVars

LEMMA BlockSenderType ==
  ASSUME TypeOK, NEW n \in Port, BlockSender(n),
         UNCHANGED <<sleepVars, idVars, portVars, sigTable>>
  PROVE  TypeOK'
<1> DEFINE m == [head |-> head, next |-> next,
                 state |-> [state EXCEPT ![process] = "BLOCKED"]]
<1>1. m \in Memory
  BY StateWritten DEF TypeOK, Process_state
<1>2. find_next_ready_process(addToQueue(m, n, process))
  BY DEF BlockSender
<1> HIDE DEF m
<1>3. addToQueue(m, n, process) \in Memory
  BY <1>1, ConstantTypes, AddToQueueType DEF TypeOK
<1>4. blockedQ' \in [PCB -> Queue] /\ rc' \in [PCB -> Int]
  <2>1. n \in Queue /\ -2 \in Int
    BY ConstantTypes
  <2>2. blockedQ' \in [PCB -> Queue]
    BY <2>1 DEF BlockSender, TypeOK
  <2>3. rc' \in [PCB -> Int]
    BY <2>1 DEF BlockSender, TypeOK
  <2> QED
    BY <2>2, <2>3
<1> QED
  BY <1>2, <1>3, <1>4, FindNextType
  DEF BlockSender, TypeOK, SignalTypes, sleepVars, idVars, portVars

LEMMA SysSendType ==
  ASSUME NEW n \in PortArgs
  PROVE  TypeOK /\ SysSend(n) => TypeOK'
<1> SUFFICES ASSUME TypeOK, SysSend(n) PROVE TypeOK'
  OBVIOUS
<1>1. n \in Int /\ M \in Memory
  BY ParameterAssumption DEF TypeOK
<1>2. UNCHANGED <<sleepVars, idVars, portVars, sigTable>>
  BY DEF SysSend
<1>3. CASE \E r \in {-1, -3} : Return(M, r) /\ UNCHANGED ipcVars
  <2>1. PICK r \in {-1, -3} : Return(M, r) /\ UNCHANGED ipcVars
    BY <1>3
  <2>2. r \in Int
    BY <2>1
  <2>3. /\ process' \in PCB /\ kpc' = "user" /\ iterator' = NULL
        /\ work' \in Seq(Port) /\ M' \in Memory
        /\ pending' \in [PCB -> SUBSET Sig] /\ inSig' \in [PCB -> BOOLEAN]
        /\ rc' \in [PCB -> Int]
    BY <1>1, <2>1, <2>2, ReturnType
  <2> QED
    BY <1>2, <2>1, <2>3 DEF TypeOK, sleepVars, idVars, portVars, ipcVars
<1>4. CASE CanSend(n) /\ ReceiverWaits(owner[n]) /\ Deliver(n, owner[n])
  BY <1>1, <1>2, <1>4, ValidPortIsPort, DeliverType DEF CanSend
<1>5. CASE CanSend(n) /\ BlockSender(n)
  BY <1>1, <1>2, <1>5, ValidPortIsPort, BlockSenderType DEF CanSend
<1> QED
  BY <1>3, <1>4, <1>5 DEF SysSend

(* A receive that finds a blocked sender picks a port that has one.        *)
LEMMA FirstSenderPortFound ==
  ASSUME TypeOK, NEW n \in Port, SenderPorts(n) # {}
  PROVE  FirstSenderPort(n) \in Port /\ head[FirstSenderPort(n)] # NULL
<1> DEFINE S == SenderPorts(n)
           pos(k) == Position(ports[process], k)
           P == {pos(k) : k \in S}
<1>1. S \subseteq {k \in Port : head[k] # NULL}
  BY DEF SenderPorts
<1>2. \E k \in S : n = 0 => \A j \in S : pos(k) <= pos(j)
  <2>1. CASE n # 0
    BY <2>1
  <2>2. CASE n = 0
    <3>1. \A k \in S : ListsPort(process, k)
      BY <2>2 DEF SenderPorts
    <3>2. \A k \in S : pos(k) \in Nat
      <4>1. TAKE k \in S
      <4>2. pos(k) \in 1 .. Len(ports[process])
        BY <3>1, PositionFound DEF TypeOK
      <4>3. Len(ports[process]) \in Nat
        BY DEF TypeOK
      <4> QED
        BY <4>2, <4>3
    <3> HIDE DEF S, pos
    <3>3. P \in SUBSET Nat /\ P # {}
      BY <3>2 DEF S
    <3>4. MinOf(P) \in P /\ \A y \in P : MinOf(P) <= y
      <4> HIDE DEF P
      <4> QED
        BY <3>3, MinExists
    <3> QED
      BY <3>4
  <2> QED
    BY <2>1, <2>2
<1>3. FirstSenderPort(n) \in S
  BY <1>2 DEF FirstSenderPort
<1> QED
  BY <1>1, <1>3

LEMMA TakeMessageType ==
  ASSUME TypeOK, NEW n \in Port, NEW k \in Port, head[k] # NULL, TakeMessage(n, k),
         UNCHANGED <<sleepVars, idVars, portVars, sigTable>>
  PROVE  TypeOK'
<1> DEFINE t == head[k]
           m == addToQueue(removeFirst(M, k), ready_queue, t)
<1>1. removeFirst(M, k) \in Memory /\ t \in PCB
  BY ConstantTypes, RemoveFirstType DEF TypeOK, M
<1>2. m \in Memory
  <2> HIDE DEF t
  <2> QED
    BY <1>1, ConstantTypes, AddToQueueType
<1>3. SwitchTo(m, process, pending, inSig)
  BY DEF TakeMessage
<1>4. rc' = [rc EXCEPT ![t] = 1, ![process] = n] /\ UNCHANGED ipcVars
  BY DEF TakeMessage
<1> HIDE DEF m, t
<1>5. rc' \in [PCB -> Int]
  <2>1. rc \in [PCB -> Int] /\ n \in Int /\ 1 \in Int
    BY ConstantTypes DEF TypeOK
  <2> QED
    BY <1>4, <2>1
<1> QED
  BY <1>2, <1>3, <1>4, <1>5, SwitchToType
  DEF TypeOK, sleepVars, idVars, portVars, ipcVars

LEMMA BlockReceiverType ==
  ASSUME TypeOK, NEW n \in Port, BlockReceiver(n),
         UNCHANGED <<sleepVars, idVars, portVars, sigTable>>
  PROVE  TypeOK'
<1> DEFINE m == [head |-> head, next |-> next,
                 state |-> [state EXCEPT ![process] = "BLOCKED"]]
<1>1. m \in Memory
  BY StateWritten DEF TypeOK, Process_state
<1>2. find_next_ready_process(addToQueue(m, blocked_queue, process))
  BY DEF BlockReceiver
<1> HIDE DEF m
<1>3. addToQueue(m, blocked_queue, process) \in Memory
  BY <1>1, ConstantTypes, AddToQueueType DEF TypeOK
<1>4. blockedQ' \in [PCB -> Queue]
  BY ConstantTypes DEF BlockReceiver, TypeOK
<1>5. want' \in [PCB -> Int]
  BY ConstantTypes DEF BlockReceiver, TypeOK
<1>6. rc' \in [PCB -> Int]
  <2>1. -2 \in Int
    OBVIOUS
  <2> QED
    BY <2>1 DEF BlockReceiver, TypeOK
<1> QED
  BY <1>2, <1>3, <1>4, <1>5, <1>6, FindNextType
  DEF TypeOK, SignalTypes, sleepVars, idVars, portVars

LEMMA SysPortRecvType ==
  ASSUME NEW n \in PortArgs
  PROVE  TypeOK /\ SysPortRecv(n) => TypeOK'
<1> SUFFICES ASSUME TypeOK, SysPortRecv(n) PROVE TypeOK'
  OBVIOUS
<1>1. n \in Int /\ M \in Memory
  BY ParameterAssumption DEF TypeOK
<1>2. UNCHANGED <<sleepVars, idVars, portVars, sigTable>>
  BY DEF SysPortRecv
<1>3. CASE Return(M, -1) /\ UNCHANGED ipcVars
  <2>1. -1 \in Int
    OBVIOUS
  <2> QED
    BY <1>1, <1>2, <1>3, <2>1, ReturnType DEF TypeOK, sleepVars, idVars, portVars, ipcVars
<1>4. CASE ValidPort(n) /\ SenderPorts(n) # {} /\ TakeMessage(n, FirstSenderPort(n))
  <2>1. n \in Port
    BY <1>1, <1>4, ValidPortIsPort
  <2>2. FirstSenderPort(n) \in Port /\ head[FirstSenderPort(n)] # NULL
    BY <1>4, <2>1, FirstSenderPortFound
  <2> QED
    BY <1>2, <1>4, <2>1, <2>2, TakeMessageType
<1>5. CASE ValidPort(n) /\ BlockReceiver(n)
  BY <1>1, <1>2, <1>5, ValidPortIsPort, BlockReceiverType
<1> QED
  BY <1>3, <1>4, <1>5 DEF SysPortRecv

---------------------------------------------------------------------------
(* Signals.                                                                *)
LEMMA ValidSigIsSig ==
  ASSUME NEW x \in Int, ValidSig(x)
  PROVE  x \in Sig
BY ParameterAssumption DEF ValidSig, Sig

LEMMA SysSigHandleType ==
  ASSUME NEW x \in SigArgs, NEW newhandler
  PROVE  TypeOK /\ SysSigHandle(x, newhandler) => TypeOK'
<1> SUFFICES ASSUME TypeOK, SysSigHandle(x, newhandler) PROVE TypeOK'
  OBVIOUS
<1>1. x \in Int /\ M \in Memory
  BY ParameterAssumption DEF TypeOK
<1>2. PICK r \in Int : Return(M, r)
  BY DEF SysSigHandle
<1>3. sigTable' \in [PCB -> SUBSET Sig]
  <2>1. CASE sigTable' = sigTable
    BY <2>1 DEF TypeOK
  <2>2. CASE ValidSig(x) /\ sigTable' =
               [sigTable EXCEPT ![process] = SetHandler(sigTable[process], x, newhandler)]
    <3>1. SetHandler(sigTable[process], x, newhandler) \in SUBSET Sig
      BY <1>1, <2>2, ValidSigIsSig DEF SetHandler, TypeOK
    <3> QED
      BY <2>2, <3>1 DEF TypeOK
  <2> QED
    BY <2>1, <2>2 DEF SysSigHandle
<1> QED
  BY <1>1, <1>2, <1>3, ReturnType
  DEF SysSigHandle, TypeOK, sleepVars, idVars, portVars, ipcVars

(* The queue memory after a waiting process was taken out of its wait.     *)
LEMMA WakeType ==
  ASSUME TypeOK, NEW t \in PCB
  PROVE  Wake(t) \in Memory
<1> DEFINE m == IF state[t] = "BLOCKED" THEN removeFromQueue(M, blockedQ[t], t) ELSE M
           m1 == [head |-> m.head, next |-> m.next, state |-> [m.state EXCEPT ![t] = "READY"]]
<1>1. m \in Memory
  BY RemoveFromQueueType DEF TypeOK
<1>2. m1 \in Memory
  <2> HIDE DEF m
  <2> QED
    BY <1>1 DEF Memory, Process_state
<1>3. addToQueue(m1, ready_queue, t) \in Memory
  <2> HIDE DEF m1
  <2> QED
    BY <1>2, ConstantTypes, AddToQueueType
<1> QED
  BY <1>3 DEF Wake

LEMMA SignalType ==
  ASSUME TypeOK, NEW t \in PCB, NEW x \in Sig, Signal(t, x),
         UNCHANGED <<sleepVars, idVars, portVars, blockedQ, sigTable>>
  PROVE  TypeOK'
<1> DEFINE m == IF IsWaiting(t) THEN Wake(t) ELSE M
           pend == [pending EXCEPT ![t] = @ \cup {x}]
<1>1. m \in Memory
  BY WakeType DEF TypeOK
<1>2. pend \in [PCB -> SUBSET Sig]
  BY DEF TypeOK
<1>3. SwitchTo(m, process, pend, inSig)
  BY DEF Signal
<1>4. want' \in [PCB -> Int]
  <2>1. want' = [want EXCEPT ![t] = IF IsWaiting(t) THEN NULL ELSE want[t]]
    BY DEF Signal
  <2> QED
    BY <2>1 DEF TypeOK, NULL
<1>5. rc' \in [PCB -> Int]
  <2> DEFINE r == IF state[t] = "BLOCKED" THEN -452
                  ELSE IF state[t] = "SIG_WAIT" THEN x ELSE rc[t]
  <2>1. r \in Int
    BY ParameterAssumption DEF TypeOK, Sig
  <2>2. rc' = [rc EXCEPT ![t] = r, ![process] = 0]
    BY DEF Signal
  <2>3. rc \in [PCB -> Int]
    BY DEF TypeOK
  <2> HIDE DEF r
  <2> DEFINE r1 == [rc EXCEPT ![t] = r]
  <2>4. r1 \in [PCB -> Int] /\ process \in PCB
    BY <2>1, <2>3 DEF TypeOK
  <2>5. rc' = [r1 EXCEPT ![process] = 0]
    BY <2>2
  <2> HIDE DEF r1
  <2> QED
    BY <2>4, <2>5
<1> HIDE DEF m, pend
<1> QED
  BY <1>1, <1>2, <1>3, <1>4, <1>5, SwitchToType
  DEF TypeOK, sleepVars, idVars, portVars

LEMMA SysKillType ==
  ASSUME NEW target, NEW x \in SigArgs
  PROVE  TypeOK /\ SysKill(target, x) => TypeOK'
<1> SUFFICES ASSUME TypeOK, SysKill(target, x) PROVE TypeOK'
  OBVIOUS
<1>1. x \in Int /\ M \in Memory /\ find_pcb(target) \in PCB
  BY ParameterAssumption DEF TypeOK, SysKill
<1>2. UNCHANGED <<sleepVars, idVars, portVars, blockedQ, sigTable>>
  BY DEF SysKill
<1>3. CASE \E r \in {-90, -68, 0} : Return(M, r) /\ UNCHANGED want
  <2>1. PICK r \in Int : Return(M, r) /\ UNCHANGED want
    BY <1>3
  <2> QED
    BY <1>1, <1>2, <2>1, ReturnType DEF TypeOK, sleepVars, idVars, portVars
<1>4. CASE ValidSig(x) /\ Signal(find_pcb(target), x)
  BY <1>1, <1>2, <1>4, ValidSigIsSig, SignalType
<1> QED
  BY <1>3, <1>4 DEF SysKill

LEMMA SysSigWaitType == TypeOK /\ SysSigWait => TypeOK'
<1> SUFFICES ASSUME TypeOK, SysSigWait PROVE TypeOK'
  OBVIOUS
<1> USE DEF sleepVars, idVars, portVars, ipcVars
<1>1. CASE NothingPending(process)
  <2> DEFINE m == [head |-> head, next |-> next,
                   state |-> [state EXCEPT ![process] = "SIG_WAIT"]]
  <2>1. m \in Memory
    BY StateWritten DEF TypeOK, Process_state
  <2>2. find_next_ready_process(m)
    BY <1>1 DEF SysSigWait
  <2> HIDE DEF m
  <2> QED
    BY <2>1, <2>2, FindNextType DEF SysSigWait, TypeOK, SignalTypes
<1>2. CASE ~ NothingPending(process)
  BY <1>2, SwitchToType DEF SysSigWait, TypeOK
<1> QED
  BY <1>1, <1>2

LEMMA SysSigReturnType == TypeOK /\ SysSigReturn => TypeOK'
<1> SUFFICES ASSUME TypeOK, SysSigReturn PROVE TypeOK'
  OBVIOUS
<1>1. [inSig EXCEPT ![process] = FALSE] \in [PCB -> BOOLEAN]
  BY DEF TypeOK
<1>2. rc' \in [PCB -> Int]
  BY DEF SysSigReturn, TypeOK, UserEax
<1> QED
  BY <1>1, <1>2, SwitchToType
  DEF SysSigReturn, TypeOK, sleepVars, idVars, portVars, ipcVars

---------------------------------------------------------------------------
(* The initial memory: no queue has a process.                             *)
LEMMA InitType == Init => TypeOK
<1> SUFFICES ASSUME Init PROVE TypeOK
  OBVIOUS
<1>1. M \in Memory
  BY DEF Init, M, Memory, Process_state
<1>2. pid \in [PCB -> Int] /\ gen \in [PCB -> Int]
  <2>1. \A p \in PCB : PidOf(p, 0) \in Int
    BY PidIsInt
  <2> QED
    BY <2>1 DEF Init, FREE
<1>3. ports \in [PCB -> Seq(Port)] /\ work \in Seq(Port)
  <2>1. <<>> \in Seq(Port)
    OBVIOUS
  <2> QED
    BY <2>1 DEF Init
<1>4. 0 \in Queue
  BY SizeAssumption DEF Queue, Port
<1> QED
  BY <1>1, <1>2, <1>3, <1>4, ConstantTypes DEF Init, TypeOK, NULL

LEMMA NextType == TypeOK /\ [Next]_vars => TypeOK'
<1> SUFFICES ASSUME TypeOK, [Next]_vars PROVE TypeOK'
  OBVIOUS
<1>1. CASE SysYield \/ SysCreate \/ SysStop \/ SysGetPid
  BY <1>1, SysYieldType, SysCreateType, SysStopType, SysGetPidType
<1>2. CASE TimerInt \/ KernelLoop
  BY <1>2, TimerIntType, UnblockStepType, UnblockDoneType, TickStepType,
     TickDoneType DEF KernelLoop
<1>3. CASE \E t \in Millis : SysSleep(t)
  BY <1>3, SysSleepType
<1>4. CASE \E n \in PortArgs : SysPortCreate(n) \/ SysPortDelete(n) \/ SysPortRecv(n)
                             \/ SysSend(n)
  BY <1>4, SysPortCreateType, SysPortDeleteType, SysPortRecvType, SysSendType
<1>5. CASE \E x \in SigArgs, newhandler \in {NULL, Handler} : SysSigHandle(x, newhandler)
  BY <1>5, SysSigHandleType
<1>6. CASE \E i \in PCB, g \in 0 .. PidCycle - 1, x \in SigArgs : SysKill(PidOf(i, g), x)
  BY <1>6, SysKillType
<1>7. CASE SysSigWait \/ SysSigReturn
  BY <1>7, SysSigWaitType, SysSigReturnType
<1>8. CASE UNCHANGED vars
  <2>1. M' = M
    BY <1>8, MemoryUnchanged DEF vars
  <2> QED
    BY <1>8, <2>1
    DEF vars, TypeOK, sleepVars, idVars, portVars, ipcVars, sigVars, loopVars
<1> QED
  BY <1>1, <1>2, <1>3, <1>4, <1>5, <1>6, <1>7, <1>8 DEF Next

(* Whatever the processes call and with whatever arguments, every field of *)
(* the process and port tables keeps its type: no queue head, next pointer *)
(* or port owner leaves its table, and the dispatcher never runs NULL.     *)
THEOREM TypeCorrect == Spec => []TypeOK
<1>1. Init => TypeOK
  BY InitType
<1>2. TypeOK /\ [Next]_vars => TypeOK'
  BY NextType
<1> QED
  BY <1>1, <1>2, PTL DEF Spec

---------------------------------------------------------------------------
(* Pending signals.  A step is quiet if it raises no signal and lets no    *)
(* process begin to wait for one.                                          *)
Quiet ==
  \A x \in PCB : /\ state'[x] = "SIG_WAIT" => state[x] = "SIG_WAIT"
                 /\ pending'[x] \subseteq pending[x]

LEMMA SwitchToQuiet ==
  ASSUME NEW m \in Memory, NEW p \in PCB,
         NEW pend \in [PCB -> SUBSET Sig], NEW insig,
         SwitchTo(m, p, pend, insig)
  PROVE  \A x \in PCB : /\ state'[x] \in {m.state[x], "RUNNING"}
                        /\ pending'[x] \subseteq pend[x]
<1>1. state' = [m.state EXCEPT ![p] = "RUNNING"] /\ m.state \in [PCB -> Process_state]
  BY DEF SwitchTo, Memory
<1>2. \A x \in PCB : pending'[x] \subseteq pend[x]
  BY DEF SwitchTo, prepare_sigtramp
<1> QED
  BY <1>1, <1>2

LEMMA FindNextQuiet ==
  ASSUME TypeOK, NEW m \in Memory, find_next_ready_process(m)
  PROVE  \A x \in PCB : /\ state'[x] \in {m.state[x], "RUNNING"}
                        /\ pending'[x] \subseteq pending[x]
<1> USE ConstantTypes
<1>1. CASE m.head[ready_queue] = NULL
  BY <1>1, SwitchToQuiet DEF find_next_ready_process, TypeOK
<1>2. CASE m.head[ready_queue] # NULL
  <2>1. /\ removeFirst(m, ready_queue) \in Memory /\ m.head[ready_queue] \in PCB
        /\ removeFirst(m, ready_queue).state = m.state
    BY <1>2, RemoveFirstType
  <2>2. SwitchTo(removeFirst(m, ready_queue), m.head[ready_queue], pending, inSig)
    BY <1>2 DEF find_next_ready_process
  <2> QED
    BY <2>1, <2>2, SwitchToQuiet DEF TypeOK
<1> QED
  BY <1>1, <1>2

(* The current process enters state y, which is not SIG_WAIT, and possibly *)
(* a queue; then another one runs.                                         *)
LEMMA LeaveQuiet ==
  ASSUME TypeOK, NEW y \in Process_state, y # "SIG_WAIT", NEW q \in Queue,
         find_next_ready_process(
           addToQueue([head |-> head, next |-> next,
                       state |-> [state EXCEPT ![process] = y]], q, process))
  PROVE  Quiet
<1> DEFINE m == [head |-> head, next |-> next,
                 state |-> [state EXCEPT ![process] = y]]
<1>1. m \in Memory
  BY StateWritten DEF TypeOK
<1>2. m.state[process] = y /\ \A x \in PCB \ {process} : m.state[x] = state[x]
  BY DEF TypeOK, M, Memory
<1>3. find_next_ready_process(addToQueue(m, q, process))
  OBVIOUS
<1> HIDE DEF m
<1>4. /\ addToQueue(m, q, process) \in Memory
      /\ \A x \in PCB \ {process} : addToQueue(m, q, process).state[x] = m.state[x]
      /\ addToQueue(m, q, process).state[process] \in {m.state[process], "READY", "BLOCKED"}
  BY <1>1, AddToQueueType DEF TypeOK
<1> QED
  BY <1>2, <1>3, <1>4, FindNextQuiet DEF Quiet

(* A memory in which only r has become ready.                              *)
LEMMA ReturnQuiet ==
  ASSUME TypeOK, NEW m \in Memory,
         \A x \in PCB : m.state[x] \in {state[x], "READY", "BLOCKED"},
         SwitchTo(m, process, pending, inSig)
  PROVE  Quiet
BY SwitchToQuiet DEF TypeOK, Quiet

LEMMA MakeReadyStates ==
  ASSUME NEW m \in Memory, NEW r \in PCB
  PROVE  /\ addToQueue(m, ready_queue, r) \in Memory
         /\ \A x \in PCB : addToQueue(m, ready_queue, r).state[x]
                             \in {m.state[x], "READY", "BLOCKED"}
<1> DEFINE m1 == addToQueue(m, ready_queue, r)
<1>1. /\ m1 \in Memory
      /\ \A x \in PCB \ {r} : m1.state[x] = m.state[x]
      /\ m1.state[r] \in {m.state[r], "READY", "BLOCKED"}
  BY ConstantTypes, AddToQueueType
<1> HIDE DEF m1
<1>2. \A x \in PCB : m1.state[x] \in {m.state[x], "READY", "BLOCKED"}
  BY <1>1
<1> QED
  BY <1>1, <1>2 DEF m1

LEMMA ProcessQuiet ==
  ASSUME TypeOK, SysYield \/ SysStop \/ SysGetPid
  PROVE  Quiet
<1> USE DEF TypeOK
<1>1. CASE SysYield
  <2>1. /\ addToQueue(M, ready_queue, process) \in Memory
        /\ \A x \in PCB : addToQueue(M, ready_queue, process).state[x]
                            \in {state[x], "READY", "BLOCKED"}
    BY MakeReadyStates DEF M
  <2> QED
    BY <1>1, <2>1, FindNextQuiet DEF SysYield, Quiet
<1>2. CASE SysStop
  BY <1>2 DEF SysStop, sigVars, Quiet, M, Memory
<1>3. CASE SysGetPid
  BY <1>3, ReturnQuiet DEF SysGetPid, Return, M
<1> QED
  BY <1>1, <1>2, <1>3

LEMMA UnblockQuiet ==
  ASSUME TypeOK, UnblockStep \/ UnblockDone
  PROVE  Quiet
<1>1. CASE UnblockStep
  <2> DEFINE n == Head(work)
  <2>1. n \in Queue /\ pending' = pending
    <3>1. work \in Seq(Port) /\ work # <<>>
      BY <1>1 DEF UnblockStep, TypeOK
    <3>2. n \in Port
      BY <3>1
    <3> QED
      BY <1>1, <3>2, ConstantTypes DEF UnblockStep, sigVars
  <2>2. CASE head[n] = NULL
    BY <1>1, <2>1, <2>2 DEF UnblockStep, queueVars, Quiet
  <2>3. CASE head[n] # NULL
    <3>1. /\ removeFirst(M, n) \in Memory /\ head[n] \in PCB
          /\ removeFirst(M, n).state = state
      BY <2>1, <2>3, RemoveFirstType DEF TypeOK, M
    <3>2. state' = addToQueue(removeFirst(M, n), ready_queue, head[n]).state
      BY <1>1, <2>3 DEF UnblockStep
    <3> HIDE DEF n
    <3> QED
      BY <2>1, <3>1, <3>2, MakeReadyStates DEF Quiet
  <2> QED
    BY <2>2, <2>3
<1>2. CASE UnblockDone
  <2>1. M.state = state /\ M \in Memory
    BY DEF M, TypeOK
  <2>2. CASE pid[process] = FREE
    BY <1>2, <2>1, <2>2, FindNextQuiet DEF UnblockDone, Quiet
  <2>3. CASE pid[process] # FREE
    BY <1>2, <2>1, <2>3, ReturnQuiet DEF UnblockDone
  <2> QED
    BY <2>2, <2>3
<1> QED
  BY <1>1, <1>2

LEMMA PreemptQuiet ==
  ASSUME TypeOK, Preempt
  PROVE  Quiet
BY LeaveQuiet, ConstantTypes DEF Preempt, Process_state

LEMMA TimeQuiet ==
  ASSUME TypeOK, TimerInt \/ TickStep \/ TickDone
  PROVE  Quiet
<1>1. CASE TimerInt
  BY <1>1, PreemptQuiet DEF TimerInt, queueVars, Quiet
<1>2. CASE TickStep
  <2>1. iterator \in PCB /\ pending' = pending
    BY <1>2 DEF TickStep, TypeOK, sigVars
  <2>2. CASE Expired(ticks[iterator] - 1)
    <3>1. Unlink(iterator) \in Memory /\ Unlink(iterator).state = state
      BY <2>1, ConstantTypes DEF Unlink, TypeOK, M, Memory
    <3>2. state' = addToQueue(Unlink(iterator), ready_queue, iterator).state
      BY <1>2, <2>2 DEF TickStep
    <3> QED
      BY <2>1, <3>1, <3>2, MakeReadyStates DEF Quiet
  <2>3. CASE ~ Expired(ticks[iterator] - 1)
    BY <1>2, <2>1, <2>3 DEF TickStep, queueVars, Quiet
  <2> QED
    BY <2>2, <2>3
<1>3. CASE TickDone
  BY <1>3, PreemptQuiet DEF TickDone
<1> QED
  BY <1>1, <1>2, <1>3

LEMMA SysSleepQuiet ==
  ASSUME TypeOK, NEW milliseconds, SysSleep(milliseconds)
  PROVE  Quiet
<1>1. CASE milliseconds > 0
  <2> DEFINE t == [ticks EXCEPT ![process] = milliseconds \div 10]
             m == [head |-> head, next |-> next,
                   state |-> [state EXCEPT ![process] = "SLEEP"]]
  <2>1. m \in Memory
    BY StateWritten DEF TypeOK, Process_state
  <2>2. \A x \in PCB : m.state[x] \in {state[x], "SLEEP"}
    BY DEF TypeOK, M, Memory
  <2>3. find_next_ready_process(sleepInsert(m, t, process))
    BY <1>1 DEF SysSleep
  <2> HIDE DEF m, t
  <2>4. sleepInsert(m, t, process) \in Memory /\ sleepInsert(m, t, process).state = m.state
    BY <2>1, SleepInsertType DEF TypeOK
  <2> QED
    BY <2>2, <2>3, <2>4, FindNextQuiet DEF Quiet
<1>2. CASE ~ (milliseconds > 0)
  BY <1>2, ReturnQuiet DEF SysSleep, M, TypeOK
<1> QED
  BY <1>1, <1>2

LEMMA PortQuiet ==
  ASSUME TypeOK, NEW n \in PortArgs,
         SysPortCreate(n) \/ SysPortDelete(n) \/ SysSend(n) \/ SysPortRecv(n)
  PROVE  Quiet
<1>1. n \in Int
  BY ParameterAssumption
<1>2. M \in Memory /\ M.state = state
  BY DEF TypeOK, M
<1>3. CASE \E r : Return(M, r)
  BY <1>2, <1>3, ReturnQuiet DEF Return
<1>4. CASE \E k \in Port : OpenPort(k)
  <2>1. PICK k \in Port : OpenPort(k)
    BY <1>4
  <2> DEFINE m == [head |-> [head EXCEPT ![k] = NULL], next |-> next, state |-> state]
  <2>2. m \in Memory
    BY <1>2, ConstantTypes DEF M, Memory
  <2>3. m.state = state /\ SwitchTo(m, process, pending, inSig)
    BY <2>1 DEF OpenPort, Return
  <2> HIDE DEF m
  <2> QED
    BY <2>2, <2>3, ReturnQuiet
<1>5. CASE UNCHANGED <<queueVars, pending>>
  BY <1>5 DEF queueVars, Quiet
<1>6. CASE \E r : ReceiverWaits(r) /\ Deliver(n, r)
  <2>1. PICK r : ReceiverWaits(r) /\ Deliver(n, r)
    BY <1>6
  <2>2. r \in PCB
    BY <2>1 DEF ReceiverWaits, IsRemovable, Chain, Reach
  <2> DEFINE m == removeFromQueue(M, blocked_queue, r)
  <2>3. m \in Memory /\ m.state = state
    BY <1>2, <2>2, ConstantTypes, RemoveFromQueueType
  <2>4. SwitchTo(addToQueue(m, ready_queue, r), process, pending, inSig)
    BY <2>1 DEF Deliver
  <2> HIDE DEF m
  <2> QED
    BY <2>2, <2>3, <2>4, MakeReadyStates, ReturnQuiet
<1>7. CASE \E k \in Port : head[k] # NULL /\ TakeMessage(n, k)
  <2>1. PICK k \in Port : head[k] # NULL /\ TakeMessage(n, k)
    BY <1>7
  <2>2. /\ removeFirst(M, k) \in Memory /\ head[k] \in PCB
        /\ removeFirst(M, k).state = state
    BY <1>2, <2>1, ConstantTypes, RemoveFirstType DEF M
  <2>3. SwitchTo(addToQueue(removeFirst(M, k), ready_queue, head[k]), process, pending, inSig)
    BY <2>1 DEF TakeMessage
  <2> QED
    BY <2>2, <2>3, MakeReadyStates, ReturnQuiet
<1>8. CASE n \in Port /\ BlockSender(n)
  BY <1>8, LeaveQuiet, ConstantTypes DEF BlockSender, Process_state
<1>9. CASE BlockReceiver(n)
  BY <1>9, LeaveQuiet, ConstantTypes DEF BlockReceiver, Process_state
<1>10. CASE SysPortCreate(n)
  <2>1. MinOf(FreePorts) \in Port \/ FreePorts = {}
    <3>1. FreePorts \in SUBSET Nat /\ FreePorts \subseteq Port
      BY SizeAssumption DEF FreePorts, Port
    <3> QED
      BY <3>1, MinExists
  <2> QED
    BY <1>1, <1>3, <1>4, <1>10, <2>1, ValidPortIsPort DEF SysPortCreate, RefusePort
<1>11. CASE SysPortDelete(n)
  BY <1>3, <1>5, <1>11 DEF SysPortDelete
<1>12. CASE SysSend(n)
  BY <1>1, <1>3, <1>6, <1>8, <1>12, ValidPortIsPort DEF SysSend, CanSend
<1>13. CASE SysPortRecv(n)
  BY <1>1, <1>3, <1>7, <1>9, <1>13, ValidPortIsPort, FirstSenderPortFound DEF SysPortRecv
<1> QED
  BY <1>10, <1>11, <1>12, <1>13

(* The steps that are not quiet: one raises signal x for t, one begins a   *)
(* wait, one starts a process.                                             *)
LEMMA SignalEffect ==
  ASSUME TypeOK, NEW t \in PCB, NEW x \in Sig, Signal(t, x)
  PROVE  /\ \A p \in PCB \ {t} : /\ state'[p] = "SIG_WAIT" => state[p] = "SIG_WAIT"
                                 /\ pending'[p] \subseteq pending[p]
         /\ state'[t] # "SIG_WAIT" /\ pending'[t] \subseteq pending[t] \cup {x}
<1> DEFINE m == IF IsWaiting(t) THEN Wake(t) ELSE M
           pend == [pending EXCEPT ![t] = @ \cup {x}]
<1>1. m \in Memory /\ pend \in [PCB -> SUBSET Sig]
  BY WakeType DEF TypeOK
<1>2. SwitchTo(m, process, pend, inSig)
  BY DEF Signal
<1>3. /\ pend[t] = pending[t] \cup {x}
      /\ \A p \in PCB \ {t} : pend[p] = pending[p]
  BY DEF TypeOK
<1>4. m.state[t] # "SIG_WAIT" /\ \A p \in PCB \ {t} : m.state[p] = state[p]
  <2>1. CASE IsWaiting(t)
    <3> DEFINE u == IF state[t] = "BLOCKED" THEN removeFromQueue(M, blockedQ[t], t) ELSE M
               u1 == [head |-> u.head, next |-> u.next,
                      state |-> [u.state EXCEPT ![t] = "READY"]]
    <3>1. u \in Memory /\ u.state = state
      BY RemoveFromQueueType DEF TypeOK, M
    <3>2. u1 \in Memory /\ u1.state = [state EXCEPT ![t] = "READY"]
      <4> HIDE DEF u
      <4> QED
        BY <3>1 DEF Memory, Process_state
    <3>3. m = addToQueue(u1, ready_queue, t)
      BY <2>1 DEF Wake
    <3>4. u1.state[t] = "READY" /\ \A p \in PCB \ {t} : u1.state[p] = state[p]
      <4>1. state \in [PCB -> Process_state]
        BY DEF TypeOK, M, Memory
      <4> HIDE DEF u1
      <4> QED
        BY <3>2, <4>1
    <3> HIDE DEF u1, m
    <3>5. /\ \A p \in PCB \ {t} : m.state[p] = u1.state[p]
          /\ m.state[t] \in {u1.state[t], "READY", "BLOCKED"}
      <4>1. /\ \A p \in PCB \ {t} : addToQueue(u1, ready_queue, t).state[p] = u1.state[p]
            /\ addToQueue(u1, ready_queue, t).state[t] \in {u1.state[t], "READY", "BLOCKED"}
        <5>1. u1 \in Memory /\ ready_queue \in Queue
          BY <3>2, ConstantTypes
        <5> QED
          BY <5>1, AddToQueueType
      <4> QED
        BY <3>3, <4>1
    <3> QED
      BY <3>4, <3>5
  <2>2. CASE ~ IsWaiting(t)
    BY <2>2 DEF IsWaiting, M
  <2> QED
    BY <2>1, <2>2
<1> HIDE DEF m, pend
<1> QED
  BY <1>1, <1>2, <1>3, <1>4, SwitchToQuiet DEF TypeOK

LEMMA SigWaitEffect ==
  ASSUME TypeOK, SysSigWait
  PROVE  \A x \in PCB : /\ state'[x] = "SIG_WAIT" =>
                             state[x] = "SIG_WAIT" \/ pending[x] = {}
                        /\ pending'[x] \subseteq pending[x]
<1>1. CASE NothingPending(process)
  <2> DEFINE m == [head |-> head, next |-> next,
                   state |-> [state EXCEPT ![process] = "SIG_WAIT"]]
  <2>1. m \in Memory
    BY StateWritten DEF TypeOK, Process_state
  <2>2. find_next_ready_process(m)
    BY <1>1 DEF SysSigWait
  <2>3. \A x \in PCB : m.state[x] = "SIG_WAIT" => state[x] = "SIG_WAIT" \/ x = process
    BY DEF TypeOK, M, Memory
  <2>4. pending[process] = {}
    BY <1>1 DEF NothingPending
  <2> HIDE DEF m
  <2> QED
    BY <2>1, <2>2, <2>3, <2>4, FindNextQuiet
<1>2. CASE ~ NothingPending(process)
  <2>1. Quiet
    BY <1>2, ReturnQuiet DEF SysSigWait, TypeOK, M
  <2> QED
    BY <2>1 DEF Quiet
<1> QED
  BY <1>1, <1>2

LEMMA CreateEffect ==
  ASSUME TypeOK, SysCreate
  PROVE  \/ Quiet /\ sigTable' = sigTable
         \/ \E i \in PCB :
              /\ pending'[i] = {} /\ sigTable' = [sigTable EXCEPT ![i] = {}]
              /\ \A x \in PCB \ {i} : /\ state'[x] = "SIG_WAIT" => state[x] = "SIG_WAIT"
                                      /\ pending'[x] \subseteq pending[x]
<1>1. CASE FreeSlots = {}
  BY <1>1, ReturnQuiet DEF SysCreate, Return, TypeOK, M
<1>2. CASE FreeSlots # {}
  <2> DEFINE i == MinOf(FreeSlots)
             m == [head  |-> head,
                   next  |-> [next EXCEPT ![i] = NULL],
                   state |-> [state EXCEPT ![i] = "READY"]]
             pend == [pending EXCEPT ![i] = {}]
  <2>1. i \in PCB
    <3>1. FreeSlots \in SUBSET Nat
      BY ConstantTypes DEF FreeSlots
    <3>2. i \in FreeSlots
      BY <1>2, <3>1, MinExists
    <3> QED
      BY <3>2 DEF FreeSlots
  <2>2. CreateIn(i)
    BY <1>2 DEF SysCreate
  <2>3. m \in Memory /\ \A x \in PCB : m.state[x] \in {state[x], "READY"}
    BY <2>1 DEF TypeOK, M, Memory, Process_state
  <2>4. /\ pend \in [PCB -> SUBSET Sig] /\ pend[i] = {}
        /\ \A x \in PCB \ {i} : pend[x] = pending[x]
    BY <2>1 DEF TypeOK
  <2>5. SwitchTo(addToQueue(m, ready_queue, i), process, pend, [inSig EXCEPT ![i] = FALSE])
    BY <2>2 DEF CreateIn
  <2>6. sigTable' = [sigTable EXCEPT ![i] = {}]
    BY <2>2 DEF CreateIn
  <2> HIDE DEF m, i, pend
  <2>7. \A x \in PCB : /\ state'[x] = "SIG_WAIT" => state[x] = "SIG_WAIT"
                       /\ pending'[x] \subseteq pend[x]
    <3> DEFINE m1 == addToQueue(m, ready_queue, i)
    <3>1. m1 \in Memory /\ \A x \in PCB : m1.state[x] \in {m.state[x], "READY", "BLOCKED"}
      BY <2>1, <2>3, MakeReadyStates
    <3>2. \A x \in PCB : state'[x] \in {m1.state[x], "RUNNING"} /\ pending'[x] \subseteq pend[x]
      <4> HIDE DEF m1
      <4> QED
        BY <2>4, <2>5, <3>1, SwitchToQuiet DEF m1, TypeOK
    <3> HIDE DEF m1
    <3> QED
      BY <2>3, <3>1, <3>2
  <2> QED
    BY <2>1, <2>4, <2>6, <2>7
<1> QED
  BY <1>1, <1>2

(* Every step, by what it does to pending signals, handlers and waiters.   *)
LEMMA StepEffect ==
  ASSUME TypeOK, [Next]_vars
  PROVE  \/ Quiet /\ \A p \in PCB : sigTable[p] \subseteq sigTable'[p]
         \/ SysCreate
         \/ SysSigWait /\ sigTable' = sigTable
         \/ \E t \in PCB, x \in Sig :
              x \in sigTable[t] /\ sigTable' = sigTable /\ Signal(t, x)
<1>1. CASE SysYield \/ SysStop \/ SysGetPid
  <2>1. sigTable' = sigTable
    BY <1>1 DEF SysYield, SysStop, SysGetPid, sigVars
  <2> QED
    BY <1>1, <2>1, ProcessQuiet
<1>2. CASE KernelLoop
  <2>1. sigTable' = sigTable
    BY <1>2 DEF KernelLoop, UnblockStep, UnblockDone, TickStep, TickDone, sigVars
  <2> QED
    BY <1>2, <2>1, UnblockQuiet, TimeQuiet DEF KernelLoop
<1>3. CASE TimerInt
  BY <1>3, TimeQuiet DEF TimerInt
<1>4. CASE \E t \in Millis : SysSleep(t)
  BY <1>4, SysSleepQuiet DEF SysSleep
<1>5. CASE \E n \in PortArgs : SysPortCreate(n) \/ SysPortDelete(n) \/ SysPortRecv(n)
                             \/ SysSend(n)
  <2>1. sigTable' = sigTable
    BY <1>5 DEF SysPortCreate, SysPortDelete, SysPortRecv, SysSend
  <2> QED
    BY <1>5, <2>1, PortQuiet
<1>6. CASE \E x \in SigArgs, newhandler \in {NULL, Handler} : SysSigHandle(x, newhandler)
  <2>1. PICK x \in SigArgs, newhandler \in {NULL, Handler} : SysSigHandle(x, newhandler)
    BY <1>6
  <2>2. Quiet
    BY <2>1, ReturnQuiet DEF SysSigHandle, Return, TypeOK, M
  <2>3. \A p \in PCB : sigTable[p] \subseteq sigTable'[p]
    <3>1. sigTable' = sigTable \/ sigTable' = [sigTable EXCEPT ![process] = @ \cup {x}]
      BY <2>1 DEF SysSigHandle, ValidHandler, SetHandler
    <3> QED
      BY <3>1 DEF TypeOK
  <2> QED
    BY <2>2, <2>3
<1>7. CASE \E i \in PCB, g \in 0 .. PidCycle - 1, x \in SigArgs : SysKill(PidOf(i, g), x)
  <2>1. PICK i \in PCB, g \in 0 .. PidCycle - 1, x \in SigArgs : SysKill(PidOf(i, g), x)
    BY <1>7
  <2> DEFINE target == PidOf(i, g)
  <2>2. sigTable' = sigTable
    BY <2>1 DEF SysKill
  <2>3. CASE \E r : Return(M, r)
    BY <2>2, <2>3, ReturnQuiet DEF Return, TypeOK, M
  <2>4. CASE ValidSig(x) /\ HasHandler(find_pcb(target), x) /\ Signal(find_pcb(target), x)
    <3>1. x \in Sig /\ find_pcb(target) \in PCB
      BY <2>1, <2>4, ValidSigIsSig, ParameterAssumption DEF SysKill
    <3> QED
      BY <2>2, <2>4, <3>1 DEF HasHandler
  <2> QED
    BY <2>1, <2>3, <2>4 DEF SysKill
<1>8. CASE SysSigReturn
  <2>1. SwitchTo(M, process, pending, [inSig EXCEPT ![process] = FALSE]) /\ sigTable' = sigTable
    BY <1>8 DEF SysSigReturn
  <2>2. \A x \in PCB : state'[x] \in {M.state[x], "RUNNING"} /\ pending'[x] \subseteq pending[x]
    BY <2>1, SwitchToQuiet DEF TypeOK
  <2>3. M.state = state
    BY DEF M
  <2> QED
    BY <2>1, <2>2, <2>3 DEF Quiet
<1>9. CASE SysCreate
  BY <1>9
<1>10. CASE SysSigWait
  BY <1>10 DEF SysSigWait
<1>11. CASE UNCHANGED vars
  BY <1>11 DEF vars, queueVars, sigVars, Quiet
<1> QED
  BY <1>1, <1>2, <1>3, <1>4, <1>5, <1>6, <1>7, <1>8, <1>9, <1>10, <1>11
  DEF Next, KernelLoop

(* sigtramp never calls through a NULL handler: signal() raises no signal  *)
(* without one, sighandler refuses NULL, and create clears both tables.    *)
THEOREM HandlersPresent == Spec => []PendingHasHandler
<1>1. Init => PendingHasHandler
  BY DEF Init, PendingHasHandler
<1>2. TypeOK /\ PendingHasHandler /\ [Next]_vars => PendingHasHandler'
  <2> SUFFICES ASSUME TypeOK, PendingHasHandler, [Next]_vars
               PROVE  \A p \in PCB : pending'[p] \subseteq sigTable'[p]
    BY DEF PendingHasHandler
  <2>1. CASE Quiet /\ \A p \in PCB : sigTable[p] \subseteq sigTable'[p]
    BY <2>1 DEF PendingHasHandler, Quiet
  <2>2. CASE SysCreate
    <3>1. CASE Quiet /\ sigTable' = sigTable
      BY <3>1 DEF PendingHasHandler, Quiet
    <3>2. CASE \E i \in PCB :
              /\ pending'[i] = {} /\ sigTable' = [sigTable EXCEPT ![i] = {}]
              /\ \A x \in PCB \ {i} : pending'[x] \subseteq pending[x]
      BY <3>2 DEF PendingHasHandler, TypeOK
    <3> QED
      BY <2>2, <3>1, <3>2, CreateEffect
  <2>3. CASE SysSigWait /\ sigTable' = sigTable
    BY <2>3, SigWaitEffect DEF PendingHasHandler
  <2>4. CASE \E t \in PCB, x \in Sig :
               x \in sigTable[t] /\ sigTable' = sigTable /\ Signal(t, x)
    BY <2>4, SignalEffect DEF PendingHasHandler
  <2> QED
    BY <2>1, <2>2, <2>3, <2>4, StepEffect
<1> QED
  BY <1>1, <1>2, TypeCorrect, PTL DEF Spec

(* The inductive form of SigWaitNonePending: also for PCBs out of use.     *)
WaitersHaveNone == \A p \in PCB : state[p] = "SIG_WAIT" => pending[p] = {}

(* No wakeup is lost between SYS_SIG_WAIT's test for pending signals and   *)
(* the switch to another process: a process that waits has none pending.   *)
THEOREM NoLostWakeup == Spec => []SigWaitNonePending
<1>1. Init => WaitersHaveNone
  BY DEF Init, WaitersHaveNone
<1>2. TypeOK /\ WaitersHaveNone /\ [Next]_vars => WaitersHaveNone'
  <2> SUFFICES ASSUME TypeOK, WaitersHaveNone, [Next]_vars,
                      NEW p \in PCB, state'[p] = "SIG_WAIT"
               PROVE  pending'[p] = {}
    BY DEF WaitersHaveNone
  <2>1. CASE Quiet
    BY <2>1 DEF WaitersHaveNone, Quiet
  <2>2. CASE SysCreate
    BY <2>1, <2>2, CreateEffect DEF WaitersHaveNone
  <2>3. CASE SysSigWait
    BY <2>3, SigWaitEffect DEF WaitersHaveNone
  <2>4. CASE \E t \in PCB, x \in Sig : Signal(t, x)
    BY <2>4, SignalEffect DEF WaitersHaveNone
  <2> QED
    BY <2>1, <2>2, <2>3, <2>4, StepEffect
<1>3. WaitersHaveNone => SigWaitNonePending
  BY DEF WaitersHaveNone, SigWaitNonePending
<1> QED
  BY <1>1, <1>2, <1>3, TypeCorrect, PTL DEF Spec

---------------------------------------------------------------------------
(* Signals taken.  The top of the dispatch loop, when pend are the pending *)
(* signals and insig the active handlers, takes none or the highest one.   *)
TakesSignal(pend, insig) ==
  \/ pending' = pend
  \/ /\ pend[process'] # {} /\ ~ insig[process']
     /\ pending' = [pend EXCEPT ![process'] = @ \ {MaxOf(@)}]
     /\ inSig' = [insig EXCEPT ![process'] = TRUE]

LEMMA SwitchTakes ==
  ASSUME NEW m, NEW p, NEW pend, NEW insig, SwitchTo(m, p, pend, insig)
  PROVE  TakesSignal(pend, insig)
BY DEF SwitchTo, prepare_sigtramp, TakesSignal

LEMMA FindNextTakes ==
  ASSUME NEW m, find_next_ready_process(m)
  PROVE  TakesSignal(pending, inSig)
BY SwitchTakes DEF find_next_ready_process

LEMMA ReturnTakes ==
  ASSUME NEW m, NEW r, Return(m, r)
  PROVE  TakesSignal(pending, inSig)
BY SwitchTakes DEF Return

(* Starting a process forgets what was pending for the last one of its PCB.*)
LEMMA CreateTakes ==
  ASSUME TypeOK, SysCreate
  PROVE  \/ TakesSignal(pending, inSig)
         \/ \E i \in PCB : /\ pid'[i] # pid[i]
                           /\ TakesSignal([pending EXCEPT ![i] = {}], [inSig EXCEPT ![i] = FALSE])
<1>1. CASE FreeSlots = {}
  BY <1>1, ReturnTakes DEF SysCreate
<1>2. CASE FreeSlots # {}
  <2> DEFINE i == MinOf(FreeSlots)
             g == (gen[i] + 1) % PidCycle
  <2>1. i \in PCB /\ pid[i] = FREE
    <3>1. FreeSlots \in SUBSET Nat
      BY ConstantTypes DEF FreeSlots
    <3>2. i \in FreeSlots
      BY <1>2, <3>1, MinExists
    <3> QED
      BY <3>2 DEF FreeSlots
  <2>2. CreateIn(i)
    BY <1>2 DEF SysCreate
  <2>3. PidOf(i, g) # FREE
    <3>1. gen[i] \in Int /\ PidCycle \in Nat \ {0} /\ i \in Nat
      BY <2>1, ParameterAssumption, ConstantTypes DEF TypeOK
    <3>2. g \in Nat
      BY <3>1
    <3>3. i * PidCycle \in Nat
      BY <3>1
    <3> QED
      BY <3>2, <3>3 DEF PidOf, FREE
  <2>4. pid'[i] = PidOf(i, g)
    BY <2>1, <2>2 DEF CreateIn, TypeOK
  <2>5. TakesSignal([pending EXCEPT ![i] = {}], [inSig EXCEPT ![i] = FALSE])
    BY <2>2, SwitchTakes DEF CreateIn
  <2> QED
    BY <2>1, <2>3, <2>4, <2>5
<1> QED
  BY <1>1, <1>2

(* Every step, by what it raises and which handler it ends before one may  *)
(* be taken.                                                               *)
LEMMA StepTakes ==
  ASSUME TypeOK, [Next]_vars
  PROVE  \/ TakesSignal(pending, inSig)
         \/ SysSigReturn /\ TakesSignal(pending, [inSig EXCEPT ![process] = FALSE])
         \/ \E t \in PCB, s \in Sig : TakesSignal([pending EXCEPT ![t] = @ \cup {s}], inSig)
         \/ \E i \in PCB : /\ pid'[i] # pid[i]
                           /\ TakesSignal([pending EXCEPT ![i] = {}], [inSig EXCEPT ![i] = FALSE])
<1> USE FindNextTakes, ReturnTakes, SwitchTakes
<1>1. CASE SysYield \/ SysStop \/ SysGetPid \/ SysSigWait
  BY <1>1 DEF SysYield, SysStop, SysGetPid, SysSigWait, sigVars, TakesSignal
<1>2. CASE UnblockStep \/ TickStep \/ UNCHANGED vars
  BY <1>2 DEF UnblockStep, TickStep, sigVars, vars, TakesSignal
<1>3. CASE UnblockDone \/ TickDone \/ TimerInt
  <2>1. Preempt => TakesSignal(pending, inSig)
    BY DEF Preempt
  <2>2. pending' = pending => TakesSignal(pending, inSig)
    BY DEF TakesSignal
  <2> QED
    BY <1>3, <2>1, <2>2 DEF UnblockDone, TickDone, TimerInt
<1>4. CASE \E t \in Millis : SysSleep(t)
  BY <1>4 DEF SysSleep
<1>5. CASE \E n \in PortArgs : SysPortCreate(n) \/ SysPortDelete(n)
  <2>1. pending' = pending => TakesSignal(pending, inSig)
    BY DEF TakesSignal
  <2> QED
    BY <1>5, <2>1 DEF SysPortCreate, RefusePort, OpenPort, SysPortDelete
<1>6. CASE \E n \in PortArgs : SysSend(n)
  BY <1>6 DEF SysSend, Deliver, BlockSender
<1>7. CASE \E n \in PortArgs : SysPortRecv(n)
  BY <1>7 DEF SysPortRecv, TakeMessage, BlockReceiver
<1>8. CASE \E x \in SigArgs, newhandler \in {NULL, Handler} : SysSigHandle(x, newhandler)
  BY <1>8 DEF SysSigHandle
<1>9. CASE \E i \in PCB, g \in 0 .. PidCycle - 1, x \in SigArgs : SysKill(PidOf(i, g), x)
  <2>1. PICK i \in PCB, g \in 0 .. PidCycle - 1, x \in SigArgs : SysKill(PidOf(i, g), x)
    BY <1>9
  <2> DEFINE t == find_pcb(PidOf(i, g))
  <2>2. CASE \E r : Return(M, r)
    BY <2>2
  <2>3. CASE ValidSig(x) /\ Signal(t, x)
    <3>1. x \in Sig /\ t \in PCB
      BY <2>1, <2>3, ValidSigIsSig, ParameterAssumption DEF SysKill
    <3>2. TakesSignal([pending EXCEPT ![t] = @ \cup {x}], inSig)
      BY <2>3 DEF Signal
    <3> QED
      BY <3>1, <3>2
  <2> QED
    BY <2>1, <2>2, <2>3 DEF SysKill
<1>10. CASE SysSigReturn
  BY <1>10 DEF SysSigReturn
<1>11. CASE SysCreate
  BY <1>11, CreateTakes
<1> QED
  BY <1>1, <1>2, <1>3, <1>4, <1>5, <1>6, <1>7, <1>8, <1>9, <1>10, <1>11
  DEF Next, KernelLoop

(* A set of signals that is not empty has a highest one.                   *)
LEMMA MaxExists ==
  ASSUME NEW S \in SUBSET Sig, S # {}
  PROVE  MaxOf(S) \in S /\ \A t \in S : t <= MaxOf(S)
<1> DEFINE T == {NSIGS - 1 - s : s \in S}
<1>1. NSIGS \in Nat /\ \A s \in S : s \in 0 .. NSIGS - 1
  BY ParameterAssumption DEF Sig
<1>2. T \in SUBSET Nat /\ T # {}
  BY <1>1
<1>3. PICK u \in T : \A y \in T : u <= y
  <2> HIDE DEF T
  <2> QED
    BY <1>2, MinExists
<1>4. PICK s \in S : u = NSIGS - 1 - s
  OBVIOUS
<1>5. ASSUME NEW t \in S PROVE t <= s
  <2>1. u <= NSIGS - 1 - t
    BY <1>3
  <2> QED
    BY <1>1, <1>4, <2>1
<1> QED
  BY <1>5 DEF MaxOf

(* Signals are handled in turn and none is lost: one that was to be        *)
(* delivered goes away with its process, or because its handler now runs,  *)
(* no other handler being active and no higher signal left behind (signal, *)
(* prepare_sigtramp, SYS_SIG_RETURN, create).                              *)
THEOREM HandledInTurn == Spec => SignalsInTurn
<1> DEFINE InTurn ==
      \A p \in PCB : \A s \in pending[p] \ pending'[p] :
        \/ pid'[p] # pid[p]
        \/ /\ process' = p /\ inSig'[p]
           /\ inSig[p] => SysSigReturn
           /\ \A t \in pending'[p] : t < s
<1>1. ASSUME TypeOK, TypeOK', NEW pend \in [PCB -> SUBSET Sig], NEW insig \in [PCB -> BOOLEAN],
             TakesSignal(pend, insig), NEW p \in PCB, NEW s \in pend[p], s \notin pending'[p]
      PROVE  process' = p /\ inSig'[p] /\ ~ insig[p] /\ \A t \in pending'[p] : t < s
  <2>1. /\ process' = p /\ pend[p] # {} /\ ~ insig[p]
        /\ pending' = [pend EXCEPT ![p] = @ \ {MaxOf(@)}]
        /\ inSig' = [insig EXCEPT ![p] = TRUE]
    BY <1>1 DEF TakesSignal, TypeOK
  <2>2. pending'[p] = pend[p] \ {MaxOf(pend[p])} /\ inSig'[p]
    BY <2>1
  <2>3. s = MaxOf(pend[p])
    BY <1>1, <2>2
  <2>4. \A t \in pend[p] : t <= s
    BY <2>1, <2>3, MaxExists
  <2>5. \A t \in pend[p] : t \in Int
    BY ParameterAssumption DEF Sig
  <2>6. \A t \in pend[p] \ {s} : t < s
    BY <2>4, <2>5
  <2> QED
    BY <2>1, <2>2, <2>3, <2>6
<1>2. TypeOK /\ [Next]_vars => InTurn
  <2> SUFFICES ASSUME TypeOK, [Next]_vars, NEW p \in PCB, NEW s \in pending[p],
                      s \notin pending'[p], pid'[p] = pid[p]
               PROVE  /\ process' = p /\ inSig'[p]
                      /\ inSig[p] => SysSigReturn
                      /\ \A t \in pending'[p] : t < s
    BY DEF InTurn
  <2>1. TypeOK' /\ pending \in [PCB -> SUBSET Sig] /\ inSig \in [PCB -> BOOLEAN]
    BY NextType DEF TypeOK
  <2>2. CASE TakesSignal(pending, inSig)
    BY <2>1, <2>2, <1>1
  <2>3. CASE SysSigReturn /\ TakesSignal(pending, [inSig EXCEPT ![process] = FALSE])
    BY <2>1, <2>3, <1>1
  <2>4. CASE \E t \in PCB, x \in Sig : TakesSignal([pending EXCEPT ![t] = @ \cup {x}], inSig)
    <3>1. PICK t \in PCB, x \in Sig : TakesSignal([pending EXCEPT ![t] = @ \cup {x}], inSig)
      BY <2>4
    <3>2. /\ [pending EXCEPT ![t] = @ \cup {x}] \in [PCB -> SUBSET Sig]
          /\ s \in [pending EXCEPT ![t] = @ \cup {x}][p]
      BY <2>1
    <3> QED
      BY <2>1, <3>1, <3>2, <1>1
  <2>5. CASE \E i \in PCB : /\ pid'[i] # pid[i]
                            /\ TakesSignal([pending EXCEPT ![i] = {}], [inSig EXCEPT ![i] = FALSE])
    <3>1. PICK i \in PCB : /\ pid'[i] # pid[i]
                           /\ TakesSignal([pending EXCEPT ![i] = {}], [inSig EXCEPT ![i] = FALSE])
      BY <2>5
    <3>2. /\ [pending EXCEPT ![i] = {}] \in [PCB -> SUBSET Sig]
          /\ [inSig EXCEPT ![i] = FALSE] \in [PCB -> BOOLEAN]
          /\ i # p /\ s \in [pending EXCEPT ![i] = {}][p]
          /\ [inSig EXCEPT ![i] = FALSE][p] = inSig[p]
      BY <2>1, <3>1
    <3> QED
      BY <2>1, <3>1, <3>2, <1>1
  <2> QED
    BY <2>2, <2>3, <2>4, <2>5, StepTakes
<1>3. SignalsInTurn <=> [][InTurn]_vars
  BY DEF SignalsInTurn, InTurn
<1> HIDE DEF InTurn
<1> QED
  BY <1>2, <1>3, TypeCorrect, PTL DEF Spec
===========================================================================
