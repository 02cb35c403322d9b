---------------------------- MODULE PortProofs ----------------------------
(***************************************************************************)
(* Senders and receivers meet, for every number of processes and ports.    *)
(*                                                                         *)
(*   RendezvousKept     a process blocked in a receive owns the open port  *)
(*                      it waits for, and no sender is blocked on it;      *)
(*   PortListsAgree     open ports have a live owner that lists them;      *)
(*   SendersReachable   a blocked sender's port is open and owned;         *)
(*   ReceiverOwnsPort   a receiver gets messages of its own ports only.    *)
(*                                                                         *)
(* The first needs no assumption on ports.  kdestroyport loses the ports   *)
(* in front of the one it destroys (the code bug of DeletePort), so the    *)
(* others take programs in which that cannot happen: SafeDeletes.          *)
(***************************************************************************)
EXTENDS PlaceProofs

(* Programs pass no more than one port number.                             *)
OnePort == \E n : PortArgs \subseteq {n}

SafeDeletes == "SYS_PORT_DELETE" \notin Calls \/ OnePort

---------------------------------------------------------------------------
(* The invariants.                                                         *)

(* The list of a live process holds open ports of its own, each once.      *)
ListsOwn ==
  \A p \in PCB : Live(p) =>
    /\ \A k \in 1 .. Len(ports[p]) : inUse[ports[p][k]] /\ owner[ports[p][k]] = p
    /\ \A j, k \in 1 .. Len(ports[p]) : ports[p][j] = ports[p][k] => j = k

(* Port 0 means any port in a call, and is never opened.                   *)
PortTables == ~ inUse[0] /\ ListsOwn

Rendezvous(lab) ==
  \A r \in PCB : lab[r] = blocked_queue =>
    /\ want[r] \in Port \cap PortArgs /\ inUse[want[r]]
    /\ owner[want[r]] = r /\ head[want[r]] = NULL

(* An open port has a live owner that lists it, and without port 0 among   *)
(* the arguments it was asked for by its number.                           *)
OwnersList ==
  /\ \A n \in Port : inUse[n] => owner[n] \in PCB /\ Live(owner[n]) /\ ListsPort(owner[n], n)
  /\ 0 \notin PortArgs => \A n \in Port : inUse[n] => n \in PortArgs

---------------------------------------------------------------------------
(* The port tables.                                                        *)

(* The running process is alive when it makes a call.                      *)
Caller == kpc = "user" => Live(process)

LEMMA CallerLives ==
  ASSUME NEW lab, PlaceInv(lab)
  PROVE  Caller
BY DEF PlaceInv, Dispatching, Caller

LEMMA ListedIsPort ==
  ASSUME TypeOK, NEW p \in PCB
  PROVE  /\ ports[p] \in Seq(Port) /\ Len(ports[p]) \in Nat
         /\ \A k \in 1 .. Len(ports[p]) : ports[p][k] \in Port
<1>1. ports[p] \in Seq(Port)
  BY DEF TypeOK
<1> QED
  BY <1>1

(* What is left of a list behind position c, and a list with one added.    *)
LEMMA Suffix ==
  ASSUME NEW s \in Seq(Port), NEW c \in 1 .. Len(s), NEW u, u = SubSeq(s, c + 1, Len(s))
  PROVE  /\ Len(u) \in Nat
         /\ \A j \in 1 .. Len(u) : j + c \in 1 .. Len(s) /\ j + c # c /\ u[j] = s[j + c]
         /\ \A i, j \in 1 .. Len(u) : i + c = j + c => i = j
<1>1. Len(s) \in Nat /\ c \in Nat /\ c <= Len(s)
  OBVIOUS
<1>2. Len(u) = Len(s) - c
  BY <1>1
<1>3. \A j \in 1 .. Len(u) : u[j] = s[j + c]
  BY <1>1, <1>2
<1> QED
  BY <1>1, <1>2, <1>3

LEMMA Appended ==
  ASSUME NEW s \in Seq(Port), NEW n \in Port, NEW u, u = Append(s, n)
  PROVE  \A j \in 1 .. Len(u) : \/ j \in 1 .. Len(s) /\ u[j] = s[j]
                                \/ j = Len(s) + 1 /\ u[j] = n
<1>1. Len(u) = Len(s) + 1 /\ Len(s) \in Nat
  OBVIOUS
<1> QED
  BY <1>1

(* Steps that change a port table or the set of live processes.            *)
LEMMA PortSteps ==
  ASSUME TypeOK, [Next]_vars
  PROVE  \/ UNCHANGED <<pid, portVars>>
         \/ \E i \in PCB : SysCreate /\ i = MinOf(FreeSlots) /\ CreateIn(i) /\ ~ Live(i)
         \/ SysStop
         \/ \E n \in PortArgs, k \in Port :
              /\ SysPortCreate(n) /\ k # 0 /\ ~ inUse[k] /\ OpenPort(k)
              /\ 0 \notin PortArgs => k \in PortArgs
         \/ \E n \in PortArgs :
              SysPortDelete(n) /\ n \in Port /\ owner[n] = process /\ ListsPort(process, n)
<1> USE DEF idVars, portVars
<1>1. CASE SysCreate
  <2>1. CASE FreeSlots = {}
    BY <1>1, <2>1 DEF SysCreate
  <2>2. CASE FreeSlots # {}
    <3>1. FreeSlots \in SUBSET Nat
      BY ConstantTypes DEF FreeSlots
    <3>2. PICK i \in FreeSlots : i = MinOf(FreeSlots)
      BY <2>2, <3>1, MinExists
    <3>3. i \in PCB /\ ~ Live(i)
      BY <3>2 DEF FreeSlots, Live
    <3> QED
      BY <1>1, <2>2, <3>2, <3>3 DEF SysCreate
  <2> QED
    BY <2>1, <2>2
<1>2. CASE \E n \in PortArgs : SysPortCreate(n)
  <2>1. PICK n \in PortArgs : SysPortCreate(n)
    BY <1>2
  <2>2. CASE \E r : RefusePort(r)
    BY <2>1, <2>2 DEF SysPortCreate, RefusePort
  <2>3. CASE ValidPort(n) /\ n # 0 /\ ~ inUse[n] /\ OpenPort(n)
    <3>1. n \in Port
      BY <2>1, <2>3, ValidPortIsPort, ParameterAssumption
    <3> QED
      BY <2>1, <2>3, <3>1
  <2>4. CASE n = 0 /\ FreePorts # {} /\ OpenPort(MinOf(FreePorts))
    <3>1. FreePorts \in SUBSET Nat
      BY ConstantTypes DEF FreePorts
    <3>2. PICK k \in FreePorts : k = MinOf(FreePorts)
      BY <2>4, <3>1, MinExists
    <3>3. k \in Port /\ ~ inUse[k] /\ k # 0
      BY <3>2, SizeAssumption DEF FreePorts, Port
    <3> QED
      BY <2>1, <2>4, <3>2, <3>3
  <2> QED
    BY <2>1, <2>2, <2>3, <2>4 DEF SysPortCreate
<1>3. CASE \E n \in PortArgs : SysPortDelete(n)
  BY <1>3 DEF SysPortDelete
<1>4. CASE SysYield \/ SysGetPid \/ TimerInt \/ KernelLoop \/ SysSigWait \/ SysSigReturn
  BY <1>4 DEF SysYield, SysGetPid, TimerInt, KernelLoop, UnblockStep, UnblockDone, TickStep,
              TickDone, SysSigWait, SysSigReturn
<1>5. CASE \/ \E t \in Millis : SysSleep(t)
           \/ \E n \in PortArgs : SysPortRecv(n) \/ SysSend(n)
           \/ \E s \in SigArgs, newhandler \in {NULL, Handler} : SysSigHandle(s, newhandler)
           \/ \E i \in PCB, g \in 0 .. PidCycle - 1, s \in SigArgs : SysKill(PidOf(i, g), s)
  BY <1>5 DEF SysSleep, SysPortRecv, SysSend, SysSigHandle, SysKill
<1>6. CASE UNCHANGED vars
  BY <1>6 DEF vars
<1> QED
  BY <1>1, <1>2, <1>3, <1>4, <1>5, <1>6 DEF Next

LEMMA CreateTables ==
  ASSUME TypeOK, NEW i \in PCB, SysCreate, CreateIn(i)
  PROVE  /\ inUse' = inUse /\ owner' = owner /\ ports'[i] = <<>>
         /\ \A p \in PCB \ {i} : ports'[p] = ports[p] /\ pid'[p] = pid[p]
  BY DEF SysCreate, CreateIn, TypeOK

LEMMA StopTables ==
  ASSUME TypeOK, SysStop
  PROVE  /\ kpc = "user" /\ process \in PCB /\ pid'[process] = FREE
         /\ owner' = owner /\ ports' = ports
         /\ \A n \in Port : inUse'[n] <=> inUse[n] /\ ~ ListsPort(process, n)
         /\ \A p \in PCB \ {process} : pid'[p] = pid[p]
  BY DEF SysStop, Call, InUseAfterExit, TypeOK

LEMMA OpenTables ==
  ASSUME TypeOK, NEW n, SysPortCreate(n), NEW k \in Port, OpenPort(k)
  PROVE  /\ kpc = "user" /\ process \in PCB /\ pid' = pid
         /\ inUse'[k] /\ owner'[k] = process
         /\ \A j \in Port \ {k} : inUse'[j] = inUse[j] /\ owner'[j] = owner[j]
         /\ ports'[process] = Append(ports[process], k)
         /\ \A p \in PCB \ {process} : ports'[p] = ports[p]
  BY DEF SysPortCreate, Call, OpenPort, idVars, TypeOK

LEMMA DeleteTables ==
  ASSUME TypeOK, NEW n \in Port, SysPortDelete(n), owner[n] = process, ListsPort(process, n)
  PROVE  /\ kpc = "user" /\ kpc' # "user" /\ process \in PCB /\ pid' = pid /\ owner' = owner
         /\ ~ inUse'[n] /\ \A j \in Port \ {n} : inUse'[j] = inUse[j]
         /\ \A p \in PCB \ {process} : ports'[p] = ports[p]
         /\ \E c \in 1 .. Len(ports[process]) :
              /\ ports[process][c] = n
              /\ ports'[process] = SubSeq(ports[process], c + 1, Len(ports[process]))
<1>1. /\ inUse' = [inUse EXCEPT ![n] = FALSE]
      /\ ports' = [ports EXCEPT ![process] = SubSeq(@, Position(@, n) + 1, Len(@))]
      /\ kpc = "user" /\ kpc' = "unblock" /\ pid' = pid /\ owner' = owner
  BY DEF SysPortDelete, Call, idVars
<1>2. PICK c \in 1 .. Len(ports[process]) : c = Position(ports[process], n) /\ ports[process][c] = n
  <2>1. process \in PCB
    BY DEF TypeOK
  <2> QED
    BY <2>1, PositionFound
<1> QED
  BY <1>1, <1>2 DEF TypeOK

(* Port 0 is not opened, and lists keep to their owner's open ports.       *)
LEMMA PortTablesStep ==
  ASSUME TypeOK, Caller, PortTables, [Next]_vars
  PROVE  PortTables'
<1> USE ListedIsPort
<1>0. 0 \in Port
  BY SizeAssumption DEF Port
<1>1. CASE UNCHANGED <<pid, portVars>>
  BY <1>1 DEF PortTables, ListsOwn, Live, portVars
<1>2. CASE \E i \in PCB : SysCreate /\ CreateIn(i)
  <2>1. PICK i \in PCB : SysCreate /\ CreateIn(i)
    BY <1>2
  <2> QED
    BY <2>1, CreateTables DEF PortTables, ListsOwn, Live
<1>3. CASE SysStop
  <2>1. \A p \in PCB \ {process} : Live(p) =>
          \A k \in 1 .. Len(ports[p]) : ~ ListsPort(process, ports[p][k])
    <3> SUFFICES ASSUME NEW p \in PCB \ {process}, Live(p), NEW k \in 1 .. Len(ports[p]),
                        ListsPort(process, ports[p][k])
                 PROVE  FALSE
      OBVIOUS
    <3>1. PICK j \in 1 .. Len(ports[process]) : ports[process][j] = ports[p][k]
      BY DEF ListsPort
    <3>2. Live(process) /\ process \in PCB
      BY <1>3, StopTables DEF Caller
    <3> QED
      BY <3>1, <3>2 DEF PortTables, ListsOwn
  <2>2. ListsOwn'
    BY <1>3, <2>1, StopTables DEF PortTables, ListsOwn, Live
  <2> QED
    BY <1>0, <1>3, <2>2, StopTables DEF PortTables
<1>4. CASE \E n \in PortArgs, k \in Port : SysPortCreate(n) /\ k # 0 /\ ~ inUse[k] /\ OpenPort(k)
  <2>1. PICK n \in PortArgs, k \in Port : SysPortCreate(n) /\ k # 0 /\ ~ inUse[k] /\ OpenPort(k)
    BY <1>4
  <2>2. /\ kpc = "user" /\ process \in PCB /\ pid' = pid
        /\ inUse'[k] /\ owner'[k] = process
        /\ \A j \in Port \ {k} : inUse'[j] = inUse[j] /\ owner'[j] = owner[j]
        /\ ports'[process] = Append(ports[process], k)
        /\ \A p \in PCB \ {process} : ports'[p] = ports[p]
    BY <2>1, OpenTables
  <2>3. ~ inUse'[0]
    BY <1>0, <2>1, <2>2 DEF PortTables
  <2>4. ASSUME NEW p \in PCB, Live(p)
        PROVE  /\ \A j \in 1 .. Len(ports[p]) : ports[p][j] \in Port \ {k}
               /\ \A j \in 1 .. Len(ports[p]) : inUse'[ports[p][j]] /\ owner'[ports[p][j]] = p
               /\ \A i, j \in 1 .. Len(ports[p]) : ports[p][i] = ports[p][j] => i = j
    BY <2>1, <2>2, <2>4 DEF PortTables, ListsOwn
  <2>5. ListsOwn'
    <3> SUFFICES ASSUME NEW p \in PCB, Live(p)'
                 PROVE  /\ \A j \in 1 .. Len(ports'[p]) :
                             inUse'[ports'[p][j]] /\ owner'[ports'[p][j]] = p
                        /\ \A i, j \in 1 .. Len(ports'[p]) : ports'[p][i] = ports'[p][j] => i = j
      BY DEF ListsOwn
    <3>1. Live(p)
      BY <2>2 DEF Live
    <3>2. CASE p # process
      BY <2>2, <2>4, <3>1, <3>2
    <3>3. CASE p = process
      <4>1. ports[p] \in Seq(Port) /\ ports'[p] = Append(ports[p], k)
        BY <2>2, <3>3
      <4>2. \A j \in 1 .. Len(ports'[p]) :
              \/ j \in 1 .. Len(ports[p]) /\ ports'[p][j] = ports[p][j]
              \/ j = Len(ports[p]) + 1 /\ ports'[p][j] = k
        BY <4>1, Appended
      <4>3. /\ \A j \in 1 .. Len(ports[p]) : ports[p][j] \in Port \ {k}
            /\ \A j \in 1 .. Len(ports[p]) : inUse'[ports[p][j]] /\ owner'[ports[p][j]] = p
            /\ \A i, j \in 1 .. Len(ports[p]) : ports[p][i] = ports[p][j] => i = j
        BY <2>4, <3>1
      <4>4. ASSUME NEW j \in 1 .. Len(ports'[p])
            PROVE  inUse'[ports'[p][j]] /\ owner'[ports'[p][j]] = p
        BY <2>2, <3>3, <4>2, <4>3
      <4>5. ASSUME NEW i \in 1 .. Len(ports'[p]), NEW j \in 1 .. Len(ports'[p]),
                   ports'[p][i] = ports'[p][j]
            PROVE  i = j
        <5>1. CASE i = Len(ports[p]) + 1
          BY <4>2, <4>3, <4>5, <5>1
        <5>2. CASE j = Len(ports[p]) + 1
          BY <4>2, <4>3, <4>5, <5>2
        <5>3. CASE i \in 1 .. Len(ports[p]) /\ j \in 1 .. Len(ports[p])
          <6>1. ports[p][i] = ports[p][j]
            BY <4>2, <4>3, <4>5, <5>3
          <6> QED
            BY <4>3, <5>3, <6>1
        <5> QED
          BY <4>2, <5>1, <5>2, <5>3
      <4> QED
        BY <4>4, <4>5
    <3> QED
      BY <3>2, <3>3
  <2> QED
    BY <2>3, <2>5 DEF PortTables
<1>5. CASE \E n \in PortArgs :
             SysPortDelete(n) /\ n \in Port /\ owner[n] = process /\ ListsPort(process, n)
  <2>1. PICK n \in Port : SysPortDelete(n) /\ owner[n] = process /\ ListsPort(process, n)
    BY <1>5
  <2>2. /\ kpc = "user" /\ process \in PCB /\ pid' = pid /\ owner' = owner
        /\ ~ inUse'[n] /\ \A j \in Port \ {n} : inUse'[j] = inUse[j]
        /\ \A p \in PCB \ {process} : ports'[p] = ports[p]
    BY <2>1, DeleteTables
  <2>3. PICK c \in 1 .. Len(ports[process]) :
              /\ ports[process][c] = n
              /\ ports'[process] = SubSeq(ports[process], c + 1, Len(ports[process]))
    BY <2>1, DeleteTables
  <2>4. ~ inUse'[0]
    BY <1>0, <2>2 DEF PortTables
  <2>5. ListsOwn'
    <3> SUFFICES ASSUME NEW p \in PCB, Live(p)'
                 PROVE  /\ \A j \in 1 .. Len(ports'[p]) :
                             inUse'[ports'[p][j]] /\ owner'[ports'[p][j]] = p
                        /\ \A i, j \in 1 .. Len(ports'[p]) : ports'[p][i] = ports'[p][j] => i = j
      BY DEF ListsOwn
    <3>1. /\ \A j \in 1 .. Len(ports[p]) : inUse[ports[p][j]] /\ owner[ports[p][j]] = p
          /\ \A i, j \in 1 .. Len(ports[p]) : ports[p][i] = ports[p][j] => i = j
      BY <2>2 DEF Live, PortTables, ListsOwn
    <3>2. CASE p # process
      BY <2>1, <2>2, <3>1, <3>2
    <3>3. CASE p = process
      <4>1. /\ ports[p] \in Seq(Port) /\ c \in 1 .. Len(ports[p])
            /\ ports'[p] = SubSeq(ports[p], c + 1, Len(ports[p])) /\ ports[p][c] = n
        BY <2>2, <2>3, <3>3
      <4>2. /\ \A j \in 1 .. Len(ports'[p]) : /\ j + c \in 1 .. Len(ports[p]) /\ j + c # c
                                              /\ ports'[p][j] = ports[p][j + c]
            /\ \A i, j \in 1 .. Len(ports'[p]) : i + c = j + c => i = j
        BY <4>1, Suffix
      <4>3. ASSUME NEW j \in 1 .. Len(ports'[p])
            PROVE  inUse'[ports'[p][j]] /\ owner'[ports'[p][j]] = p
        <5>1. ports'[p][j] \in Port \ {n} /\ inUse[ports'[p][j]] /\ owner[ports'[p][j]] = p
          BY <3>1, <4>1, <4>2
        <5> QED
          BY <2>2, <5>1
      <4>4. ASSUME NEW i \in 1 .. Len(ports'[p]), NEW j \in 1 .. Len(ports'[p]),
                   ports'[p][i] = ports'[p][j]
            PROVE  i = j
        <5>1. i + c = j + c
          BY <3>1, <4>2, <4>4
        <5> QED
          BY <4>2, <5>1
      <4> QED
        BY <4>3, <4>4
    <3> QED
      BY <3>2, <3>3
  <2> QED
    BY <2>4, <2>5 DEF PortTables
<1> QED
  BY <1>1, <1>2, <1>3, <1>4, <1>5, PortSteps

(* Open ports keep a live owner that lists them; a port is destroyed when  *)
(* it is the only one.                                                     *)
LEMMA OwnersListStep ==
  ASSUME TypeOK, SafeDeletes, Caller, PortTables, OwnersList, [Next]_vars
  PROVE  OwnersList'
<1> USE ListedIsPort
<1>1. CASE UNCHANGED <<pid, portVars>>
  BY <1>1 DEF OwnersList, Live, ListsPort, portVars
<1>2. CASE \E i \in PCB : SysCreate /\ CreateIn(i) /\ ~ Live(i)
  BY <1>2, CreateTables DEF OwnersList, Live, ListsPort
<1>3. CASE SysStop
  BY <1>3, StopTables DEF OwnersList, Live, ListsPort
<1>4. CASE \E n \in PortArgs, k \in Port :
             /\ SysPortCreate(n) /\ OpenPort(k) /\ (0 \notin PortArgs => k \in PortArgs)
  <2>1. PICK n \in PortArgs, k \in Port :
               /\ SysPortCreate(n) /\ OpenPort(k) /\ (0 \notin PortArgs => k \in PortArgs)
    BY <1>4
  <2>2. /\ process \in PCB /\ pid' = pid /\ Live(process)
        /\ inUse'[k] /\ owner'[k] = process
        /\ \A j \in Port \ {k} : inUse'[j] = inUse[j] /\ owner'[j] = owner[j]
        /\ ports'[process] = Append(ports[process], k)
        /\ \A p \in PCB \ {process} : ports'[p] = ports[p]
    BY <2>1, OpenTables DEF Caller
  <2>3. \A j \in Port : (j = k \/ ListsPort(process, j)) =>
          \E c \in 1 .. Len(ports'[process]) : ports'[process][c] = j
    <3>1. /\ Len(ports'[process]) = Len(ports[process]) + 1
          /\ ports'[process][Len(ports[process]) + 1] = k
          /\ \A c \in 1 .. Len(ports[process]) : ports'[process][c] = ports[process][c]
      BY <2>2
    <3>2. /\ Len(ports[process]) + 1 \in 1 .. Len(ports'[process])
          /\ \A c \in 1 .. Len(ports[process]) : c \in 1 .. Len(ports'[process])
      BY <2>2, <3>1
    <3> QED
      BY <3>1, <3>2 DEF ListsPort
  <2>4. ASSUME NEW j \in Port, inUse'[j]
        PROVE  owner'[j] \in PCB /\ Live(owner'[j])
               /\ \E c \in 1 .. Len(ports'[owner'[j]]) : ports'[owner'[j]][c] = j
    <3>1. CASE j = k
      BY <2>2, <2>3, <3>1
    <3>2. CASE j # k /\ owner[j] = process
      <4>1. owner'[j] = process /\ inUse[j]
        BY <2>2, <2>4, <3>2
      <4>2. ListsPort(process, j)
        BY <3>2, <4>1 DEF OwnersList
      <4> QED
        BY <2>2, <2>3, <4>1, <4>2
    <3>3. CASE j # k /\ owner[j] # process
      BY <2>2, <2>4, <3>3 DEF OwnersList, ListsPort
    <3> QED
      BY <3>1, <3>2, <3>3
  <2>5. 0 \notin PortArgs => \A j \in Port : inUse'[j] => j \in PortArgs
    BY <2>1, <2>2 DEF OwnersList
  <2> QED
    BY <2>2, <2>4, <2>5 DEF OwnersList, Live, ListsPort
<1>5. CASE \E n \in PortArgs :
             SysPortDelete(n) /\ n \in Port /\ owner[n] = process /\ ListsPort(process, n)
  <2>1. PICK n \in PortArgs :
             SysPortDelete(n) /\ n \in Port /\ owner[n] = process /\ ListsPort(process, n)
    BY <1>5
  <2>2. \A m \in PortArgs : m = n
    BY <2>1 DEF SysPortDelete, Call, SafeDeletes, OnePort
  <2>3. Live(process) /\ process \in PCB
    BY <2>1, DeleteTables DEF Caller
  <2>4. inUse[n] /\ n # 0
    BY <2>1, <2>3 DEF PortTables, ListsOwn, ListsPort
  <2>5. \A m \in Port : inUse[m] => m = n
    BY <2>2, <2>4 DEF OwnersList
  <2>6. \A m \in Port : ~ inUse'[m]
    BY <2>1, <2>5, DeleteTables
  <2> QED
    BY <2>6 DEF OwnersList
<1> QED
  BY <1>1, <1>2, <1>3, <1>4, <1>5, PortSteps

---------------------------------------------------------------------------
(* The rendezvous.                                                         *)

(* A blocked receiver goes on wanting the same port until it is served.    *)
LEMMA WantKept ==
  ASSUME TypeOK, UnblockedTargets, NEW lab, PlaceInv(lab), [Next]_vars,
         NEW r \in PCB, lab[r] = blocked_queue
  PROVE  \/ want'[r] = want[r]
         \/ \E n \in PortArgs : Serves(n) /\ r = owner[n]
<1>1. /\ r # process /\ ~ Unqueued(r) /\ state[r] # "SIG_WAIT"
      /\ NoKill \/ state[r] # "BLOCKED"
  BY PlacedTypes DEF PlaceInv, Placed, Signalled, Unqueued, blocked_queue, Unlisted
<1> USE DEF ipcVars
<1>2. CASE \E n \in PortArgs : SysSend(n)
  <2>1. PICK n \in PortArgs : SysSend(n)
    BY <1>2
  <2>2. CASE Serves(n)
    BY <2>2 DEF Serves, Deliver, TypeOK
  <2> QED
    BY <2>1, <2>2 DEF SysSend, BlockSender, Serves
<1>3. CASE \E n \in PortArgs : SysPortRecv(n)
  BY <1>1, <1>3 DEF SysPortRecv, TakeMessage, BlockReceiver, TypeOK
<1>4. CASE \E i \in PCB, g \in 0 .. PidCycle - 1, s \in SigArgs : SysKill(PidOf(i, g), s)
  <2>1. PICK i \in PCB, g \in 0 .. PidCycle - 1, s \in SigArgs : SysKill(PidOf(i, g), s)
    BY <1>4
  <2>2. \A x \in PCB : lab[x] = blocked_queue => ~ IsWaiting(x)
    BY <2>1, PlacedTypes
    DEF SysKill, Call, NoKill, PlaceInv, Placed, Signalled, Unqueued,
        blocked_queue, Unlisted, IsWaiting
  <2> QED
    BY <2>1, <2>2 DEF SysKill, Signal, TypeOK
<1>5. CASE SysYield \/ SysCreate \/ SysStop \/ SysGetPid \/ TimerInt \/ KernelLoop
           \/ SysSigWait \/ SysSigReturn
  BY <1>5 DEF SysYield, SysCreate, SysStop, SysGetPid, TimerInt, KernelLoop, UnblockStep,
              UnblockDone, TickStep, TickDone, SysSigWait, SysSigReturn
<1>6. CASE \/ \E t \in Millis : SysSleep(t)
           \/ \E n \in PortArgs : SysPortCreate(n) \/ SysPortDelete(n)
           \/ \E s \in SigArgs, newhandler \in {NULL, Handler} : SysSigHandle(s, newhandler)
  BY <1>6 DEF SysSleep, SysPortCreate, SysPortDelete, SysSigHandle
<1>7. CASE UNCHANGED vars
  BY <1>7 DEF vars
<1> QED
  BY <1>2, <1>3, <1>4, <1>5, <1>6, <1>7 DEF Next

(* Nobody but its owner closes a port, and the owner is blocked.           *)
LEMMA OpenPortKept ==
  ASSUME TypeOK, Caller, PortTables, [Next]_vars,
         NEW n \in Port, inUse[n], owner[n] # process
  PROVE  inUse'[n] /\ owner'[n] = owner[n]
<1>1. CASE UNCHANGED portVars
  BY <1>1 DEF portVars
<1>2. CASE \E i \in PCB : SysCreate /\ CreateIn(i)
  BY <1>2, CreateTables
<1>3. CASE SysStop
  <2>1. Live(process) /\ process \in PCB
    BY <1>3, StopTables DEF Caller
  <2>2. ~ ListsPort(process, n)
    BY <2>1 DEF ListsPort, PortTables, ListsOwn
  <2> QED
    BY <1>3, <2>2, StopTables
<1>4. CASE \E m \in PortArgs, k \in Port : SysPortCreate(m) /\ ~ inUse[k] /\ OpenPort(k)
  BY <1>4, OpenTables
<1>5. CASE \E m \in PortArgs :
             SysPortDelete(m) /\ m \in Port /\ owner[m] = process /\ ListsPort(process, m)
  BY <1>5, DeleteTables
<1> QED
  BY <1>1, <1>2, <1>3, <1>4, <1>5, PortSteps

LEMMA RendezvousStep ==
  ASSUME TypeOK, UnblockedTargets, PortTables, NEW lab, PlaceInv(lab), Rendezvous(lab),
         [Next]_vars
  PROVE  \E lab1 : PlaceInv(lab1)' /\ Rendezvous(lab1)'
<1>1. lab[process] = Unlisted /\ lab[Idle] = Unlisted /\ process \in PCB /\ Idle \in PCB
  BY PlacedTypes, ConstantTypes DEF TypeOK
<1>2. /\ blocked_queue # Unlisted /\ blocked_queue # ready_queue /\ blocked_queue \in Queue
      /\ \A n \in Port : n # blocked_queue
  BY ConstantTypes DEF blocked_queue, ready_queue, Unlisted, Port
<1>3. ASSUME NEW r \in PCB, lab[r] = blocked_queue
      PROVE  /\ want[r] \in Port \cap PortArgs /\ inUse'[want[r]] /\ owner'[want[r]] = r
             /\ r # process /\ r # Idle
  BY <1>1, <1>2, <1>3, OpenPortKept, CallerLives DEF Rendezvous
<1>4. ASSUME NEW lab1, NEW W, NEW N, Meets(lab, lab1, W, N),
             NEW r \in PCB, lab[r] = blocked_queue,
             want'[r] = want[r], want[r] \notin N
      PROVE  /\ want'[r] \in Port \cap PortArgs /\ inUse'[want'[r]]
             /\ owner'[want'[r]] = r /\ head'[want'[r]] = NULL
  <2>1. head[want[r]] = NULL /\ want[r] \in Port
    BY <1>4 DEF Rendezvous
  <2>2. head'[want[r]] = NULL
    BY <1>4, <2>1 DEF Meets
  <2> QED
    BY <1>3, <1>4, <2>2
<1>5. CASE \E n \in PortArgs : Serves(n)
  <2>1. PICK n \in PortArgs : Serves(n)
    BY <1>5
  <2>2. PICK lab1 : /\ PlaceInv(lab1)' /\ Meets(lab, lab1, {owner[n]}, {})
                    /\ lab1[owner[n]] = ready_queue
    BY <2>1, ServePlaces
  <2>3. ASSUME NEW r \in PCB, lab1[r] = blocked_queue
        PROVE  lab[r] = blocked_queue /\ want'[r] = want[r]
    <3>1. r # owner[n] /\ want' = [want EXCEPT ![owner[n]] = NULL]
      BY <1>2, <2>1, <2>2, <2>3 DEF Serves, Deliver
    <3> QED
      BY <2>2, <2>3, <3>1 DEF Meets, TypeOK
  <2>4. Rendezvous(lab1)'
    BY <1>4, <2>2, <2>3 DEF Rendezvous
  <2> QED
    BY <2>2, <2>4
<1>6. CASE ~ \E n \in PortArgs : Serves(n)
  <2>1. \A r \in PCB : lab[r] = blocked_queue => want'[r] = want[r]
    BY <1>6, WantKept
  <2>2. CASE \E lab1 : PlaceInv(lab1)' /\ Meets(lab, lab1, {}, {})
    <3>1. PICK lab1 : PlaceInv(lab1)' /\ Meets(lab, lab1, {}, {})
      BY <2>2
    <3>2. \A r \in PCB : lab1[r] = blocked_queue => lab[r] = blocked_queue
      BY <3>1 DEF Meets
    <3>3. Rendezvous(lab1)'
      BY <1>4, <2>1, <3>1, <3>2 DEF Rendezvous
    <3> QED
      BY <3>1, <3>3
  <2>3. ASSUME NEW n \in PortArgs, owner[n] # process, ~ ReceiverWaits(owner[n]),
               NEW lab1, PlaceInv(lab1)', Meets(lab, lab1, {}, {n})
        PROVE  Rendezvous(lab1)'
    <3>1. \A r \in PCB : lab1[r] = blocked_queue => lab[r] = blocked_queue
      BY <2>3 DEF Meets
    <3>2. ASSUME NEW r \in PCB, lab[r] = blocked_queue
          PROVE  want[r] # n
      <4>1. r \in Chain(M, blocked_queue) /\ r # Idle
        BY <1>2, <1>3, <3>2, PlacedTypes, ChainIsClass
      <4>2. ReceiverWaits(r)
        BY <4>1 DEF ReceiverWaits, IsRemovable
      <4>3. owner[want[r]] = r
        BY <3>2 DEF Rendezvous
      <4> QED
        BY <2>3, <4>2, <4>3
    <3>3. \A r \in PCB : lab1[r] = blocked_queue =>
            /\ want'[r] \in Port \cap PortArgs /\ inUse'[want'[r]]
            /\ owner'[want'[r]] = r /\ head'[want'[r]] = NULL
      BY <1>4, <2>1, <2>3, <3>1, <3>2
    <3> QED
      BY <3>3 DEF Rendezvous
  <2>4. ASSUME NEW n \in PortArgs, SysPortRecv(n), n \in Port, inUse[n],
               procOwnsPort(process, n), SenderPorts(n) = {}, BlockReceiver(n),
               NEW lab1, PlaceInv(lab1)', Meets(lab, lab1, {process}, {})
        PROVE  Rendezvous(lab1)'
    <3>1. \A r \in PCB \ {process} : lab1[r] = blocked_queue => lab[r] = blocked_queue
      BY <2>4 DEF Meets
    <3>2. n # 0 /\ owner[n] = process /\ head[n] = NULL
      BY <2>4 DEF PortTables, procOwnsPort, SenderPorts
    <3>3. inUse' = inUse /\ owner' = owner /\ want'[process] = n
      BY <1>1, <2>4 DEF SysPortRecv, BlockReceiver, portVars, TypeOK
    <3>4. head'[n] = NULL
      BY <2>4, <3>2 DEF Meets
    <3>5. ASSUME NEW r \in PCB, lab1[r] = blocked_queue
          PROVE  /\ want'[r] \in Port \cap PortArgs /\ inUse'[want'[r]]
                 /\ owner'[want'[r]] = r /\ head'[want'[r]] = NULL
      <4>1. CASE r = process
        BY <2>4, <3>2, <3>3, <3>4, <4>1
      <4>2. CASE r # process
        BY <1>4, <2>1, <2>4, <3>1, <3>5, <4>2
      <4> QED
        BY <4>1, <4>2
    <3> QED
      BY <3>5 DEF Rendezvous
  <2> QED
    BY <1>6, <2>2, <2>3, <2>4, StepPlaces
<1> QED
  BY <1>5, <1>6

---------------------------------------------------------------------------
(* The theorems.                                                           *)
LEMMA InitPorts == Init => PortTables /\ OwnersList /\ \E lab : PlaceInv(lab) /\ Rendezvous(lab)
<1> SUFFICES ASSUME Init
             PROVE  PortTables /\ OwnersList /\ \E lab : PlaceInv(lab) /\ Rendezvous(lab)
  OBVIOUS
<1>1. PortTables /\ OwnersList
  BY SizeAssumption DEF Init, PortTables, ListsOwn, OwnersList, Port
<1>2. PICK lab : PlaceInv(lab)
  BY InitPlaces
<1>3. \A p \in PCB : lab[p] # blocked_queue
  <2>1. \A p \in PCB : Unqueued(p)
    BY DEF Init, Unqueued, Live
  <2> QED
    BY <1>2, <2>1 DEF PlaceInv, Placed, Unlisted, blocked_queue
<1>4. Rendezvous(lab)
  BY <1>3 DEF Rendezvous
<1> QED
  BY <1>1, <1>2, <1>4

(* Every blocked receiver owns the open port it asked for, in every        *)
(* reachable state, and port lists hold open ports of their process only.  *)
THEOREM PortStep ==
  ASSUME UnblockedTargets
  PROVE  Spec => [](TypeOK /\ PortTables /\ \E lab : PlaceInv(lab) /\ Rendezvous(lab))
<1> DEFINE Inv == PortTables /\ \E lab : PlaceInv(lab) /\ Rendezvous(lab)
<1>1. Init => Inv
  BY InitPorts
<1>2. TypeOK /\ Inv /\ [Next]_vars => Inv'
  <2> SUFFICES ASSUME TypeOK, Inv, [Next]_vars PROVE Inv'
    OBVIOUS
  <2>1. PICK lab : PlaceInv(lab) /\ Rendezvous(lab)
    OBVIOUS
  <2> QED
    BY <2>1, CallerLives, PortTablesStep, RendezvousStep
<1> HIDE DEF Inv
<1>3. Spec => [](TypeOK /\ Inv)
  BY <1>1, <1>2, TypeCorrect, PTL DEF Spec
<1> QED
  BY <1>3 DEF Inv

(* No rendezvous is missed: a process blocked in a receive still owns the  *)
(* open port it waits for, and no sender is blocked on it at the same time *)
(* (ksendtoport against krecvfromport), however ports are destroyed.       *)
THEOREM RendezvousKept ==
  ASSUME UnblockedTargets
  PROVE  Spec => []NoMissedRendezvous
<1>1. (\E lab : PlaceInv(lab) /\ Rendezvous(lab)) => NoMissedRendezvous
  BY PlaceChains, ConstantTypes DEF PlaceInv, Rendezvous, NoMissedRendezvous
<1> QED
  BY <1>1, PortStep, PTL

(* What PortsAgree and NoStrandedSender rest on.                           *)
LEMMA OwnersListed ==
  ASSUME UnblockedTargets, SafeDeletes
  PROVE  Spec => [](PortTables /\ OwnersList /\ \E lab : PlaceInv(lab))
<1> DEFINE Place == \E lab : PlaceInv(lab)
           Meet == \E lab : PlaceInv(lab) /\ Rendezvous(lab)
<1>1. Init => OwnersList
  BY InitPorts
<1>2. TypeOK /\ PortTables /\ Place /\ OwnersList /\ [Next]_vars => OwnersList'
  BY CallerLives, OwnersListStep
<1>3. Meet => Place
  OBVIOUS
<1>4. Spec => [](TypeOK /\ PortTables /\ Meet)
  BY PortStep
<1> HIDE DEF Place, Meet
<1>5. Spec => [](PortTables /\ OwnersList /\ Place)
  BY <1>1, <1>2, <1>3, <1>4, PTL DEF Spec
<1> QED
  BY <1>5 DEF Place

(* The port table and the lists of the PCBs agree: an open port is listed  *)
(* by its owner, who is alive, and lists hold open ports only (kcreateport,*)
(* kdestroyport, kdestroyallports).                                        *)
THEOREM PortListsAgree ==
  ASSUME UnblockedTargets, SafeDeletes
  PROVE  Spec => []PortsAgree
<1>1. PortTables /\ OwnersList => PortsAgree
  BY DEF PortTables, ListsOwn, OwnersList, PortsAgree, ListsPort
<1> QED
  BY <1>1, OwnersListed, PTL

(* A sender blocked on a port can still be reached: the port is open and   *)
(* its owner, who may yet receive or destroy it, is alive and lists it     *)
(* (ksendtoport against kdestroyport and kdestroyallports).                *)
THEOREM SendersReachable ==
  ASSUME UnblockedTargets, SafeDeletes
  PROVE  Spec => []NoStrandedSender
<1>1. OwnersList /\ (\E lab : PlaceInv(lab)) => NoStrandedSender
  <2> SUFFICES ASSUME OwnersList, NEW lab, PlaceInv(lab), kpc = "user",
                      NEW n \in Port, head[n] # NULL
               PROVE  inUse[n] /\ owner[n] \in PCB /\ Live(owner[n]) /\ ListsPort(owner[n], n)
    BY DEF NoStrandedSender
  <2>1. inUse[n]
    BY DEF PlaceInv, Dispatching, SendersHeld
  <2> QED
    BY <2>1 DEF OwnersList
<1> QED
  BY <1>1, OwnersListed, PTL

(* A receiver that stops waiting was interrupted by a signal, or got a     *)
(* message of a port in its own list, never one that was sent to a port of *)
(* an earlier process in its PCB (ksendtoport, kdestroyallports).          *)
THEOREM ReceiverOwnsPort ==
  ASSUME UnblockedTargets, SafeDeletes
  PROVE  Spec => ReceivesOnOwnPort
<1> DEFINE Place == \E lab : PlaceInv(lab)
           Owns == \A r \in PCB : On(r, blocked_queue) /\ ~ On(r, blocked_queue)' =>
                     rc'[r] = -452 \/ ListsPort(r, rc'[r])
<1>1. TypeOK /\ OwnersList /\ Place /\ [Next]_vars => Owns
  <2> SUFFICES ASSUME TypeOK, OwnersList, NEW lab, PlaceInv(lab), [Next]_vars,
                      NEW r \in PCB, On(r, blocked_queue), ~ On(r, blocked_queue)'
               PROVE  ListsPort(r, rc'[r])
    BY DEF Place, Owns
  <2>1. lab[r] = blocked_queue
    BY PlaceChains, ConstantTypes DEF PlaceInv
  <2>2. ASSUME NEW lab1, PlaceInv(lab1)', lab1[r] = blocked_queue
        PROVE  FALSE
    BY <2>2, ChainIsClass, ConstantTypes DEF PlaceInv, Placed, On
  <2>3. CASE \E n \in PortArgs : Serves(n) /\ r = owner[n]
    <3>1. PICK n \in PortArgs : Serves(n) /\ r = owner[n]
      BY <2>3
    <3>2. rc'[r] = n
      BY <3>1 DEF Serves, Deliver, TypeOK
    <3>3. n \in Port /\ inUse[n]
      BY <3>1, ParameterAssumption, ValidPortIsPort DEF Serves, CanSend
    <3> QED
      BY <3>1, <3>2, <3>3 DEF OwnersList
  <2> QED
    BY <2>1, <2>2, <2>3, StepPlaces, ServePlaces, PlacedTypes DEF Meets, Unlisted, blocked_queue
<1>2. Spec => [](OwnersList /\ Place)
  BY OwnersListed, PTL DEF Place
<1>3. ReceivesOnOwnPort <=> [][Owns]_vars
  BY DEF ReceivesOnOwnPort, Owns
<1> HIDE DEF Place, Owns
<1> QED
  BY <1>1, <1>2, <1>3, TypeCorrect, PTL DEF Spec
===========================================================================
