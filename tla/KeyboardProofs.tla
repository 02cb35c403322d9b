-------------------------- MODULE KeyboardProofs --------------------------
(***************************************************************************)
(* Theorems about Keyboard for every number of processes, size of the      *)
(* buffer and set of keys, and for all arguments.                          *)
(*                                                                         *)
(*   DeviceTypes      the type invariant;                                  *)
(*   KeyboardInOrder  keys are delivered in their order: the ring buffer   *)
(*                    and the request implement TypeAhead;                 *)
(*   DevicesPlaced    no process is lost or queued twice, and              *)
(*   ReadersServed    the reader waits if and only if it is requested,     *)
(*                    where no other use of the blocked queue interferes:  *)
(*                    SingleReader.                                        *)
(***************************************************************************)
EXTENDS Keyboard, PlaceProofs

---------------------------------------------------------------------------
(* The ring buffer and the tables.                                         *)

(* The indices used lie at most one time around the buffer.                *)
LEMMA WrapIs ==
  ASSUME NEW i \in Nat
  PROVE  /\ Wrap(i) \in 0 .. BUFF_SIZE - 1
         /\ i < BUFF_SIZE => Wrap(i) = i
         /\ BUFF_SIZE <= i /\ i < 2 * BUFF_SIZE => Wrap(i) = i - BUFF_SIZE
<1>1. BUFF_SIZE \in Nat /\ BUFF_SIZE > 0
  BY DeviceAssumption
<1>2. Wrap(i) \in 0 .. BUFF_SIZE - 1
  BY <1>1 DEF Wrap
<1>3. i < BUFF_SIZE => Wrap(i) = i
  BY <1>1 DEF Wrap
<1>4. BUFF_SIZE <= i /\ i < 2 * BUFF_SIZE => Wrap(i) = i - BUFF_SIZE
  BY <1>1 DEF Wrap
<1> QED
  BY <1>2, <1>3, <1>4

LEMMA TableTypes ==
  /\ Len(kbcode) = 57 /\ \A i \in 1 .. 57 : kbcode[i] \in 0 .. 255
  /\ Len(kbshift) = 57 /\ \A i \in 1 .. 57 : kbshift[i] \in 0 .. 255
  /\ Len(kbctl) = 50 /\ \A i \in 1 .. 50 : kbctl[i] \in 0 .. 255
<1>1. Len(kbcode) = 57
  BY DEF kbcode
<1>2. \A i \in 1 .. 57 : kbcode[i] \in 0 .. 255
  BY DEF kbcode, bs, ht, nl
<1>3. Len(kbshift) = 57
  BY DEF kbshift
<1>4. \A i \in 1 .. 57 : kbshift[i] \in 0 .. 255
  BY DEF kbshift, bs, ht, nl
<1>5. Len(kbctl) = 50
  BY DEF kbctl
<1>6. \A i \in 1 .. 50 : kbctl[i] \in 0 .. 255
  BY DEF kbctl, bs, ht, nl
<1> QED
  BY <1>1, <1>2, <1>3, <1>4, <1>5, <1>6

(* What kbtoa returns is a character, or NOCHAR.                           *)
LEMMA KbtoaType ==
  ASSUME NEW code \in Codes, NEW st
  PROVE  kbtoa(st, code) \in Nat /\ Char(kbtoa(st, code)) \in 0 .. 255
<1>1. code \in Nat /\ 1 <= code
  BY DeviceAssumption
<1>2. kbtoa(st, code) \in Nat
  <2>1. CASE ~ IsTyped(code)
    BY <2>1 DEF kbtoa, NOCHAR
  <2>2. CASE \/ "INSHIFT" \in st /\ code > 57
             \/ "INCTL" \in st /\ code > 50
    <3>1. Len(kbshift) = 57 /\ Len(kbctl) = 50
      BY TableTypes
    <3>2. CharOf(st, code) = NOCHAR
      BY <2>2, <3>1 DEF CharOf
    <3> QED
      BY <3>2 DEF kbtoa, NOCHAR
  <2>3. CASE /\ ~ ("INSHIFT" \in st /\ code > 57)
             /\ ~ ("INCTL" \in st /\ code > 50)
    <3>1. Plain(st, code) \in Nat
      <4>1. CASE code > 57
        <5>1. Len(kbcode) = 57
          BY TableTypes
        <5>2. Plain(st, code) = NOCHAR
          BY <4>1, <5>1 DEF Plain
        <5> QED
          BY <5>2 DEF NOCHAR
      <4>2. CASE ~ (code > 57)
        <5>1. code \in 1 .. 57
          BY <1>1, <4>2
        <5>2. kbcode[code] \in 0 .. 255 /\ kbshift[code] \in 0 .. 255
          BY <5>1, TableTypes
        <5>3. Plain(st, code) \in {kbcode[code], kbshift[code]}
          <6>1. Len(kbcode) = 57
            BY TableTypes
          <6> QED
            BY <4>2, <6>1 DEF Plain
        <5> QED
          BY <5>2, <5>3
      <4> QED
        BY <4>1, <4>2
    <3>2. "INCTL" \in st => kbctl[code] \in Nat
      <4> SUFFICES ASSUME "INCTL" \in st PROVE kbctl[code] \in Nat
        OBVIOUS
      <4>1. code \in 1 .. 50
        BY <1>1, <2>3
      <4>2. kbctl[code] \in 0 .. 255
        BY <4>1, TableTypes
      <4> QED
        BY <4>2
    <3>3. Len(kbshift) = 57 /\ Len(kbctl) = 50
      BY TableTypes
    <3>4. CharOf(st, code) = (IF "INCTL" \in st THEN kbctl[code] ELSE Plain(st, code))
                             + (IF "INMETA" \in st THEN 128 ELSE 0)
      BY <2>3, <3>3 DEF CharOf
    <3>5. CharOf(st, code) \in Nat
      BY <3>1, <3>2, <3>4
    <3> QED
      BY <3>5 DEF kbtoa, NOCHAR
  <2> QED
    BY <2>1, <2>2, <2>3
<1> QED
  BY <1>2 DEF Char

---------------------------------------------------------------------------
(* Types.                                                                  *)

(* Keys are delivered to a process: the driver is opened, or read, by one. *)
TargetKnown == irq1 \/ request = "READ" => requestProcess \in PCB

(* The state of the kernel after a device call.                            *)
LEMMA DevTypes ==
  ASSUME TypeOK, KernelKept, blockedQ' \in [PCB -> Queue], rc' \in [PCB -> Int],
         process' \in PCB, kpc' = "user", iterator' = NULL, work' \in Seq(Port), M' \in Memory,
         pending' \in [PCB -> SUBSET Sig], inSig' \in [PCB -> BOOLEAN]
  PROVE  TypeOK'
BY DEF TypeOK, KernelKept, sleepVars, idVars, portVars

LEMMA DevReturnType ==
  ASSUME TypeOK, NEW m \in Memory, NEW r \in Int, Return(m, r), KernelKept, UNCHANGED blockedQ
  PROVE  TypeOK'
BY ReturnType, DevTypes DEF TypeOK

LEMMA UnblockType ==
  ASSUME NEW m \in Memory, NEW p \in PCB
  PROVE  Unblock(m, p) \in Memory
<1>1. removeFromQueue(m, blocked_queue, p) \in Memory
  BY ConstantTypes, RemoveFromQueueType
<1> QED
  BY <1>1, ConstantTypes, AddToQueueType DEF Unblock

LEMMA AheadType ==
  ASSUME DevTypeOK
  PROVE  Ahead \in Seq(0 .. 255) /\ Len(Ahead) = nb
<1>1. nb \in Nat /\ btail \in Nat /\ buff \in [0 .. BUFF_SIZE - 1 -> 0 .. 255]
  BY DeviceAssumption DEF DevTypeOK
<1>2. ASSUME NEW i \in 1 .. nb PROVE buff[Wrap(btail + i - 1)] \in 0 .. 255
  <2>1. btail + i - 1 \in Nat
    BY <1>1
  <2>2. Wrap(btail + i - 1) \in 0 .. BUFF_SIZE - 1
    BY <2>1, WrapIs
  <2> QED
    BY <1>1, <2>2
<1> QED
  BY <1>1, <1>2 DEF Ahead

LEMMA SysOpenType ==
  ASSUME DevTypeOK, TargetKnown, NEW d \in Devices, SysOpen(d)
  PROVE  DevTypeOK' /\ TargetKnown'
<1>1. TypeOK /\ process \in PCB /\ M \in Memory
  BY DEF DevTypeOK, TypeOK
<1>2. KernelKept /\ UNCHANGED blockedQ /\ \E r \in {-1, 0} : Return(M, r)
  BY DEF SysOpen
<1>3. TypeOK'
  BY <1>1, <1>2, DevReturnType
<1>4. CASE UNCHANGED devVars
  BY <1>3, <1>4 DEF DevTypeOK, TargetKnown, devVars, ringVars, reqVars
<1>5. CASE /\ fdt' = [fdt EXCEPT ![process][0] = d] /\ irq1' = TRUE
           /\ requestProcess' = process /\ request' = "NONE"
           /\ buff' = [buff EXCEPT ![0] = 0] /\ bhead' = 0 /\ btail' = 0 /\ nb' = 0
           /\ UNCHANGED <<kstate, requestLen, requestBuffer, _EOF>>
  <2>1. fdt' \in [PCB -> [Fd -> Devices \cup {NULL}]]
    <3>1. [fdt[process] EXCEPT ![0] = d] \in [Fd -> Devices \cup {NULL}]
      BY <1>1 DEF DevTypeOK
    <3> QED
      BY <1>1, <1>5, <3>1 DEF DevTypeOK
  <2>2. buff' \in [0 .. BUFF_SIZE - 1 -> 0 .. 255]
    <3>1. buff \in [0 .. BUFF_SIZE - 1 -> 0 .. 255] /\ 0 \in 0 .. 255
      BY DEF DevTypeOK
    <3> QED
      BY <1>5, <3>1
  <2> QED
    BY <1>1, <1>3, <1>5, <2>1, <2>2, DeviceAssumption DEF DevTypeOK, TargetKnown
<1> QED
  BY <1>4, <1>5 DEF SysOpen

LEMMA SysCloseType ==
  ASSUME DevTypeOK, TargetKnown, NEW fd, SysClose(fd)
  PROVE  DevTypeOK' /\ TargetKnown'
<1>1. TypeOK /\ process \in PCB /\ M \in Memory
  BY DEF DevTypeOK, TypeOK
<1>2. KernelKept /\ UNCHANGED blockedQ /\ \E r \in {-1, 0} : Return(M, r)
  BY DEF SysClose
<1>3. TypeOK'
  BY <1>1, <1>2, DevReturnType
<1>4. fdt' \in [PCB -> [Fd -> Devices \cup {NULL}]]
  <2>1. [fdt[process] EXCEPT ![fd] = NULL] \in [Fd -> Devices \cup {NULL}]
    BY <1>1 DEF DevTypeOK
  <2> QED
    BY <1>1, <2>1 DEF SysClose, DevTypeOK
<1> QED
  BY <1>3, <1>4 DEF SysClose, DevTypeOK, TargetKnown, ringVars, reqVars

LEMMA SysWriteType ==
  ASSUME DevTypeOK, TargetKnown, SysWrite
  PROVE  DevTypeOK' /\ TargetKnown'
<1>1. TypeOK'
  <2>1. Return(M, -1) /\ KernelKept /\ UNCHANGED blockedQ /\ TypeOK /\ M \in Memory
    BY DEF SysWrite, DevTypeOK, TypeOK
  <2> QED
    BY <2>1, DevReturnType
<1> QED
  BY <1>1 DEF SysWrite, DevTypeOK, TargetKnown, devVars, ringVars, reqVars

LEMMA SysReadType ==
  ASSUME DevTypeOK, TargetKnown, NEW fd, NEW len \in Lens, SysRead(fd, len)
  PROVE  DevTypeOK' /\ TargetKnown'
<1>1. TypeOK /\ process \in PCB /\ M \in Memory /\ SignalTypes
  BY DEF DevTypeOK, TypeOK, SignalTypes
<1>2. len \in Int
  BY DeviceAssumption
<1>3. CASE StartRead(len)
  <2> DEFINE m0 == addToQueue(M, blocked_queue, process)
             m1 == [m0 EXCEPT !.state[process] = "BLOCKED"]
             m == IF len \in 1 .. nb THEN Unblock(m1, process) ELSE m1
  <2>1. m0 \in Memory
    BY <1>1, ConstantTypes, AddToQueueType
  <2>2. m1 \in Memory
    <3> HIDE DEF m0
    <3> QED
      BY <2>1 DEF Memory, Process_state
  <2>3. m \in Memory
    <3> HIDE DEF m1
    <3> QED
      BY <1>1, <2>2, UnblockType
  <2>4. find_next_ready_process(m)
    BY <1>3 DEF StartRead
  <2> HIDE DEF m
  <2>5. TypeOK'
    <3>1. /\ rc' = [rc EXCEPT ![process] = 0]
          /\ blockedQ' = [blockedQ EXCEPT ![process] = blocked_queue] /\ KernelKept
      BY <1>3 DEF StartRead, SysRead
    <3>2. rc' \in [PCB -> Int]
      BY <1>1, <3>1 DEF TypeOK
    <3>3. blockedQ' \in [PCB -> Queue]
      BY <1>1, <3>1, QueueNames DEF TypeOK
    <3> QED
      BY <1>1, <2>3, <2>4, <3>1, <3>2, <3>3, FindNextType, DevTypes
  <2>6. btail' \in 0 .. BUFF_SIZE - 1 /\ nb' \in 0 .. BUFF_SIZE
    <3>1. btail + nb \in Nat
      BY DeviceAssumption DEF DevTypeOK
    <3> QED
      BY <1>3, <3>1, WrapIs, DeviceAssumption DEF StartRead
  <2> QED
    BY <1>1, <1>2, <1>3, <2>5, <2>6, AheadType DEF StartRead, SysRead, DevTypeOK, TargetKnown
<1>4. CASE /\ find_next_ready_process(M) /\ rc' = [rc EXCEPT ![process] = -1]
           /\ UNCHANGED <<reqVars, btail, nb, blockedQ>>
  <2>1. TypeOK'
    <3>1. KernelKept
      BY DEF SysRead
    <3>2. rc' \in [PCB -> Int] /\ blockedQ' \in [PCB -> Queue]
      BY <1>1, <1>4 DEF TypeOK
    <3> QED
      BY <1>1, <1>4, <3>1, <3>2, FindNextType, DevTypes
  <2> QED
    BY <1>4, <2>1 DEF SysRead, DevTypeOK, TargetKnown, reqVars
<1> QED
  BY <1>3, <1>4 DEF SysRead

LEMMA SysIoctlType ==
  ASSUME DevTypeOK, TargetKnown, NEW fd, NEW c, SysIoctl(fd, c)
  PROVE  DevTypeOK' /\ TargetKnown'
<1>1. TypeOK /\ process \in PCB /\ M \in Memory
  BY DEF DevTypeOK, TypeOK
<1>2. KernelKept /\ UNCHANGED blockedQ
  BY DEF SysIoctl
<1>3. CASE StartIoctl
  <2> DEFINE m0 == addToQueue(M, blocked_queue, process)
             m == IF M.head[ready_queue] = NULL THEN m0 ELSE removeFirst(m0, ready_queue)
  <2>1. m0 \in Memory /\ m0.head[ready_queue] = M.head[ready_queue]
    <3>1. m0 \in Memory
      BY <1>1, ConstantTypes, AddToQueueType
    <3>2. m0.head[ready_queue] = M.head[ready_queue]
      BY <1>1, ConstantTypes DEF addToQueue, Memory, ready_queue, blocked_queue
    <3> QED
      BY <3>1, <3>2
  <2>2. Return(m, 0)
    BY <2>1, <1>3 DEF StartIoctl
  <2>3. m \in Memory
    <3> HIDE DEF m0
    <3> QED
      BY <2>1, ConstantTypes, RemoveFirstType
  <2> HIDE DEF m
  <2>4. TypeOK'
    BY <1>1, <1>2, <2>2, <2>3, DevReturnType
  <2> QED
    BY <1>3, <2>4 DEF StartIoctl, SysIoctl, DevTypeOK, TargetKnown, ringVars
<1>4. CASE (\E r \in {-1, 0} : Return(M, r)) /\ UNCHANGED reqVars
  <2>1. TypeOK'
    BY <1>1, <1>2, <1>4, DevReturnType
  <2> QED
    BY <1>4, <2>1 DEF SysIoctl, DevTypeOK, TargetKnown, ringVars, reqVars
<1> QED
  BY <1>3, <1>4 DEF SysIoctl

(* A key: the process goes on, after the process that was requested was    *)
(* made ready if it was.                                                   *)
LEMMA KeyTypes ==
  ASSUME TypeOK, kpc = "user", KernelKept, UNCHANGED blockedQ,
         NEW m \in Memory, GoOn(m),
         rc' = Interrupted \/ \E p \in PCB, r \in Int : rc' = [Interrupted EXCEPT ![p] = r]
  PROVE  TypeOK'
<1>1. Interrupted \in [PCB -> Int]
  BY DEF TypeOK, Interrupted, UserEax
<1>2. rc' \in [PCB -> Int]
  BY <1>1
<1>3. /\ process \in PCB /\ pending \in [PCB -> SUBSET Sig] /\ inSig \in [PCB -> BOOLEAN]
      /\ blockedQ' \in [PCB -> Queue]
  BY DEF TypeOK
<1>4. /\ process' \in PCB /\ kpc' = "user" /\ iterator' = NULL
      /\ work' \in Seq(Port) /\ M' \in Memory
      /\ pending' \in [PCB -> SUBSET Sig] /\ inSig' \in [PCB -> BOOLEAN]
  BY <1>3, SwitchToType DEF GoOn
<1> QED
  BY <1>2, <1>3, <1>4, DevTypes

LEMMA KbdIntType ==
  ASSUME DevTypeOK, TargetKnown, NEW code \in Codes, KbdInt(code)
  PROVE  DevTypeOK' /\ TargetKnown'
<1> DEFINE ascii == kbtoa(kstate, code)
<1>1. /\ TypeOK /\ M \in Memory /\ kpc = "user" /\ KernelKept /\ UNCHANGED blockedQ
      /\ requestProcess \in PCB /\ UNCHANGED <<fdt, irq1>>
  BY DEF KbdInt, DevTypeOK, TypeOK, TargetKnown
<1>2. ascii \in Nat /\ Char(ascii) \in 0 .. 255
  BY KbtoaType
<1>3. kstate' \subseteq {"INCTL", "INSHIFT", "CAPSLOCK", "INMETA", "EXTENDED"}
  BY DEF KbdInt, StateAfter, ModifierOf, DevTypeOK
<1>4. Unblock(M, requestProcess) \in Memory
  BY <1>1, UnblockType
<1> HIDE DEF ascii
<1>5. CASE request = "NONE" /\ KeepKey(ascii)
  <2>1. TypeOK'
    BY <1>1, <1>5, KeyTypes DEF KeepKey
  <2>2. /\ buff' \in [0 .. BUFF_SIZE - 1 -> 0 .. 255]
        /\ bhead' \in 0 .. BUFF_SIZE - 1 /\ btail' = btail /\ nb' \in 0 .. BUFF_SIZE
    <3>1. CASE ~ HasRoom
      BY <1>5, <3>1 DEF KeepKey, Buffer_Write, ringVars, DevTypeOK
    <3>2. CASE HasRoom
      <4>1. /\ buff' = [buff EXCEPT ![bhead] = Char(ascii)]
            /\ bhead' = Wrap(bhead + 1) /\ nb' = nb + 1 /\ btail' = btail
        BY <1>5, <3>2 DEF KeepKey, Buffer_Write
      <4>2. bhead + 1 \in Nat
        BY DeviceAssumption DEF DevTypeOK
      <4>3. bhead' \in 0 .. BUFF_SIZE - 1
        BY <4>1, <4>2, WrapIs
      <4>4. nb' \in 0 .. BUFF_SIZE
        BY <3>2, <4>1, DeviceAssumption DEF HasRoom, DevTypeOK
      <4>5. buff' \in [0 .. BUFF_SIZE - 1 -> 0 .. 255]
        BY <1>2, <4>1 DEF DevTypeOK
      <4> QED
        BY <4>1, <4>3, <4>4, <4>5
    <3> QED
      BY <3>1, <3>2
  <2> QED
    BY <1>1, <1>3, <1>5, <2>1, <2>2 DEF KeepKey, reqVars, DevTypeOK, TargetKnown
<1>6. CASE request = "READ" /\ ReadKey(code, ascii)
  <2> DEFINE b == IF IsTyped(code) THEN Append(requestBuffer, Char(ascii)) ELSE requestBuffer
  <2>1. b \in Seq(0 .. 255) /\ Len(b) \in Int /\ requestBuffer' = b
    BY <1>2, <1>6 DEF DevTypeOK, ReadKey
  <2>2. /\ (GoOn(M) /\ rc' = Interrupted /\ UNCHANGED request)
             \/ /\ GoOn(Unblock(M, requestProcess)) /\ request' = "NONE"
                /\ rc' = [Interrupted EXCEPT ![requestProcess] = Len(b)]
        /\ UNCHANGED <<ringVars, requestLen, requestProcess, _EOF>>
    BY <1>6 DEF ReadKey
  <2> HIDE DEF b
  <2>3. TypeOK'
    BY <1>1, <1>4, <2>1, <2>2, KeyTypes
  <2>4. request' \in {"NONE", "READ"}
    BY <1>6, <2>2
  <2> QED
    BY <1>1, <1>3, <2>1, <2>2, <2>3, <2>4 DEF ringVars, DevTypeOK, TargetKnown
<1>7. CASE request = "IOCTL" /\ IoctlKey(code, ascii)
  <2>1. TypeOK'
    BY <1>1, <1>4, <1>7, KeyTypes DEF IoctlKey
  <2>2. _EOF' \in Nat
    BY <1>2, <1>7 DEF IoctlKey, DevTypeOK
  <2> QED
    BY <1>1, <1>3, <1>7, <2>1, <2>2 DEF IoctlKey, ringVars, reqVars, DevTypeOK, TargetKnown
<1> QED
  BY <1>5, <1>6, <1>7 DEF KbdInt, ascii

(* The driver's state keeps its types: no index leaves the ring buffer or  *)
(* its count its range, and a key that ends a read finds a process to wake *)
(* (kbd_open, kbd_uread, kbd_read, Buffer_Read, Buffer_Write).             *)
THEOREM DeviceTypes == DevSpec => [](DevTypeOK /\ TargetKnown)
<1>1. DevInit => DevTypeOK /\ TargetKnown
  <2> SUFFICES ASSUME DevInit PROVE DevTypeOK /\ TargetKnown
    OBVIOUS
  <2>1. TypeOK
    BY InitType DEF DevInit
  <2>2. BUFF_SIZE \in Nat /\ BUFF_SIZE > 0
    BY DeviceAssumption
  <2> QED
    BY <2>1, <2>2 DEF DevInit, DevTypeOK, TargetKnown, nl
<1>2. DevTypeOK /\ TargetKnown /\ [DevNext]_allVars => DevTypeOK' /\ TargetKnown'
  <2> SUFFICES ASSUME DevTypeOK, TargetKnown, [DevNext]_allVars
               PROVE  DevTypeOK' /\ TargetKnown'
    OBVIOUS
  <2>1. CASE [Next]_vars /\ UNCHANGED devVars
    <3>1. TypeOK'
      BY <2>1, NextType DEF DevTypeOK
    <3> QED
      BY <2>1, <3>1 DEF DevTypeOK, TargetKnown, devVars, ringVars, reqVars
  <2>2. CASE \E d \in Devices : SysOpen(d)
    BY <2>2, SysOpenType
  <2>3. CASE \E fd \in Fds : SysClose(fd) \/ \E len \in Lens : SysRead(fd, len)
    BY <2>3, SysCloseType, SysReadType
  <2>4. CASE (\E fd \in Fds, c \in Commands : SysIoctl(fd, c)) \/ SysWrite
    BY <2>4, SysIoctlType, SysWriteType
  <2>5. CASE \E code \in Codes : KbdInt(code)
    BY <2>5, KbdIntType
  <2> QED
    BY <2>1, <2>2, <2>3, <2>4, <2>5 DEF DevNext, allVars
<1> QED
  BY <1>1, <1>2, PTL DEF DevSpec

---------------------------------------------------------------------------
(* The order of the keys.                                                  *)

Modifiers == {"INCTL", "INSHIFT", "CAPSLOCK", "INMETA"}

(* The head of the ring buffer is nb behind its tail.  The state of the    *)
(* modifier keys is one for which KeyChars lists the characters: EXTENDED  *)
(* is not set.                                                             *)
RingInv ==
  /\ bhead = Wrap(btail + nb)
  /\ kstate \subseteq Modifiers

NoneAhead == nb = 0 => Ahead = <<>>

LEMMA NothingAhead == NoneAhead
<1> SUFFICES ASSUME nb = 0 PROVE Ahead = <<>>
  BY DEF NoneAhead
<1>1. Ahead = [i \in {} |-> buff[Wrap(btail + i - 1)]]
  <2>1. 1 .. nb = {}
    OBVIOUS
  <2> QED
    BY <2>1 DEF Ahead
<1> QED
  BY <1>1

LEMMA NothingAheadNext == NoneAhead'
BY NothingAhead, PTL

(* Buffer_Write: the character goes behind those there, none of which it   *)
(* overwrites.                                                             *)
LEMMA KeyKept ==
  ASSUME DevTypeOK, RingInv, HasRoom, NEW c \in 0 .. 255,
         buff' = [buff EXCEPT ![bhead] = c], bhead' = Wrap(bhead + 1), nb' = nb + 1,
         btail' = btail
  PROVE  Ahead' = Append(Ahead, c) /\ bhead' = Wrap(btail' + nb')
<1>1. /\ BUFF_SIZE \in Nat /\ BUFF_SIZE > 0
      /\ nb \in Nat /\ nb < BUFF_SIZE /\ btail \in Nat /\ btail < BUFF_SIZE
      /\ buff \in [0 .. BUFF_SIZE - 1 -> 0 .. 255]
  BY DeviceAssumption DEF DevTypeOK, HasRoom
<1>2. bhead = Wrap(btail + nb)
  BY DEF RingInv
<1>3. \A j \in 0 .. nb : /\ Wrap(btail + j) \in 0 .. BUFF_SIZE - 1
                         /\ btail + j < BUFF_SIZE => Wrap(btail + j) = btail + j
                         /\ BUFF_SIZE <= btail + j => Wrap(btail + j) = btail + j - BUFF_SIZE
  <2> TAKE j \in 0 .. nb
  <2>0. PICK i \in Nat : i = btail + j
    BY <1>1
  <2>1. i < 2 * BUFF_SIZE
    BY <1>1, <2>0
  <2>2. /\ Wrap(i) \in 0 .. BUFF_SIZE - 1
        /\ i < BUFF_SIZE => Wrap(i) = i
        /\ BUFF_SIZE <= i => Wrap(i) = i - BUFF_SIZE
    BY <2>1, WrapIs
  <2>3. Wrap(btail + j) = Wrap(i)
    BY <2>0
  <2> QED
    BY <1>1, <2>0, <2>2, <2>3
<1>4. \A j \in 0 .. nb - 1 : Wrap(btail + j) # bhead
  <2> TAKE j \in 0 .. nb - 1
  <2>1. /\ j \in 0 .. nb /\ nb \in 0 .. nb /\ j \in Nat /\ j < nb
    BY <1>1
  <2>2. /\ btail + j < BUFF_SIZE => Wrap(btail + j) = btail + j
        /\ BUFF_SIZE <= btail + j => Wrap(btail + j) = btail + j - BUFF_SIZE
        /\ btail + nb < BUFF_SIZE => Wrap(btail + nb) = btail + nb
        /\ BUFF_SIZE <= btail + nb => Wrap(btail + nb) = btail + nb - BUFF_SIZE
    BY <1>3, <2>1
  <2> QED
    BY <1>1, <1>2, <2>1, <2>2
<1>5. \A i \in 1 .. nb : buff'[Wrap(btail + i - 1)] = buff[Wrap(btail + i - 1)]
  <2> TAKE i \in 1 .. nb
  <2>1. i - 1 \in 0 .. nb - 1 /\ i - 1 \in 0 .. nb /\ btail + i - 1 = btail + (i - 1)
    BY <1>1
  <2>2. Wrap(btail + i - 1) # bhead /\ Wrap(btail + i - 1) \in 0 .. BUFF_SIZE - 1
    BY <1>3, <1>4, <2>1
  <2> QED
    BY <1>1, <2>2
<1>6. buff'[Wrap(btail + (nb + 1) - 1)] = c
  <2>1. btail + (nb + 1) - 1 = btail + nb /\ nb \in 0 .. nb
    BY <1>1
  <2>2. bhead \in 0 .. BUFF_SIZE - 1
    BY DEF DevTypeOK
  <2> QED
    BY <1>1, <1>2, <2>1, <2>2
<1>7. Ahead' = [i \in 1 .. nb + 1 |-> buff'[Wrap(btail + i - 1)]]
  BY DEF Ahead, Wrap
<1>8. Ahead' = Append(Ahead, c)
  <2> DEFINE f == [i \in 1 .. nb |-> buff[Wrap(btail + i - 1)]]
             g == [i \in 1 .. nb + 1 |-> buff'[Wrap(btail + i - 1)]]
  <2>1. f \in Seq(0 .. 255) /\ Len(f) = nb /\ f = Ahead
    BY AheadType DEF Ahead
  <2>2. \A i \in 1 .. nb + 1 : g[i] = IF i = nb + 1 THEN c ELSE f[i]
    <3> TAKE i \in 1 .. nb + 1
    <3>1. CASE i = nb + 1
      BY <1>6, <3>1
    <3>2. CASE i # nb + 1
      <4>1. i \in 1 .. nb
        BY <1>1, <3>2
      <4> QED
        BY <1>5, <3>2, <4>1
    <3> QED
      BY <3>1, <3>2
  <2>3. DOMAIN g = 1 .. nb + 1 /\ g = [i \in DOMAIN g |-> g[i]]
    OBVIOUS
  <2> HIDE DEF f, g
  <2>4. Append(f, c) = [i \in 1 .. nb + 1 |-> IF i = nb + 1 THEN c ELSE f[i]]
    <3>1. /\ Append(f, c) \in Seq(0 .. 255) /\ Len(Append(f, c)) = nb + 1
          /\ \A i \in 1 .. nb : Append(f, c)[i] = f[i]
          /\ Append(f, c)[nb + 1] = c
      BY <1>1, <2>1
    <3> DEFINE a == Append(f, c)
    <3>2. a \in Seq(0 .. 255) /\ DOMAIN a = 1 .. nb + 1
      BY <1>1, <3>1
    <3>3. \A i \in 1 .. nb + 1 : a[i] = IF i = nb + 1 THEN c ELSE f[i]
      BY <1>1, <3>1
    <3> HIDE DEF a
    <3>4. a = [i \in 1 .. nb + 1 |-> a[i]]
      BY <3>2
    <3>5. a = [i \in 1 .. nb + 1 |-> IF i = nb + 1 THEN c ELSE f[i]]
      BY <3>3, <3>4
    <3> QED
      BY <3>5 DEF a
  <2>5. g = [i \in 1 .. nb + 1 |-> IF i = nb + 1 THEN c ELSE f[i]]
    BY <2>2, <2>3
  <2> QED
    BY <1>7, <2>1, <2>4, <2>5 DEF g
<1>9. bhead' = Wrap(btail' + nb')
  <2>1. /\ bhead \in Nat /\ nb \in 0 .. nb
        /\ btail + nb < BUFF_SIZE => bhead = btail + nb
        /\ BUFF_SIZE <= btail + nb => bhead = btail + nb - BUFF_SIZE
    <3>1. nb \in 0 .. nb
      BY <1>1
    <3>2. bhead \in Nat
      BY <1>1 DEF DevTypeOK
    <3> QED
      BY <1>2, <1>3, <3>1, <3>2
  <2>2. PICK i \in Nat : i = btail + nb + 1
    BY <1>1
  <2>3. PICK h \in Nat : h = bhead + 1
    BY <2>1
  <2>4. i < 2 * BUFF_SIZE /\ h < 2 * BUFF_SIZE
    BY <1>1, <2>1, <2>2, <2>3
  <2>5. /\ i < BUFF_SIZE => Wrap(i) = i
        /\ BUFF_SIZE <= i => Wrap(i) = i - BUFF_SIZE
        /\ h < BUFF_SIZE => Wrap(h) = h
        /\ BUFF_SIZE <= h => Wrap(h) = h - BUFF_SIZE
    BY <2>4, WrapIs
  <2>6. Wrap(h) = Wrap(i)
    BY <1>1, <2>1, <2>2, <2>3, <2>5
  <2>7. btail' + nb' = btail + nb + 1
    BY <1>1
  <2>8. bhead' = Wrap(btail + nb + 1)
    BY <2>2, <2>3, <2>6
  <2> QED
    BY <2>7, <2>8 DEF Wrap
<1> QED
  BY <1>8, <1>9

(* Nothing the driver keeps changes.                                       *)
LEMMA DriverStill ==
  ASSUME RingInv, UNCHANGED <<ringVars, kstate, request, requestBuffer>>
  PROVE  RingInv' /\ [TA!Next]_(TA!vars)
<1>1. Ahead' = Ahead /\ RingInv'
  BY DEF Ahead, Wrap, RingInv, ringVars
<1> QED
  BY <1>1 DEF TA!vars

LEMMA OpenInOrder ==
  ASSUME DevTypeOK, RingInv, NEW d \in Devices, SysOpen(d)
  PROVE  RingInv' /\ [TA!Next]_(TA!vars)
<1>1. CASE UNCHANGED devVars
  BY <1>1, DriverStill DEF devVars, reqVars
<1>2. CASE /\ request' = "NONE" /\ bhead' = 0 /\ btail' = 0 /\ nb' = 0
           /\ UNCHANGED <<kstate, requestBuffer>>
  <2>1. Wrap(0) = 0
    BY DeviceAssumption, WrapIs
  <2>2. RingInv'
    <3>1. Wrap(btail' + nb') = 0
      BY <1>2, <2>1
    <3> QED
      BY <1>2, <3>1 DEF RingInv, Wrap
  <2>3. TA!Open
    BY <1>2, NothingAheadNext DEF TA!Open, NoneAhead
  <2> QED
    BY <2>2, <2>3 DEF TA!Next
<1> QED
  BY <1>1, <1>2 DEF SysOpen

LEMMA ReadInOrder ==
  ASSUME DevTypeOK, RingInv, NEW fd, NEW len \in Lens, SysRead(fd, len)
  PROVE  RingInv' /\ [TA!Next]_(TA!vars)
<1>1. CASE StartRead(len)
  <2>1. /\ request' = "READ" /\ requestBuffer' = Ahead /\ btail' = Wrap(btail + nb)
        /\ nb' = 0 /\ UNCHANGED <<bhead, kstate>>
    BY <1>1 DEF StartRead, SysRead
  <2>2. RingInv'
    <3>1. bhead \in Nat /\ bhead < BUFF_SIZE /\ bhead = Wrap(btail + nb)
      BY DeviceAssumption DEF DevTypeOK, RingInv
    <3>2. Wrap(bhead) = bhead
      BY <3>1, WrapIs
    <3>3. btail' + nb' = bhead
      BY <2>1, <3>1
    <3> QED
      BY <2>1, <3>2, <3>3 DEF RingInv, Wrap
  <2>3. TA!Read
    BY <2>1, NothingAheadNext DEF TA!Read, NoneAhead
  <2> QED
    BY <2>2, <2>3 DEF TA!Next
<1>2. CASE UNCHANGED <<reqVars, btail, nb>>
  BY <1>2, DriverStill DEF SysRead, reqVars, ringVars
<1> QED
  BY <1>1, <1>2 DEF SysRead

LEMMA IoctlInOrder ==
  ASSUME RingInv, NEW fd, NEW c, SysIoctl(fd, c)
  PROVE  RingInv' /\ [TA!Next]_(TA!vars)
<1>1. RingInv' /\ Ahead' = Ahead
  BY DEF SysIoctl, ringVars, RingInv, Ahead, Wrap
<1>2. CASE StartIoctl
  <2>1. request' = "IOCTL" /\ requestBuffer' = requestBuffer
    BY <1>2 DEF StartIoctl
  <2>2. CASE request = "READ"
    <3>1. TA!End
      BY <1>1, <2>1, <2>2 DEF TA!End
    <3> QED
      BY <1>1, <3>1 DEF TA!Next
  <2>3. CASE request # "READ"
    BY <1>1, <2>1, <2>3 DEF TA!vars
  <2> QED
    BY <2>2, <2>3
<1>3. CASE UNCHANGED reqVars
  BY <1>1, <1>3 DEF reqVars, TA!vars
<1> QED
  BY <1>2, <1>3 DEF SysIoctl

LEMMA KeyInOrder ==
  ASSUME DevTypeOK, RingInv, NEW code \in Codes, KbdInt(code)
  PROVE  RingInv' /\ [TA!Next]_(TA!vars)
<1> DEFINE ascii == kbtoa(kstate, code)
           c == Char(ascii)
<1>1. c \in 0 .. 255 /\ c \in KeyChars
  BY KbtoaType DEF KeyChars, RingInv, Modifiers
<1>2. kstate' \subseteq Modifiers
  <2>1. code < KEY_UP => code # EXTESC
    BY DEF KEY_UP, EXTESC
  <2>2. code \in Nat
    BY DeviceAssumption
  <2>3. StateAfter(kstate, code) \subseteq kstate \cup Modifiers
    BY <2>1, <2>2 DEF StateAfter, ModifierOf, Modifiers, KEY_UP
  <2> QED
    BY <2>3 DEF KbdInt, RingInv
<1> HIDE DEF ascii
<1>3. CASE request = "NONE" /\ KeepKey(ascii)
  <2>1. request' = request /\ requestBuffer' = requestBuffer
    BY <1>3 DEF KeepKey, reqVars
  <2>2. CASE ~ HasRoom
    <3>1. UNCHANGED ringVars
      BY <1>3, <2>2 DEF KeepKey, Buffer_Write
    <3>2. Ahead' = Ahead /\ bhead' = Wrap(btail' + nb')
      BY <3>1 DEF ringVars, Ahead, Wrap, RingInv
    <3> QED
      BY <1>2, <2>1, <3>2 DEF RingInv, TA!vars, Wrap
  <2>3. CASE HasRoom
    <3>1. /\ buff' = [buff EXCEPT ![bhead] = c] /\ bhead' = Wrap(bhead + 1) /\ nb' = nb + 1
          /\ btail' = btail
      BY <1>3, <2>3 DEF KeepKey, Buffer_Write
    <3> HIDE DEF c
    <3>2. Ahead' = Append(Ahead, c) /\ bhead' = Wrap(btail' + nb')
      BY <1>1, <2>3, <3>1, KeyKept
    <3>3. Len(Ahead) < BUFF_SIZE
      BY <2>3, AheadType DEF HasRoom, DevTypeOK
    <3>4. TA!Keep(c)
      BY <1>3, <2>1, <3>2, <3>3 DEF TA!Keep
    <3> QED
      BY <1>1, <1>2, <3>2, <3>4 DEF RingInv, TA!Next, Wrap
  <2> QED
    BY <2>2, <2>3
<1>4. CASE request = "READ" /\ ReadKey(code, ascii)
  <2>1. Ahead' = Ahead /\ RingInv'
    BY <1>2, <1>4 DEF ReadKey, ringVars, Ahead, Wrap, RingInv
  <2>2. request' \in {"READ", "NONE"}
    BY <1>4 DEF ReadKey
  <2>3. CASE IsTyped(code)
    <3>1. requestBuffer' = Append(requestBuffer, c)
      BY <1>4, <2>3 DEF ReadKey
    <3> HIDE DEF c
    <3>2. TA!Receive(c)
      BY <1>4, <2>1, <3>1 DEF TA!Receive
    <3> QED
      BY <1>1, <2>1, <3>2 DEF TA!Next
  <2>4. CASE ~ IsTyped(code)
    <3>1. requestBuffer' = requestBuffer
      BY <1>4, <2>4 DEF ReadKey
    <3>2. CASE request' = "NONE"
      <4>1. TA!End
        BY <1>4, <2>1, <3>1, <3>2 DEF TA!End
      <4> QED
        BY <2>1, <4>1 DEF TA!Next
    <3>3. CASE request' = "READ"
      BY <1>4, <2>1, <3>1, <3>3 DEF TA!vars
    <3> QED
      BY <2>2, <3>2, <3>3
  <2> QED
    BY <2>3, <2>4
<1>5. CASE request = "IOCTL" /\ IoctlKey(code, ascii)
  <2>1. UNCHANGED <<ringVars, request, requestBuffer>>
    BY <1>5 DEF IoctlKey, reqVars
  <2>2. Ahead' = Ahead /\ RingInv'
    BY <1>2, <2>1 DEF ringVars, Ahead, Wrap, RingInv
  <2> QED
    BY <2>1, <2>2 DEF TA!vars
<1> QED
  BY <1>3, <1>4, <1>5 DEF KbdInt, ascii

(* The driver implements TypeAhead: the characters of the keys reach the   *)
(* programs in order and each once, those typed ahead first, however the   *)
(* ring buffer wraps and whoever opens, reads and controls the device      *)
(* (Buffer_Write, Buffer_Read, kbd_open, kbd_uread, kbd_read, kbtoa).      *)
THEOREM KeyboardInOrder == DevSpec => KeysInOrder
<1>1. DevInit => RingInv /\ TA!Init
  <2> SUFFICES ASSUME DevInit PROVE RingInv /\ TA!Init
    OBVIOUS
  <2>1. Wrap(0 + 0) = 0
    BY DeviceAssumption, WrapIs
  <2> QED
    BY <2>1, NothingAhead DEF NoneAhead, DevInit, RingInv, TA!Init
<1>2. DevTypeOK /\ RingInv /\ [DevNext]_allVars => RingInv' /\ [TA!Next]_(TA!vars)
  <2> SUFFICES ASSUME DevTypeOK, RingInv, [DevNext]_allVars
               PROVE  RingInv' /\ [TA!Next]_(TA!vars)
    OBVIOUS
  <2>1. CASE UNCHANGED devVars
    BY <2>1, DriverStill DEF devVars, reqVars
  <2>2. CASE \E d \in Devices : SysOpen(d)
    BY <2>2, OpenInOrder
  <2>3. CASE (\E fd \in Fds : SysClose(fd)) \/ SysWrite
    BY <2>3, DriverStill DEF SysClose, SysWrite, devVars, reqVars
  <2>4. CASE \E fd \in Fds, len \in Lens : SysRead(fd, len)
    BY <2>4, ReadInOrder
  <2>5. CASE \E fd \in Fds, c \in Commands : SysIoctl(fd, c)
    BY <2>5, IoctlInOrder
  <2>6. CASE \E code \in Codes : KbdInt(code)
    BY <2>6, KeyInOrder
  <2> QED
    BY <2>1, <2>2, <2>3, <2>4, <2>5, <2>6 DEF DevNext, allVars
<1> QED
  BY <1>1, <1>2, DeviceTypes, PTL DEF DevSpec, KeysInOrder, TA!Spec

---------------------------------------------------------------------------
(* The reader.                                                             *)

(* The programs for which the blocked queue is the driver's: no receiver   *)
(* and no sender's wake-up uses it, and no signal takes a process off it.  *)
(* Only one process uses the device, it reads from descriptors it opened,  *)
(* and more than the ring buffer holds.  ioctl 53 is not called.           *)
SingleReader ==
  /\ {"SYS_SEND", "SYS_PORT_RECV", "SYS_KILL"} \cap Calls = {}
  /\ \A p, q \in DevUsers : p = q
  /\ Careful /\ 53 \notin Commands
  /\ \A len \in Lens : len > BUFF_SIZE

(* The blocked queue holds the reader and nobody else, and the reader      *)
(* waits for a key.                                                        *)
Reading(lab) ==
  /\ \A p \in PCB : lab[p] = blocked_queue <=> request = "READ" /\ requestProcess = p
  /\ request \in {"NONE", "READ"}
  /\ request = "READ" => nb = 0 /\ requestInd < requestLen /\ requestProcess \in DevUsers

(* Where the processes and the request stay, the reader does.              *)
LEMMA ReadingStill ==
  ASSUME NEW lab, NEW lab1, Reading(lab), Meets(lab, lab1, {}, {}),
         UNCHANGED <<nb, reqVars>>
  PROVE  Reading(lab1)'
BY DEF Reading, Meets, reqVars, requestInd

(* Before a device call nobody reads: the only user of the device runs.    *)
LEMMA NobodyReads ==
  ASSUME SingleReader, DevTypeOK, NEW lab, PlaceInv(lab), Reading(lab), DevCall
  PROVE  /\ request = "NONE"
         /\ \A p \in PCB : lab[p] # blocked_queue
         /\ kpc = "user" /\ process # Idle /\ process \in PCB
<1>1. /\ kpc = "user" /\ process # Idle /\ process \in DevUsers
      /\ TypeOK /\ process \in PCB
  BY DEF DevCall, DevTypeOK, TypeOK
<1>2. lab[process] = Unlisted
  <2>1. Live(process)
    BY <1>1 DEF PlaceInv, Dispatching
  <2> QED
    BY <1>1, <2>1, PlacedTypes
<1>3. Unlisted # blocked_queue
  BY DEF Unlisted, blocked_queue
<1>4. request # "READ"
  <2> SUFFICES ASSUME request = "READ" PROVE FALSE
    OBVIOUS
  <2>1. requestProcess = process
    BY <1>1 DEF Reading, SingleReader
  <2> QED
    BY <1>1, <1>2, <1>3, <2>1 DEF Reading
<1> QED
  BY <1>1, <1>4 DEF Reading

(* A device call that returns at once.                                     *)
LEMMA DevReturnPlaces ==
  ASSUME DevTypeOK, NEW lab, PlaceInv(lab), kpc = "user", process # Idle,
         NEW r, Return(M, r), KernelKept
  PROVE  PlaceInv(lab)' /\ Meets(lab, lab, {}, {})
<1>1. TypeOK /\ UNCHANGED <<sleepVars, pid, inUse, sigTable>>
  BY DEF DevTypeOK, KernelKept, idVars, portVars
<1> QED
  BY <1>1, ReturnPlaces

LEMMA SysOpenReading ==
  ASSUME SingleReader, DevTypeOK, NEW lab, PlaceInv(lab), Reading(lab),
         NEW d \in Devices, SysOpen(d)
  PROVE  PlaceInv(lab)' /\ Reading(lab)'
<1>1. DevCall /\ KernelKept /\ \E r : Return(M, r)
  BY DEF SysOpen
<1>2. PlaceInv(lab)' /\ Meets(lab, lab, {}, {})
  BY <1>1, NobodyReads, DevReturnPlaces
<1>3. CASE UNCHANGED devVars
  BY <1>2, <1>3, ReadingStill DEF devVars, ringVars
<1>4. CASE request' = "NONE"
  BY <1>1, <1>2, <1>4, NobodyReads DEF Reading
<1> QED
  BY <1>2, <1>3, <1>4 DEF SysOpen

LEMMA DevCallReading ==
  ASSUME SingleReader, DevTypeOK, NEW lab, PlaceInv(lab), Reading(lab),
         \/ \E fd \in Fds : SysClose(fd)
         \/ SysWrite
         \/ \E fd \in Fds, c \in Commands : SysIoctl(fd, c)
  PROVE  PlaceInv(lab)' /\ Reading(lab)'
<1>1. DevCall /\ KernelKept /\ (\E r : Return(M, r)) /\ UNCHANGED <<nb, reqVars>>
  BY DEF SysClose, SysWrite, SysIoctl, devVars, ringVars, SingleReader
<1>2. PlaceInv(lab)' /\ Meets(lab, lab, {}, {})
  BY <1>1, NobodyReads, DevReturnPlaces
<1> QED
  BY <1>1, <1>2, ReadingStill

(* The caller of a read blocks: the order in which the code writes its     *)
(* state and queues it makes no difference.                                *)
LEMMA ReaderQueued ==
  ASSUME TypeOK, process # Idle
  PROVE  [addToQueue(M, blocked_queue, process) EXCEPT !.state[process] = "BLOCKED"]
         = addToQueue([head |-> head, next |-> next,
                       state |-> [state EXCEPT ![process] = "BLOCKED"]],
                      blocked_queue, process)
<1> DEFINE s == [state EXCEPT ![process] = "BLOCKED"]
           m == [head |-> head, next |-> next, state |-> s]
<1>1. /\ process \in PCB /\ state \in [PCB -> Process_state]
      /\ s \in [PCB -> Process_state] /\ s[process] = "BLOCKED"
  BY DEF TypeOK, M, Memory, Process_state
<1>2. Chain(m, blocked_queue) = Chain(M, blocked_queue)
  BY DEF Chain, M
<1>3. LastOf(m, blocked_queue) = LastOf(M, blocked_queue)
  BY <1>2 DEF LastOf, M
<1>4. CASE head[blocked_queue] = NULL
  BY <1>4 DEF addToQueue, M
<1>5. CASE head[blocked_queue] # NULL
  <2>1. StateOnAdd(M, blocked_queue, process) = "BLOCKED"
        /\ StateOnAdd(m, blocked_queue, process) = "BLOCKED"
    BY DEF StateOnAdd
  <2>2. [s EXCEPT ![process] = "BLOCKED"] = s
    BY <1>1
  <2>3. [[state EXCEPT ![process] = "BLOCKED"] EXCEPT ![process] = "BLOCKED"] = s
    BY <1>1
  <2>4. addToQueue(M, blocked_queue, process) =
          [ head  |-> head,
            next  |-> [next EXCEPT ![LastOf(M, blocked_queue)] = process, ![process] = NULL],
            state |-> s ]
    BY <1>5, <2>1 DEF addToQueue, M
  <2>5. addToQueue(m, blocked_queue, process) =
          [ head  |-> head,
            next  |-> [next EXCEPT ![LastOf(M, blocked_queue)] = process, ![process] = NULL],
            state |-> s ]
    <3>1. addToQueue(m, blocked_queue, process) =
            [ head  |-> head,
              next  |-> [next EXCEPT ![LastOf(m, blocked_queue)] = process, ![process] = NULL],
              state |-> [s EXCEPT ![process] = "BLOCKED"] ]
      BY <1>5, <2>1 DEF addToQueue
    <3> QED
      BY <1>3, <2>2, <3>1
  <2> QED
    BY <2>3, <2>4, <2>5
<1> QED
  BY <1>4, <1>5

LEMMA SysReadReading ==
  ASSUME SingleReader, DevTypeOK, NEW lab, PlaceInv(lab), Reading(lab),
         NEW fd \in Fds, NEW len \in Lens, SysRead(fd, len)
  PROVE  \E lab1 : PlaceInv(lab1)' /\ Reading(lab1)'
<1>1. /\ DevCall /\ KernelKept /\ process \in DevUsers
      /\ TypeOK /\ NoKill
  BY DEF SysRead, DevCall, DevTypeOK, SingleReader, NoKill
<1>2. /\ request = "NONE" /\ \A p \in PCB : lab[p] # blocked_queue
      /\ kpc = "user" /\ process # Idle /\ process \in PCB
  BY <1>1, NobodyReads
<1>3. len \in Int /\ len > BUFF_SIZE /\ BUFF_SIZE \in Nat /\ nb \in Nat /\ nb <= BUFF_SIZE
  BY DeviceAssumption DEF SingleReader, DevTypeOK
<1>4. StartRead(len)
  BY <1>3 DEF SysRead, SingleReader
<1>5. len \notin 1 .. nb
  BY <1>3
<1> DEFINE m == addToQueue([head |-> head, next |-> next,
                            state |-> [state EXCEPT ![process] = "BLOCKED"]],
                           blocked_queue, process)
<1>6. find_next_ready_process(m)
  <2>1. find_next_ready_process(
          [addToQueue(M, blocked_queue, process) EXCEPT !.state[process] = "BLOCKED"])
    BY <1>4, <1>5 DEF StartRead
  <2> QED
    BY <1>1, <1>2, <2>1, ReaderQueued
<1>7. /\ blocked_queue \in Queue \ {sleep_queue} /\ blocked_queue \notin Port
      /\ blocked_queue # ready_queue
  BY ConstantTypes DEF blocked_queue, ready_queue, sleep_queue, Queue, Port
<1>8. UNCHANGED <<sleepVars, pid, inUse, sigTable>>
  BY <1>1 DEF KernelKept, idVars, portVars
<1>9. PICK lab1 : /\ PlaceInv(lab1)'
                  /\ Meets(lab, lab1, {x \in {process} : blocked_queue = blocked_queue},
                           {blocked_queue})
                  /\ lab1[process] = blocked_queue
  BY <1>1, <1>2, <1>6, <1>7, <1>8, BlockPlaces
<1>10. \A p \in PCB : lab1[p] = blocked_queue <=> p = process
  <2>1. \A p \in PCB \ {process} : lab1[p] # blocked_queue
    BY <1>2, <1>9 DEF Meets
  <2> QED
    BY <1>9, <2>1
<1>11. /\ request' = "READ" /\ requestLen' = len /\ requestProcess' = process
       /\ requestBuffer' = Ahead /\ nb' = 0
  BY <1>4 DEF StartRead
<1>12. requestInd' < requestLen'
  BY <1>3, <1>11, AheadType DEF requestInd
<1> QED
  BY <1>1, <1>9, <1>10, <1>11, <1>12 DEF Reading

(* A key that leaves the queues alone: the process interrupted goes on.    *)
LEMMA KeyStays ==
  ASSUME TypeOK, NEW lab, PlaceInv(lab), kpc = "user", GoOn(M), KernelKept
  PROVE  PlaceInv(lab)' /\ Meets(lab, lab, {}, {})
<1>1. Live(process) /\ iterator = NULL /\ work = <<>> /\ sigTable'[Idle] = {}
  BY DEF PlaceInv, Dispatching, Sweeping, Signalled, KernelKept
<1>2. M \in Memory /\ M.head = head /\ M.next = next /\ M.state = state
  BY DEF TypeOK, M
<1>3. /\ SwitchTo(M, process, pending, inSig) /\ UNCHANGED <<sleepVars, pid>>
      /\ \A n \in Port : inUse[n] => inUse'[n]
  BY DEF GoOn, KernelKept, idVars, portVars
<1> QED
  BY <1>1, <1>2, <1>3, Stays

LEMMA KbdIntReading ==
  ASSUME SingleReader, DevTypeOK, NEW lab, PlaceInv(lab), Reading(lab),
         NEW code \in Codes, KbdInt(code)
  PROVE  \E lab1 : PlaceInv(lab1)' /\ Reading(lab1)'
<1> DEFINE ascii == kbtoa(kstate, code)
<1>1. TypeOK /\ kpc = "user" /\ KernelKept /\ NoKill
  BY DEF KbdInt, DevTypeOK, SingleReader, NoKill
<1>2. \/ request = "NONE" /\ KeepKey(ascii)
      \/ request = "READ" /\ ReadKey(code, ascii)
  BY DEF KbdInt, Reading
<1> HIDE DEF ascii
<1>3. CASE request = "NONE" /\ KeepKey(ascii)
  <2>1. PlaceInv(lab)' /\ Meets(lab, lab, {}, {})
    BY <1>1, <1>3, KeyStays DEF KeepKey
  <2>2. Reading(lab)'
    BY <1>3, <2>1 DEF KeepKey, Reading, reqVars
  <2> QED
    BY <2>1, <2>2
<1>4. CASE request = "READ" /\ ReadKey(code, ascii)
  <2> DEFINE b == IF IsTyped(code) THEN Append(requestBuffer, Char(ascii)) ELSE requestBuffer
  <2>1. nb = 0 /\ requestInd < requestLen /\ requestProcess \in DevUsers
    BY <1>4 DEF Reading
  <2>2. /\ requestBuffer' = b /\ UNCHANGED <<nb, requestLen, requestProcess>>
        /\ \/ GoOn(Unblock(M, requestProcess)) /\ request' = "NONE"
           \/ GoOn(M) /\ UNCHANGED request /\ ~ IsFull(b)
    BY <1>4 DEF ReadKey, ringVars, ReadEnds
  <2>3. Len(b) \in Nat /\ Len(b) <= Len(requestBuffer) + 1
    BY DEF DevTypeOK
  <2> HIDE DEF b
  <2>4. CASE GoOn(Unblock(M, requestProcess)) /\ request' = "NONE"
    <3>1. requestProcess \in PCB /\ lab[requestProcess] = blocked_queue
      BY <1>4, <2>1, DeviceAssumption DEF Reading
    <3>2. /\ WellLinked(M, lab) /\ lab[Idle] = Unlisted
          /\ Unlisted # blocked_queue /\ blocked_queue \in Queue
      BY <1>1, PlacedTypes, QueueNames DEF Unlisted, blocked_queue
    <3>3. IsRemovable(M, blocked_queue, requestProcess)
      BY <3>1, <3>2, ChainIsClass DEF IsRemovable
    <3>4. /\ SwitchTo(addToQueue(removeFromQueue(M, blocked_queue, requestProcess),
                                 ready_queue, requestProcess), process, pending, inSig)
          /\ UNCHANGED <<sleepVars, pid, sigTable, inUse>>
      BY <1>1, <2>4 DEF GoOn, Unblock, KernelKept, idVars, portVars
    <3>5. PICK lab1 : /\ PlaceInv(lab1)' /\ Meets(lab, lab1, {requestProcess}, {})
                      /\ lab1[requestProcess] = ready_queue
      BY <1>1, <3>3, <3>4, ReleasePlaces
    <3>6. \A p \in PCB : lab1[p] # blocked_queue
      <4> TAKE p \in PCB
      <4>1. ready_queue # blocked_queue
        BY DEF ready_queue, blocked_queue
      <4> QED
        BY <3>5, <4>1 DEF Meets, Reading
    <3> QED
      BY <2>4, <3>5, <3>6 DEF Reading
  <2>5. CASE GoOn(M) /\ UNCHANGED request /\ ~ IsFull(b)
    <3>1. PlaceInv(lab)' /\ Meets(lab, lab, {}, {})
      BY <1>1, <2>5, KeyStays
    <3>2. requestInd' < requestLen'
      <4>1. requestLen \in Int /\ Len(requestBuffer) \in Nat
        BY DEF DevTypeOK
      <4>2. Len(b) # requestLen
        BY <2>5 DEF IsFull
      <4> QED
        BY <2>1, <2>2, <2>3, <4>1, <4>2 DEF requestInd
    <3>3. Reading(lab)'
      BY <2>1, <2>2, <2>5, <3>1, <3>2 DEF Reading
    <3> QED
      BY <3>1, <3>3
  <2> QED
    BY <2>2, <2>4, <2>5
<1> QED
  BY <1>2, <1>3, <1>4

LEMMA KernelReading ==
  ASSUME SingleReader, DevTypeOK, NEW lab, PlaceInv(lab), Reading(lab),
         [Next]_vars, UNCHANGED devVars
  PROVE  \E lab1 : PlaceInv(lab1)' /\ Reading(lab1)'
<1>1. TypeOK /\ UnblockedTargets
  BY DEF DevTypeOK, SingleReader, UnblockedTargets, NoKill
<1>2. /\ \A n : ~ SysSend(n) /\ ~ SysPortRecv(n) /\ ~ Serves(n)
  BY DEF SingleReader, SysSend, SysPortRecv, Serves, Call
<1>3. PICK lab1 : PlaceInv(lab1)' /\ Meets(lab, lab1, {}, {})
  BY <1>1, <1>2, StepPlaces
<1>4. Reading(lab1)'
  BY <1>3, ReadingStill DEF devVars, ringVars
<1> QED
  BY <1>3, <1>4

DevicePlaces == \E lab : PlaceInv(lab) /\ Reading(lab)

(* The placement of the processes and of the reader is inductive.          *)
THEOREM DevicesStep ==
  ASSUME SingleReader
  PROVE  DevSpec => []DevicePlaces
<1>1. DevInit => DevicePlaces
  <2> SUFFICES ASSUME DevInit PROVE DevicePlaces
    OBVIOUS
  <2>1. PICK lab : PlaceInv(lab) /\ Spells(M, lab, ready_queue, <<>>)
    BY InitPlaces DEF DevInit
  <2>2. \A p \in PCB : lab[p] # blocked_queue
    <3>1. WellLinked(M, lab) /\ M.head[blocked_queue] = NULL
      BY <2>1, QueueNames DEF PlaceInv, Placed, DevInit, Init, M
    <3>2. Chain(M, blocked_queue) = {}
      BY <3>1 DEF Chain
    <3> QED
      BY <3>1, <3>2, ChainIsClass, QueueNames
  <2> QED
    BY <2>1, <2>2 DEF DevInit, Reading, DevicePlaces
<1>2. DevTypeOK /\ DevicePlaces /\ [DevNext]_allVars => DevicePlaces'
  <2> SUFFICES ASSUME DevTypeOK, NEW lab, PlaceInv(lab), Reading(lab), [DevNext]_allVars
               PROVE  \E lab1 : PlaceInv(lab1)' /\ Reading(lab1)'
    BY DEF DevicePlaces
  <2>1. CASE [Next]_vars /\ UNCHANGED devVars
    BY <2>1, KernelReading
  <2>2. CASE \E d \in Devices : SysOpen(d)
    BY <2>2, SysOpenReading
  <2>3. CASE \/ \E fd \in Fds : SysClose(fd)
             \/ SysWrite
             \/ \E fd \in Fds, c \in Commands : SysIoctl(fd, c)
    BY <2>3, DevCallReading
  <2>4. CASE \E fd \in Fds, len \in Lens : SysRead(fd, len)
    BY <2>4, SysReadReading
  <2>5. CASE \E code \in Codes : KbdInt(code)
    BY <2>5, KbdIntReading
  <2> QED
    BY <2>1, <2>2, <2>3, <2>4, <2>5 DEF DevNext, allVars
<1> QED
  BY <1>1, <1>2, DeviceTypes, PTL DEF DevSpec

(* With the driver in the kernel every live process still runs, waits for  *)
(* a signal or is on exactly one queue: a read that blocks and a key that  *)
(* ends it lose nobody and queue nobody twice (kbd_uread and kbd_read with *)
(* the queues of disp.c).                                                  *)
THEOREM DevicesPlaced ==
  ASSUME SingleReader
  PROVE  DevSpec => []OnePlace
<1>1. DevicePlaces => OnePlace
  BY OnePlaceHolds DEF DevicePlaces
<1> QED
  BY <1>1, DevicesStep, PTL

(* The request of the driver is that of the process blocked in a read, and *)
(* it waits for a key: nothing is typed ahead, and its buffer is not full  *)
(* (kbd_uread and find_next_ready_process against kbd_read and kbd_open).  *)
THEOREM ReadersServed ==
  ASSUME SingleReader
  PROVE  DevSpec => []ReaderServed
<1>1. DevicePlaces => ReaderServed
  <2> SUFFICES ASSUME NEW lab, PlaceInv(lab), Reading(lab) PROVE ReaderServed
    BY DEF DevicePlaces
  <2>1. \A p \in PCB : On(p, blocked_queue) <=> lab[p] = blocked_queue
    BY PlaceChains, QueueNames DEF PlaceInv
  <2> QED
    BY <2>1 DEF Reading, ReaderServed
<1> QED
  BY <1>1, DevicesStep, PTL
===========================================================================
