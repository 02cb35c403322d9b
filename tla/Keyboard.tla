----------------------------- MODULE Keyboard -----------------------------
(***************************************************************************)
(* The keyboard driver (c/kbd.c) and the device independent calls          *)
(* (c/di_calls.c) on top of the kernel: the system calls of Kernel and     *)
(* those on devices, the timer interrupt and the keyboard interrupt.       *)
(*                                                                         *)
(* The upper half (kbd_open, kbd_uread, kbd_ioctl) runs in a system call,  *)
(* the lower half (kbd_read) in the keyboard interrupt; they share the     *)
(* ring buffer and the current request, and both move the reader between   *)
(* the queues of the dispatcher.  Both devices have this driver: they      *)
(* differ in the echo, which is left out.                                  *)
(***************************************************************************)
EXTENDS Kernel

CONSTANTS
  BUFF_SIZE, FDT_SIZE,
  Devices,   \* device numbers: indices of device_table
  DevUsers,  \* the processes whose programs use devices
  Fds, Lens, \* the descriptors and lengths they pass
  Commands,  \* the commands they pass to ioctl
  Careful,   \* whether they read and control only descriptors they opened
  Codes      \* the scan codes of the keys pressed and released

ASSUME DeviceAssumption ==
  /\ BUFF_SIZE \in Nat \ {0} /\ FDT_SIZE \in Nat \ {0}
  /\ Devices \subseteq {0, 1} /\ DevUsers \subseteq PCB
  /\ Fds \subseteq Int /\ Lens \subseteq Int /\ Commands \subseteq Int
  /\ Careful \in BOOLEAN /\ Codes \subseteq 1 .. 255

VARIABLES
  fdt,        \* the device a descriptor of a process is open on, or NULL
  irq1,       \* whether the keyboard interrupt is enabled
  kstate,     \* kbd.c's state: the modifier keys, as the set of its bits
  buff, bhead, btail, nb,                      \* the ring buffer
  request, requestLen, requestProcess, _EOF,   \* the current request
  requestBuffer   \* what was written through requestBuffer: its first
                  \* requestInd characters

ringVars == <<buff, bhead, btail, nb>>
reqVars  == <<request, requestLen, requestProcess, requestBuffer>>
devVars  == <<fdt, irq1, kstate, ringVars, reqVars, _EOF>>
allVars  == <<vars, devVars>>

requestInd == Len(requestBuffer)
Fd == 0 .. FDT_SIZE - 1

(* kbcode, kbshift and kbctl.  The entry of code 0, which no key sends, is *)
(* left out; bs, ht and nl are the characters of these keys.               *)
bs == 8
ht == 9
nl == 10

kbcode ==
  << 27,  49,  50,  51,  52,  53,  54,  55,  56,  57,
     48,  45,  61,  bs,  ht, 113, 119, 101, 114, 116,
    121, 117, 105, 111, 112,  91,  93,  nl,   0,  97,
    115, 100, 102, 103, 104, 106, 107, 108,  59,  39,
     96,   0,  92, 122, 120,  99, 118,  98, 110, 109,
     44,  46,  47,   0,   0,   0,  32 >>

kbshift ==
  <<  0,  33,  64,  35,  36,  37,  94,  38,  42,  40,
     41,  95,  43,  bs,  ht,  81,  87,  69,  82,  84,
     89,  85,  73,  79,  80, 123, 125,  nl,   0,  65,
     83,  68,  70,  71,  72,  74,  75,  76,  58,  34,
    126,   0, 124,  90,  88,  67,  86,  66,  78,  77,
     60,  62,  63,   0,   0,   0,  32 >>

kbctl ==
  <<  0,   0,   0,   0,   0,   0,   0,   0,   0,   0,
      0,  31,   0,  bs,  ht,  17,  23,   5,  18,  20,
     25,  21,   9,  15,  16,  27,  29,  nl,   0,   1,
     19,   4,   6,   7,   8,  10,  11,  12,   0,   0,
      0,   0,  28,  26,  24,   3,  22,   2,  14,  13 >>

LSHIFT == 42
RSHIFT == 54
LMETA  == 56
LCTL   == 29
CAPSL  == 58
EXTESC == 224
KEY_UP == 128
NOCHAR == 256

---------------------------------------------------------------------------
(* kbtoa: the modifier keys change the state, the others are translated.   *)
(* The escape code of extended keys has the KEY_UP bit and counts as the   *)
(* release of another key: EXTENDED is never set, and what kbtoa does      *)
(* under it is left out.                                                   *)
ModifierOf(code) ==
  CASE code \in {LSHIFT, RSHIFT} -> {"INSHIFT"}
    [] code = CAPSL              -> {"CAPSLOCK"}
    [] code = LCTL               -> {"INCTL"}
    [] code = LMETA              -> {"INMETA"}
    [] OTHER                     -> {}

StateAfter(st, code) ==
  IF code >= KEY_UP THEN st \ ModifierOf(code - KEY_UP)
  ELSE IF code = EXTESC THEN st \cup {"EXTENDED"}
  ELSE st \cup ModifierOf(code)

Plain(st, code) ==
  IF code > Len(kbcode) THEN NOCHAR
  ELSE IF ("CAPSLOCK" \in st) # ("INSHIFT" \in st) THEN kbshift[code]
  ELSE kbcode[code]

CharOf(st, code) ==
  IF \/ "INSHIFT" \in st /\ code > Len(kbshift)
     \/ "INCTL" \in st /\ code > Len(kbctl)
  THEN NOCHAR
  ELSE (IF "INCTL" \in st THEN kbctl[code] ELSE Plain(st, code))
       + (IF "INMETA" \in st THEN 128 ELSE 0)

IsModifier(code) == code < KEY_UP /\ ModifierOf(code) # {}

IsTyped(code) == code < KEY_UP /\ ~ IsModifier(code)

kbtoa(st, code) == IF IsTyped(code) THEN CharOf(st, code) ELSE NOCHAR

Char(ascii) == ascii % 256   \* (char)ascii

---------------------------------------------------------------------------
DevInit ==
  /\ Init
  /\ fdt = [p \in PCB |-> [fd \in Fd |-> NULL]]
  /\ irq1 = FALSE /\ kstate = {}
  /\ buff = [i \in 0 .. BUFF_SIZE - 1 |-> 0] /\ bhead = 0 /\ btail = 0 /\ nb = 0
  /\ request = "NONE" /\ requestLen = 0 /\ requestProcess = NULL
  /\ _EOF = nl /\ requestBuffer = <<>>

(* removeFromQueue(&blocked_queue, p), addToQueue(&ready_queue, p)         *)
Unblock_StillBlocked(m, p) == addToQueue(m, ready_queue, p)

Unblock(m, p) == addToQueue(removeFromQueue(m, blocked_queue, p), ready_queue, p)

DevCall == kpc = "user" /\ process # Idle /\ process \in DevUsers
IsOpen(p, fd) == fd \in Fd /\ fdt[p][fd] # NULL

(* What the kernel keeps in a device call and in the keyboard interrupt.   *)
KernelKept == UNCHANGED <<sleepVars, idVars, portVars, want, sigTable>>

(* di_open: the search for a free descriptor goes on behind the first one, *)
(* and fails, the device already open, at a descriptor that is in use.     *)
SysOpen(device_no) ==
  /\ DevCall
  /\ IF fdt[process][0] # NULL
     THEN Return(M, -1) /\ UNCHANGED devVars
     ELSE /\ fdt' = [fdt EXCEPT ![process][0] = device_no]
          /\ Return(M, IF \E fd \in Fd : IsOpen(process, fd) THEN -1 ELSE 0)
          /\ irq1' = TRUE   \* kbd_open
          /\ requestProcess' = process /\ request' = "NONE"
          /\ buff' = [buff EXCEPT ![0] = 0] /\ bhead' = 0 /\ btail' = 0 /\ nb' = 0
          /\ UNCHANGED <<kstate, requestLen, requestBuffer, _EOF>>
  /\ KernelKept /\ UNCHANGED blockedQ

(* di_close does not call kbd_close.                                       *)
SysClose(fd) ==
  /\ DevCall
  /\ \/ fd \in Fd /\ fdt' = [fdt EXCEPT ![process][fd] = NULL] /\ Return(M, 0)
     \/ fd \notin Fd /\ UNCHANGED fdt /\ Return(M, -1)
  /\ UNCHANGED <<irq1, kstate, ringVars, reqVars, _EOF>>
  /\ KernelKept /\ UNCHANGED blockedQ

SysWrite ==
  /\ DevCall /\ Return(M, -1)
  /\ KernelKept /\ UNCHANGED <<blockedQ, devVars>>

Wrap_Off(i) == i % (BUFF_SIZE + 1)

Wrap(i) == i % BUFF_SIZE

(* The characters typed ahead, in the order Buffer_Read returns them.      *)
Ahead == [i \in 1 .. nb |-> buff[Wrap(btail + i - 1)]]

(* di_read and kbd_uread.  The loop empties the ring buffer whatever len   *)
(* is; the result of di_read, 0, overwrites the count.                     *)
StartRead(len) ==
  LET m0 == addToQueue(M, blocked_queue, process)
      m1 == [m0 EXCEPT !.state[process] = "BLOCKED"]
  IN  /\ request' = "READ" /\ requestLen' = len /\ requestProcess' = process
      /\ requestBuffer' = Ahead
      /\ btail' = Wrap(btail + nb) /\ nb' = 0
      /\ find_next_ready_process(IF len \in 1 .. nb THEN Unblock(m1, process) ELSE m1)
      /\ rc' = [rc EXCEPT ![process] = 0]
      /\ blockedQ' = [blockedQ EXCEPT ![process] = blocked_queue]

(* The dispatcher goes on to the next process also when the read failed.   *)
SysRead(fd, len) ==
  /\ DevCall
  /\ Careful => IsOpen(process, fd)
  /\ \/ IsOpen(process, fd) /\ len >= 0 /\ StartRead(len)
     \/ /\ ~ IsOpen(process, fd) \/ len < 0
        /\ find_next_ready_process(M) /\ rc' = [rc EXCEPT ![process] = -1]
        /\ UNCHANGED <<reqVars, btail, nb, blockedQ>>
  /\ UNCHANGED <<fdt, irq1, kstate, buff, bhead, _EOF>>
  /\ KernelKept

(* kbd_ioctl and di_ioctl: the caller goes on the blocked queue, and runs  *)
(* on; the process taken off the ready queue is not run.                   *)
StartIoctl ==
  LET m == addToQueue(M, blocked_queue, process)
  IN  /\ request' = "IOCTL"
      /\ Return(IF m.head[ready_queue] = NULL THEN m ELSE removeFirst(m, ready_queue), 0)
      /\ UNCHANGED <<requestLen, requestProcess, requestBuffer>>

SysIoctl(fd, command) ==
  /\ DevCall
  /\ Careful => IsOpen(process, fd)
  /\ IF IsOpen(process, fd) /\ command = 53 THEN StartIoctl
     ELSE /\ Return(M, IF IsOpen(process, fd) THEN 0 ELSE -1)
          /\ UNCHANGED reqVars
  /\ UNCHANGED <<fdt, irq1, kstate, ringVars, _EOF>>
  /\ KernelKept /\ UNCHANGED blockedQ

---------------------------------------------------------------------------
(* kbd_read.  contextswitch has saved eax in rc of the process that was    *)
(* interrupted, which goes on.                                             *)
Interrupted == [rc EXCEPT ![process] = UserEax]

GoOn(m) == SwitchTo(m, process, pending, inSig)

HasRoom_Always == TRUE

HasRoom == nb < BUFF_SIZE

Buffer_Write(ascii) ==
  IF ~ HasRoom THEN UNCHANGED ringVars
  ELSE /\ buff' = [buff EXCEPT ![bhead] = Char(ascii)]
       /\ bhead' = Wrap(bhead + 1) /\ nb' = nb + 1
       /\ UNCHANGED btail

KeepKey(ascii) ==
  /\ Buffer_Write(ascii)
  /\ GoOn(M) /\ rc' = Interrupted
  /\ UNCHANGED <<reqVars, _EOF>>

IsFull_OffByOne(b) == Len(b) > requestLen

IsFull(b) == Len(b) = requestLen

ReadEnds(b, code, ascii) ==
  IsFull(b) \/ (code = 32 /\ "INCTL" \in kstate) \/ ascii = _EOF

ReadKey(code, ascii) ==
  LET b == IF IsTyped(code) THEN Append(requestBuffer, Char(ascii)) ELSE requestBuffer
  IN  /\ requestBuffer' = b
      /\ IF ReadEnds(b, code, ascii)
         THEN /\ GoOn(Unblock(M, requestProcess))
              /\ rc' = [Interrupted EXCEPT ![requestProcess] = Len(b)]
              /\ request' = "NONE"
         ELSE GoOn(M) /\ rc' = Interrupted /\ UNCHANGED request
      /\ UNCHANGED <<ringVars, requestLen, requestProcess, _EOF>>

(* request stays IOCTL: every key sets _EOF again.                         *)
IoctlKey(code, ascii) ==
  /\ IF IsTyped(code)
     THEN /\ _EOF' = ascii
          /\ GoOn(Unblock(M, requestProcess))
          /\ rc' = [Interrupted EXCEPT ![requestProcess] = 0]
     ELSE GoOn(M) /\ rc' = Interrupted /\ UNCHANGED _EOF
  /\ UNCHANGED <<ringVars, reqVars>>

KbdInt(code) ==
  /\ kpc = "user" /\ ~ inSig[process] /\ irq1
  /\ kstate' = StateAfter(kstate, code)
  /\ LET ascii == kbtoa(kstate, code)
     IN  \/ request = "NONE"  /\ KeepKey(ascii)
         \/ request = "READ"  /\ ReadKey(code, ascii)
         \/ request = "IOCTL" /\ IoctlKey(code, ascii)
  /\ UNCHANGED <<fdt, irq1>>
  /\ KernelKept /\ UNCHANGED blockedQ

---------------------------------------------------------------------------
DevNext ==
  \/ Next /\ UNCHANGED devVars
  \/ \E d \in Devices : SysOpen(d)
  \/ \E fd \in Fds : SysClose(fd) \/ (\E len \in Lens : SysRead(fd, len))
                   \/ (\E c \in Commands : SysIoctl(fd, c))
  \/ SysWrite
  \/ \E code \in Codes : KbdInt(code)

DevSpec == DevInit /\ [][DevNext]_allVars

---------------------------------------------------------------------------
(* Properties, besides OnePlace for the composed system.                   *)
DevTypeOK ==
  /\ TypeOK
  /\ fdt \in [PCB -> [Fd -> Devices \cup {NULL}]]
  /\ irq1 \in BOOLEAN
  /\ kstate \subseteq {"INCTL", "INSHIFT", "CAPSLOCK", "INMETA", "EXTENDED"}
  /\ buff \in [0 .. BUFF_SIZE - 1 -> 0 .. 255]
  /\ bhead \in 0 .. BUFF_SIZE - 1 /\ btail \in 0 .. BUFF_SIZE - 1
  /\ nb \in 0 .. BUFF_SIZE
  /\ request \in {"NONE", "READ", "IOCTL"} /\ requestLen \in Int
  /\ requestProcess \in PCB \cup {NULL} /\ _EOF \in Nat
  /\ requestBuffer \in Seq(0 .. 255)

(* The request of the driver is that of the process blocked in a read, and *)
(* it waits for a key: nothing is typed ahead, and its buffer is not full  *)
(* (kbd_uread and find_next_ready_process against kbd_read and kbd_open).  *)
ReaderServed ==
  /\ \A p \in PCB : On(p, blocked_queue) <=> request = "READ" /\ requestProcess = p
  /\ request = "READ" => nb = 0 /\ requestInd < requestLen

KeyChars ==
  {Char(kbtoa(st, code)) : st \in SUBSET {"INCTL", "INSHIFT", "CAPSLOCK", "INMETA"},
                           code \in Codes}

TA == INSTANCE TypeAhead WITH Bound <- BUFF_SIZE, Chars <- KeyChars,
        ahead <- Ahead, got <- requestBuffer, reading <- (request = "READ")

(* The driver delivers the characters in the order of their keys, each     *)
(* once, those typed ahead first: it implements TypeAhead (Buffer_Write,   *)
(* Buffer_Read, kbd_uread, kbd_read).                                      *)
KeysInOrder == TA!Spec

(* "test sysread when there are more characters in the kernel buffer than  *)
(* the read has requested" (testdoc.txt): the driver does not write past   *)
(* the end of the reader's buffer.                                         *)
ReadFits == request = "READ" => requestInd <= requestLen

(* "Output: 12345" (testdoc.txt): a program reads the characters of the    *)
(* keys it was sent, and nothing for their release.                        *)
ReadsCharacters ==
  \A i \in 1 .. requestInd : requestBuffer[i] # Char(NOCHAR)

(* "interrupt of a read by a signal" (a3-marking.txt): such a read is over, *)
(* keys typed later are not delivered to it.                               *)
NoReadGoesOn == request = "READ" => On(requestProcess, blocked_queue)

(* "Disables keyboard interrupts." (h/kbd.h, kbd_close): when no process   *)
(* has a device open, keys do not interrupt.                               *)
ClosedIsQuiet == irq1 => \E p \in PCB, fd \in Fd : IsOpen(p, fd)

(* "Allows application to set EOF character." (h/kbd.h): a call sets it to *)
(* one key, the request does not outlive it.                               *)
EofSetOnce == [][request = "IOCTL" /\ _EOF' # _EOF => request' # "IOCTL"]_allVars
===========================================================================
