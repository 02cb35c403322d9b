# A TLA+ model of the kernel

This directory is a verification development for the Xeros-style teaching
kernel in `src/`: a single-processor, non-preemptible kernel with a round-robin
dispatcher, a sleep device, rendezvous ports, signals, a keyboard driver and a
small memory manager, with the decompressor that boots it and the library it is
linked with. It holds TLA+ modules, TLC configurations, and TLAPS
proofs.

    tlc -workers 2 -config KernelIpc.cfg MCKernel.tla     # a run
    tlapm KernelProofs.tla                                # the proofs

## 1. Inventory

The kernel has no threads of its own. User processes run with interrupts
enabled; a system call (`int 80`), the timer (`int 32`) or the keyboard
(`int 33`) traps into `contextswitch` (c/ctsw.c), which returns into the loop
of `dispatch` (c/disp.c). The dispatcher runs with interrupts off until it
switches to a process again. All concurrency is therefore the interleaving of
*processes* at traps, and the state of the kernel's parts is shared by them. The
decompressor runs before any of this, alone, and leaves nothing behind but the
kernel; the library's routines keep no state between calls.

| Component | State | Operations | Interacts with |
|---|---|---|---|
| Dispatcher, context switch: c/disp.c, c/ctsw.c, c/syscall.c | `process`, `ready_queue`, `blocked_queue`, `sleep_queue`, the PCBs' `next`, `state`, `rc` | one `case` of `dispatch` per system call or interrupt; `addToQueue`, `removeFromQueue`, `find_next_ready_process`, `unblockProcess`, `kkillproc` | calls every other component; all of them call the queue functions back |
| Processes: c/create.c, c/disp.c | `global_process_table`, `global_process_pid_table` | `create`, `find_next_free_pcb`, `kkillproc` | memory manager for stacks, ports on exit |
| Ports: c/msg.c | `global_port_table`, each PCB's list `ports`, each port's `blocked_list`, PCB `blocked_queue`, `msg` | `kcreateport`, `kdestroyport`, `kdestroyallports`, `ksendtoport`, `krecvfromport`, `unblockPort` | queues |
| Sleep device: c/sleep.c | `sleep_queue`, `ticks` | `sleep`, `tick` | timer interrupt, queues |
| Signals: c/signal.c, c/disp.c | `signal_controller`, `signal_table`, `is_in_signal`, the frames pushed on user stacks | `signal`, `prepare_sigtramp`, `sigtramp`, SYS_SIG_HANDLE, SYS_SIG_RETURN, SYS_SIG_WAIT | takes processes out of any wait |
| Keyboard and device calls: c/kbd.c, c/di_calls.c | ring buffer, pending request and its process, shift state, `fdt`, `device_table` | `di_open`, `di_close`, `di_read`, `di_ioctl`, `kbd_open`, `kbd_uread`, `kbd_ioctl`, `kbd_read` | keyboard interrupt, queues |
| Memory manager: c/mem.c | free list threaded through block headers | `kmeminit`, `kmalloc`, `kfree`, `AddToFreeList` | `create`, `kkillproc` |
| Initialisation: c/init.c, c/i386.c, c/evec.c, c/startup.S | vectors, PIC, PIT, device table | `initproc` | everything, once |
| User programs: c/user.c | their own | root, idle, producer, ... | system calls |
| Output: c/kprintf.c | the screen's memory, `crtat`, the hardware's cursor | `kprintf`, `kputc`, `kbmputc`, `cursor` | `_doprnt` |
| C library: lib/libxc/doprnt.c, sprintf.c, doscan.c, scanf.c, atol.c, qsort.c | none (their arguments) | `_doprnt`, `sprintf`, `_doscan`, `sscanf`, `atol`, `qsort` | output |
| Boot decompressor: boot/zBoot/misc.c, unzip.c, inflate.c, gzip.h | `inbuf`, `inptr`, `insize`, `input_ptr`; the bits `bb`, `bk`; `window`, `w`, `crc`; `free_mem_ptr` | `decompress_kernel`: `get_method`, `inflate` block by block, the checksum; `huft_build`, `malloc` | jumps to the kernel, once |
| Boot sector, build tools: boot/boot, boot/build.c, compile/ | machine | | the decompressor |

### What is hard here

* *One `next` field for every queue.* A process that is queued twice, or whose
  `next` is cleared while it is queued, takes every process behind it along.
* *State as a hint.* `signal` decides from `PCB.state` where a process waits;
  the queue functions do not always keep that field up to date.
* *Rendezvous.* Sender and receiver meet in either order, while signals,
  deletion of the port and exit of the peer take processes out of the wait.
* *Time.* `tick` unlinks sleepers as if each were the first of the queue.
* *Reuse.* PCB slots, pids (modulo 100) and ports are reused; several fields
  of a PCB survive its process.
* *Kernel loops and errors half-way.* Device calls queue the caller before
  they know whether they will succeed; some error paths then switch away from
  a process that is on no queue.

* *Buffers that meet their end.* The decompressor reads codes ahead, refills its
  input, flushes its window in the middle of a copy, and allocates tables over
  input it has consumed; all of this depends on where in the file things fall.
* *Damaged input.* The kernel is written to its place before its checksum is
  known.

There is nothing persistent, hence no crash recovery, and no messages on a
network, hence no loss or duplication.

### What makes each component correct

* Dispatcher: no process is lost or queued twice (`OnePlace`); the processor is
  shared round robin (`RoundRobin`, `ReadyRuns`).
* Ports: table and owners' lists agree (`PortsAgree`); nobody waits on a dead
  port (`NoStrandedSender`) or misses a partner that is there
  (`NoMissedRendezvous`); a receiver gets messages of its own ports only
  (`ReceivesOnOwnPort`). That it gets one of the port it asked for is not so:
  section 5, `RecvTwoPorts`.
* Sleep: sorted queue (`SleepSorted`), wake up on the right tick (`OnTime`), and
  at all (`SleeperRuns`).
* Signals: a handler for every pending signal (`PendingHasHandler`), no lost
  wakeup (`SigWaitNonePending`), one handler at a time, the highest signal first,
  and none lost (`SignalsInTurn`), no damage to the queues (`OnePlace`,
  `ReadyQueueGrows`).
* Keyboard: characters arrive once and in order (`KeysInOrder`); the driver's
  request and the process blocked on it belong together (`ReaderServed`).
* Memory: blocks do not overlap (`BlocksDisjoint`), the free list is sorted,
  linked both ways (`FreeListLinked`) and merged (`Coalesced`), all for calls that
  are safe.
* Decompressor: what comes out is at every step a prefix of what was compressed
  (`OutputIsPrefix`); a good file boots (`GoodFileBoots`) and a damaged one never
  boots anything else (`NeverBootsWrong`); buffers and tables keep to their
  places (`InflateTypeOK`, `TablesInFreeMemory`).
* Library: numerals denote their numbers (`NumeralsRight`), fields are what was
  asked for (`FieldsRight`), what was printed is scanned back (`ScansBack`),
  arrays are sorted with little stack (`Sorts`), tables decode (`TablesRight`).
* Output: the screen shows the last lines of the text (`ShowsText`).

## 2. Modules

| Module | What it is |
|---|---|
| `ProcQueues` | `addToQueue`, `removeFromQueue`, `sleep`'s insertion, as operators on a queue memory |
| `Kernel` | dispatcher, processes, ports, sleep, signals: the state machine and its properties |
| `Scheduler` | abstract round robin: what the kernel promises about the processor |
| `KernelScheduler` | refinement mapping from `Kernel` to `Scheduler` |
| `MCKernel` | argument sets for the runs |
| `QueueProofs` | lemmas about `ProcQueues` |
| `KernelProofs` | theorems about `Kernel`: types and signals |
| `PlaceProofs` | theorems about `Kernel`: queues and sleepers |
| `SchedulerProofs` | theorem about `KernelScheduler`: the round robin |
| `PortProofs` | theorems about `Kernel`: ports |
| `KeyboardProofs` | theorems about `Keyboard`: the keys and the reader |
| `MemoryProofs` | theorems about `Memory` |
| `Keyboard` | keyboard driver and device calls, composed with all of `Kernel` |
| `TypeAhead` | abstract type-ahead: what the driver promises a reader |
| `Memory` | the allocator of stacks |
| `Huft` | `huft_build`: decoding tables, as an operator |
| `Crc` | the checksum of the decompressor |
| `Inflate`, `MCInflate` | the boot decompressor as a state machine; the files of its runs |
| `Doprnt`, `Doscan` | formatted output, formatted input and `atol`, as operators |
| `Qsort` | the sort, as a state machine |
| `Console` | the console: `kbmputc` and the screen |
| `Terminal` | abstract terminal: what the console promises |
| `LibraryProofs` | theorems about `Console` and `Qsort` |
| `Library`, `MCLibrary` | calls of these operators, the sort and the console, one call per behaviour; arguments |
### ProcQueues

A `struct PCB*` is the index of its slot, NULL is -1, and the address of a
queue head (`&ready_queue`, `&port->blocked_list`) is a number: -1, -2, -3, or
the port. A *memory* is a record of all heads, all `next` fields and all states.
The operators return the memory after the C function. They do not assume that
the lists are well formed: `Reach` is the least set closed under `next`, so a
process linked into two queues is seen on both, which is how the faults of
section 5 become visible. `addToQueue` compares queue heads, not queues, in
`*queue == ready_queue`; so does `StateOnAdd`.

### Kernel

Every state with `kpc = "user"` is one in which the process `process` executes
user code. A step is one trap and everything the dispatcher does until the next
`contextswitch`: `SwitchTo` is the end of every action and models
`prepare_sigtramp` at the top of the loop and `contextswitch` itself (state
RUNNING, `next` cleared, `rc` overwritten by eax when an interrupt came).

| Code | Definition |
|---|---|
| the `case`s of `dispatch` | `SysYield`, `SysCreate`, `SysStop`, `TimerInt`, `SysPortCreate`, `SysPortDelete`, `SysSend`, `SysPortRecv`, `SysSleep`, `SysGetPid`, `SysKill`, `SysSigHandle`, `SysSigWait`, `SysSigReturn` |
| `unblockPort`, called by exit and by port deletion | `UnblockStep` per process moved, `UnblockDone` |
| the loop of `tick` | `TickStep` per sleeper, `TickDone` |
| `create`, `find_next_free_pcb` | `CreateIn`, `FreeSlots`, `PidOf` |
| `kcreateport`, `addPortToPCB`, `findNextFreePort` | `OpenPort`, `RefusePort`, `FreePorts` |
| `kdestroyport` | `SysPortDelete`, `Position` (the walk that does not advance `prev`) |
| `kkillproc`, `kdestroyallports` | `SysStop`, `InUseAfterExit` |
| `ksendtoport` | `CanSend`, `ReceiverWaits`, `Deliver`, `BlockSender` |
| `krecvfromport` | `SenderPorts`, `FirstSenderPort`, `TakeMessage`, `BlockReceiver` |
| `signal` | `Wake`, `IsWaiting`, `Signal` |

A `blockedQ` of NULL, as in a PCB that was never blocked, is written 0: entry 0 of
the port table, whose list is always empty.

The two loops that move a list of processes take one step per iteration, with
`kpc` set to the loop; nothing else is enabled then, as interrupts are off.

Programs are arbitrary. A process may make any call of `Calls` at any time with
any argument of `PortArgs`, `Millis` and `SigArgs`; a run's `Calls` is the class
of programs it is about. Idle makes none: it is an empty loop.

`want` (the port a blocked receive asked for) and `due` (timer interrupts left
before a sleeper should wake) are history variables: no guard reads them, the
properties do.

Abstractions: message payloads, stack frames, output and `kmalloc` (taken to
succeed) are left out. A slot's fields that `create` does not reset keep their
value. Entry `NPORTS` of the port table is the memory past its end, which the
range test lets through; it is taken to be zero at start, as the image's
uninitialised data is. Signal handlers run with `eflags = 0`, hence without
timer interrupts, and return by `sigtramp`. Not modelled: `kdestroyport` on
numbers outside the table and `kill` of pids outside it (undefined reads), user
code that makes SYS_SIG_RETURN itself.

### Scheduler and KernelScheduler

`Scheduler` knows a running process, a first-in first-out sequence of ready
ones and a set of parked ones. `KernelScheduler` maps the kernel's linked ready
queue to that sequence (the place of a node is the number of nodes it can be
reached from) and states `RoundRobin == Abstract!Spec`: each kernel step is one
`Spawn`, `Rotate`, `Park`, `Wake`, `Exit` or `Dispatch`, or none.

### Keyboard and TypeAhead

`Keyboard` EXTENDS `Kernel`: `DevNext` is a step of `Kernel`, a device call, or
a keyboard interrupt, over the queues that both change.

| Code | Definition |
|---|---|
| `di_open`, `kbd_open` | `SysOpen` |
| `di_close` | `SysClose` |
| `di_read`, `kbd_uread`, `Buffer_Read` | `SysRead`, `StartRead`, `Ahead` |
| `di_ioctl`, `kbd_ioctl` | `SysIoctl`, `StartIoctl` |
| `kbtoa`: shift state, translation | `StateAfter`, `CharOf`, `kbtoa` |
| `kbd_read`, by `request` | `KbdInt`: `KeepKey` (NONE), `ReadKey` (READ), `IoctlKey` (IOCTL) |
| `Buffer_Write` | `Buffer_Write` |

`requestBuffer` is the sequence of characters the driver has written through the
pointer of that name, so `requestInd` is its length; a write past the end of the
reader's buffer shows as a longer sequence. The echo is left out, and the two
devices, which share the driver and its state, differ in nothing else.

`TypeAhead` keeps a bounded first-in first-out sequence of characters and the
input of the current read. The mapping reads the ring buffer off from `btail`,
`nb` characters long; `bhead`, the two indices' wrap and the drain loop have no
counterpart, so `KeysInOrder` shows that they agree.

`Careful` and the arguments describe the programs. `DevUsers` are the processes
that use devices; a careful program reads and controls only descriptors it has
open. The run `keyboard_read`, with `Careful = TRUE`, reads longer than what can be
typed ahead (`Lens` above `BUFF_SIZE`), one user of the device and no ioctl, is
about the programs for which the queues survive: a failing read loses its caller
(disp.c:212), a short one readies the caller and stays requested (kbd.c:250), an
ioctl drops a process off the ready queue (di_calls.c:82). `OnePlace` fails for
programs that do these things (section 5). `keyboard_order` and `keyboard_ioctl`
allow them: the characters stay in order even when the queues do not survive.

### Memory

Addresses and sizes are bytes, as in the code; a header is its address, the
fields `size`, `next` and `prev` are functions of it. Address 0 is memory, as it
is on this machine: writes through NULL go there, and what no later step reads is
not kept. `used` (the blocks handed out) is the environment's knowledge: a block
is freed once, as `kkillproc` does. `kmalloc` and `kfree` are one step each;
`kmalloc` is `findFreeMemHeader` (first fit) followed by `Allocate`, and `kfree`
is `Insert` in front of the first free header behind the block, with both merges.

`kmalloc` itself is the code's, with its faults. `Careful` is about the programs: in
`Next` they then make only calls (`SafeCall`) for which the block found has
room for the header too and the free list does not become empty. Without it the
faults listed in section 5 lead to overlapping blocks and a NULL free list; the
calls of these sizes that lead there are in reach of the run and left out of it.

### Inflate, Huft and Crc

A file of `Images` is what the build links as `input_data`. A step is the header,
the header of a block, one code with the copy it makes, one byte of a stored
block, the tables of a dynamic block, or the trailer. The reads in between are
operators on the record `io` and return the record after them, with every refill
of `inbuf`; the writes work on the record `win` in the same way.

| Code | Definition |
|---|---|
| `fill_inbuf`, `get_byte`, `NEEDBITS`, `DUMPBITS` | the same, on `io`; `TakeBits` is the pair of macros |
| `get_method`, `memcmp` | `get_method`, `SkipFields`, `memcmp` |
| `inflate_block` | `Header`, `BadBlock` and the action of the block's type |
| `inflate_stored` | `inflate_stored`, `StoredByte`, `EndStored` |
| `inflate_fixed`, `inflate_dynamic` | the same, `ReadLength`, `BuildTables` |
| `inflate_codes` | `Literal`, `Copy` (`Match`, `CopyFrom`), `EndOfBlock`, `BadCode` |
| end of `inflate` | `EndBlock`, `PutBack` |
| `malloc`, `huft_free` | the same, on `heap`; `AllocTables` for the calls of `huft_build` |
| `flush_window`, `updcrc` | the same; a checksum is the set of its bits |
| `unzip` behind `inflate` | `Trailer` |
| `error` | `error`: `pc` becomes `"halted"` |

The end of the file is an error in `fill_inbuf`, which halts at once; here the
operators carry `eof`, and each action tests it before it keeps anything. The byte
that `fill_inbuf` takes from behind the file is 0. `memcmp` counts in a variable
that is never set: `get_method` chooses among the outcomes this can have.
`huft_build` can link a table it has not filled, or read a value that was not
set: what the heap held then decides, and the model goes to `"undefined"`, of
which it says nothing more. `NeverBootsWrong` is silent about such files; the
machine may do anything with them.

`Huft` keeps the algorithm of `huft_build`: the counts, the order of the values,
the code counted with its bits reversed, the stack of open tables, the search for
the size of a table and the backing up. A pointer to a table is its number.

### Doprnt, Doscan, Qsort, Console and Library

`Doprnt` and `Doscan` follow the routines branch by branch and return what these put or return.
`longflag` is 1 in the code as it is built, so of `_prt10` and `_prtl10` and their
like only the latter are there. Numbers have 16 bits instead of 32, with 5 decimal
digits and a `string` of 10 bytes for 10 and 20. `Library` calls them, one call per
behaviour, and states what they should return by independent definitions (the
number a numeral denotes, canonical codes).

`Qsort` takes one step per comparison of `qs1`. `frame` holds the locals of the
call that runs, `callers` those of the calls that wait for it, and each action is a
way through the body of the loop, from one comparison to the next; `Call` and
`Resume` are the two calls of `qs1` and the returns from them. Where the code jumps
to the label `loop`, element i is not compared again; it was before, with the same
outcome, so the actions on the right test for it (`LeftStays`). An element is one
number instead of `qses` bytes, and an address the number of an element. `Closer` says
that the sort ends: every step leaves fewer places to be sorted, or fewer callers, or
fewer elements of the part to be compared. That it does not stop before (in every
state that is not `Finished` one of the actions is possible) is what the case
distinction of the loop comes to.

`Console` has one action, `kbmputc` for any character. The loop of the tabulator
in it is a function of the number of blanks put, whose first value at a stop is
where the loop ends. `Terminal` has lines, a line and a column, and no addresses; its
last line feed moves the lines up. `ShowsText` is the refinement: the place `crtat`
is the line and column, and the probe of the first call, which clears the screen
behind the hardware's cursor, has no counterpart. The run has no backspace and no
cursor just behind the screen: with these the console leaves the screen (section 5).

## 3. Runs

The `kernel_` runs use `MCKernel`. NPCB counts root and idle. Deadlock is
checked in these and in those of the keyboard and of `Memory`: the timer, or a call
to `kmalloc` or `kfree`, is always possible. It is not in `boot_inflate` and `c_library`: the
decompressor ends, and so does a call.

| Run | Bounds | Shows |
|---|---|---|
| `kernel_ipc` | 4 PCBs, 1 of 3 ports used | `OnePlace`, `PortsAgree`, `NoStrandedSender`, `NoMissedRendezvous` with create, exit, create/delete port, send, receive |
| `kernel_ports` | 3 PCBs, ports -1..3 of 2 | the same invariants over the whole range of port numbers, without port deletion; `ReceivesOnOwnPort` |
| `kernel_sleep` | 4 PCBs, sleeps of 0, 5, 10, 20 ms | `OnePlace`, `SleepSorted`, `OnTime`, `RoundRobin` |
| `kernel_signals` | 3 PCBs, 2 signals and both invalid numbers, pid counter modulo 2 | `TypeOK`, `OnePlace`, `PendingHasHandler`, `SigWaitNonePending`, `SignalsInTurn` |
| `kernel_liveness` | 4 PCBs, yield and sleep | `ReadyRuns`, `SleeperRuns` under `Fairness` |
| `keyboard_read` | 3 PCBs, 1 of them uses the device, ring of 2, reads of 3, keys a (press, release) and enter | `DevTypeOK`, `OnePlace`, `ReaderServed` with create, exit and yield |
| `keyboard_order` | 3 PCBs, 2 use the device, reads may fail | `KeysInOrder` |
| `keyboard_ioctl` | root and idle, reads may fail, ioctls | `KeysInOrder` |
| `memory_stacks` | 10 paragraphs below the hole and 7 above, stacks of 16, 20 and 48 bytes | `TypeOK`, `BlocksDisjoint`, `FreeListLinked`, `Coalesced`, for calls that are safe (`Careful`) |
| `boot_inflate` | window of 16, input buffer of 10, room for a few tables; eight files, four of them with each of their bits wrong, two cut off at each byte | `InflateTypeOK`, `OutputIsPrefix`, `NeverBootsWrong`, `TablesInFreeMemory`, `GoodFileBoots` |
| `c_library` | 16-bit words around the powers of 2 and 10, widths up to the limit and past it, arrays of up to 6, all code lengths up to 4 of up to 5 symbols and some longer ones, a screen of 2 lines of 4 | `NumeralsRight`, `FieldsRight`, `ScansBack`, `Sorts`, `TablesRight`, `ShowsText` |

Why these bounds are enough to be interesting. Two user processes beside root
give a queue of length three (front, middle and end are different) and a third
party to every rendezvous; a sleep of 0..2 ticks gives sleepers that are due
together, before and after each other, and on insertion in front, in the middle
and behind. One port is enough for the protocol between one sender and one
receiver, and more ports are where `PortsAgree` fails
(section 5); `kernel_ports` and `kernel_ipc` are the two classes of programs for
which it holds: those that never delete ports one by one, and those whose
processes own one port. `ReceivesOnOwnPort` is checked where there are several ports:
a process exits with a port open, its PCB is reused by one that blocks on another
port, and a message is sent to the first. `PidCycle` is 1 or 2 instead of 100 so that a pid is
reused within the run.

A ring of two characters wraps and overflows within three keys, and is filled
while nobody reads, drained by a read that goes on, and reset by an open while
another process reads. The 17 paragraphs of `memory_stacks` hold up to eight
blocks on two sides of the hole: blocks are freed before, behind and between
free ones, merged with either or both, and used up with and without a rest; the
size 20 is the one that is rounded, and the image ends off a paragraph.

A window of 16 is crossed by copies at both ends and flushed in the middle of a
match, and an input buffer of 10 is refilled inside codes, headers and the
trailer. The files have every type of block, several blocks in one file, an empty
block, repeated lengths of each kind, a distance code of one bit, distances shorter
than the length, optional header fields and a heap that runs over into the input;
some end with a byte read ahead, `Ahead` just behind a refill. The
decoding tables of the real sizes (9 and 6 bits) are built for them; sizes of 1 to 3
bits, which nest deeper, are in `c_library`. `TablesRight` asks that the symbols be found where the decompressor
relies on them (`Relied`): codes no longer than twice the bits of the root, which
are all it has with 9 and 6 (15 bits against 18, 12 and more only in complete
sets), or complete sets that are no larger than the root table. For other lengths
see `IncompleteRight` in section 5.

### Fairness

`Fairness` is `WF(KernelLoop)`, `SF(TimerInt)` and `SF(SysSigReturn)`. The
kernel runs its loops to their end, with interrupts off. The 8259 latches a
timer interrupt until the processor takes it, so a timer that is enabled again
and again is taken: strong fairness. Signal handlers are assumed to return; a
handler that does not keeps interrupts off for ever, and nothing can be said.
User processes are owed nothing: they may compute for ever between calls.

The decompressor is alone on the processor, so it takes steps until it has ended:
`Fairness` of `Inflate` is weak fairness of `Next`, written out because a step is
possible just until `Ended`. `GoodFileBoots` is the only property that needs it.

## 4. Proofs

The theorems about `Kernel` hold for every value of the constants that satisfies
`SizeAssumption` and `ParameterAssumption`: any number of processes, ports and
signals, any set of calls, any arguments. Those about `Memory` hold for every
layout that satisfies `LayoutAssumption`, those about `Console` for every screen
(`ConsoleAssumption`), and those about `Qsort` for any integers (`SortAssumption`).

### Types and signals (`KernelProofs`)

* `TypeCorrect`: `Spec => []TypeOK`. `TypeOK` is inductive; what needs an
  argument is that `CHOOSE` finds something: the first later sleeper exists
  (`FirstLaterFound`: the set of PCBs from which all later sleepers can be
  reached is closed under `next`, unless it holds a later sleeper itself), and
  least free slots, free ports and positions exist (`MinExists`, by
  well-foundedness of strict inclusion on finite sets).
* `HandlersPresent`: `Spec => []PendingHasHandler`, inductive with `TypeOK`.
* `NoLostWakeup`: `Spec => []SigWaitNonePending`, from the stronger
  `WaitersHaveNone`, which does not ask the process to be alive.
* `HandledInTurn`: `Spec => SignalsInTurn`, an action property. `StepTakes` says of
  every step with which pending signals and active handlers the dispatcher
  reaches `prepare_sigtramp`: those of before, with a signal added, with the
  handler ended that returns, or without those of a PCB that is reused. The signal
  taken is the highest (`MaxExists`).

The first two signal theorems go through `StepEffect`: a step is *quiet* (raises no
signal, starts no wait) or is one of create, wait and signal.

### Where the processes are (`PlaceProofs`)

`OnePlace` speaks of chains (what can be reached from a queue head), and no step
of the code preserves a statement about reachability by itself. The invariant
is therefore a *labelling*: `WellLinked(M, lab)` in `QueueProofs` says that every
PCB has one label, the queue it is on or `Unlisted`, that heads and next pointers
stay within a label, that at most one pointer leads to a PCB and one does if it
is listed, and that there is no cycle. `ChainIsClass` turns the label back
into the chain. There is one lemma per queue operation (`AddToQueue`, `RemoveFirst`,
`RemoveFromQueue`, `SleepInsert`): it moves one PCB from one label to another.

`PlaceInv(lab)` adds to it

* `Placed`: the unlisted PCBs are those that `OnePlace` calls unqueued;
* `Clocked`: `due`, which the timer interrupt counts down, is `ticks` or one more
  for a sleeper and 0 for everybody else, and the queue is sorted by it;
* `Sweeping`: between the iterations of `tick`, the sleepers in front of
  `iterator` have been counted down and the others have not. With `Clocked` it
  gives that a sleeper that expires is the first of the queue, which is what
  `sleep_queue = iterator->next` takes for granted;
* `Dispatching`: the processor is with a live process, except while that ends;
* `SendersHeld`: only a port that is open, or whose senders are being moved, has
  blocked senders, so that setting `blocked_list` to NULL in `kcreateport` loses
  nobody;
* `Signalled`: the idle process has no handler, hence is never readied.

Each action has a lemma, and each lemma rests on one of four: the process stays
(`Stays`), leaves for a queue (`Leaves`), vanishes (`Vanishes`), or another one is
readied (`Readies`). `PlaceStep` puts them together; `ProcessesPlaced`,
`SleepersSorted` and `SleepersOnTime` follow.

Their hypothesis is `UnblockedTargets`: programs do not use signals, or do not use
the calls that block on ports. It cannot be dropped: a signal to a BLOCKED process
readies it twice (section 5, `signal_ready`). Every passing run of the kernel
satisfies it, and each side of it leaves all the other calls.

### The round robin (`SchedulerProofs`)

`KernelIsRoundRobin` proves the refinement `RoundRobin`. A labelling knows who is
on the ready queue, not in which order, so `Spells(M, lab, q, s)` says in addition
that the sequence `s` lists the nodes of `q` as its pointers do. Every lemma of
`PlaceProofs` about a step also shows `Turns`: the sequence before it becomes the one
after it by one of the `Moves`. These are the actions of `Scheduler`:

* nothing moves, or the process that ends leaves the processor (`Exit`);
* one process is appended (`Wake` if it lived before, `Spawn` if not);
* the front gets the processor: `Dispatch` after an exit, `Park` of a process that
  waits from now on, `Rotate` of the idle one, which is never queued;
* the running process is appended and the front, itself if alone, taken
  (`Rotate`).

`MovesAreTurns` proves this, and `PlaceOf` that the abstract queue, which
`KernelScheduler` defines by counting the nodes that reach a node, is that sequence.
The hypothesis is again `UnblockedTargets`: a process that is readied
twice (`signal_ready`) is not in any round robin. `ReadyQueueKept` is the other side
of that run: with the hypothesis `ReadyQueueGrows`, which the run refutes, holds.

### Ports (`PortProofs`)

`PortTables` says that lists hold open ports of their own process, each once, and
that port 0 is never opened; `Rendezvous` says of a process on the blocked queue
that it owns the open port it wants and that nobody is blocked on that. The two
are inductive with `PlaceInv`: only its owner closes a port, and the owner is
blocked. `NoMissedRendezvous` follows with no assumption on ports. It was model-checked
with one port number, or several and no destruction; the theorem has both.

`PortsAgree` and `NoStrandedSender` are false when a process with two ports destroys
the second (`DeletePort` in section 5), so the theorems
assume `SafeDeletes`: ports are not destroyed, or one port number is used.

`ReceiverOwnsPort` proves `ReceivesOnOwnPort` from the same invariants: only `Serves`,
a send that readies the owner of an open port, takes a process off the blocked
queue, and by `OwnersList` the owner of an open port lists it. That the port is the one
the receiver asked for is false with two ports (`RecvTwoPorts`), and with one there is
nothing to get wrong; no theorem claims it.

### Keyboard (`KeyboardProofs`)

`DeviceTypes` is the type invariant of kernel and driver together: indices stay in
the ring buffer, and a key that ends a read finds a process to wake
(`TargetKnown`). `KeyboardInOrder` proves the refinement `KeysInOrder`. Neither has a
hypothesis about the programs: they hold for any number of processes that open, read
and control the device, signals included, in any order.

The refinement rests on `RingInv`: `bhead` is `nb` places behind `btail` around the
buffer, and the state of the modifiers is one that `KeyChars` ranges over.
`KeyKept` is the step that counts: with room for one more character the index
written is none of those typed ahead, so `Ahead` grows by that character at its
end and by nothing else. All other steps leave `Ahead` alone, empty it or hand it
over; `OpenInOrder`, `ReadInOrder`, `IoctlInOrder` and `KeyInOrder` say which.

`DevicesPlaced` and `ReadersServed` prove `OnePlace` and `ReaderServed` for the composed
system. `Reading(lab)` joins the driver to `PlaceInv(lab)`: the processes on the
blocked queue are the one that is requested, if one is, and it waits for a key.
`KernelReading` takes the steps of `Kernel` over from `StepPlaces`; a read that blocks
is `BlockPlaces`, a key that ends it `ReleasePlaces`, as for ports. The hypothesis,
`SingleReader`, is that of the run `keyboard_read`, for any number of processes, any
size of the buffer, all keys and any longer reads. Each part of it is needed:

* no blocking on ports and no signals: a sender takes whoever waits on the blocked
  queue for a receiver, and a signal takes the reader off it while its request goes
  on (`KeyboardSignal`);
* one user of the device: a second reader overwrites the request, and the first
  waits for ever;
* only open descriptors: a read that fails loses its caller (disp.c:212);
* reads longer than the buffer: a read that is answered from what was typed ahead
  readies its caller and stays requested (kbd.c:250);
* no ioctl 53: it drops a process off the ready queue (di_calls.c:82).

A first attempt at `KeyInOrder` failed: the two guards of `StateAfter` overlapped for
code 224, where the code takes the first branch. The definition now has the order
of the code.

### Memory (`MemoryProofs`)

The properties of `Memory` speak of the headers a walk along `next` meets. The
invariant `HeapInv(F)` speaks of a set `F` instead: `ListOf` says locally that `F`
is a doubly linked list in the order of addresses that starts at `freemem` and
skips no member; `Apart`, that blocks in `F` and used ones lie one behind the other on one
side of the hole; `Merged`, that no free block ends where another starts. It also
keeps two words of memory at address 0, where the code writes through NULL: `size`
is 0 there, or `AddToFreeList` would merge a first block with it, and `next` never
points behind the first block.

`HeadersAre` shows that `F` is what the walk meets: each step climbs at least a
paragraph, so it ends within memory, and no member is passed over. From there on
the proof does not mention the walk. `kmalloc` has two cases, the block is split
(`SplitKeeps`) or handed out whole (`TakeKeeps`), `kfree` four, by the sides on
which it merges (`InsertKeeps`, `JoinNextKeeps`, `JoinPrevKeeps`, `JoinBothKeeps`);
they rest on lemmas about the list alone: a member replaced, removed or inserted.

The hypothesis of all these theorems is `Careful`, as in `memory_stacks`: every call is a
`SafeCall`. It cannot be dropped: `MemoryNoRoom` and `MemoryLastBlock`
(section 5) are what happens without it. With it no further bound is needed:
blocks lost behind the last free one (`MemoryLost`) do no harm to the others, and
neither do the up to 16 bytes that an unsplit block takes along and that nobody
gets back. The proof showed that these bytes were forgotten where the walk
was first bounded by the number of used blocks (free blocks need no used one
between them); the bound is now the number of paragraphs.

### Console (`LibraryProofs`)

`ConsoleIsTerminal` proves the refinement `ShowsText`, and `AlwaysOnScreen` that the
place of the next character never leaves the screen. Both hold for any size of the
screen, any distance of stops that divides a line, any characters and whatever the
memory of the screen holds at first; the run has one of 2 lines of 4.

The invariant, `ConsoleInv`, is small: the memory holds characters that are shown, and
`crtat` is a place of the screen, or still unset with the hardware's cursor not at
`COL * ROW`. The work is in the step. `Image(f, p)` is the terminal that a memory and a
place show, and whatever `kbmputc` does is put together from three things done to
the picture: k characters put on one line (`FilledPart`, and `FilledToEnd` when the
line is full), a new line with or without scrolling (`NewLine`, `ScrolledRows`), and
a return (`ReturnIs`). They need the arithmetic of places,
`p = COL * line + column`, which the lemmas from `DivMod` to `Further` provide once
for the others.

The code puts the blanks of a tabulator one at a time, each of which may scroll, and
stops by a test on the place; the terminal fills a line up to a column. `StopIs` says
that the place is at a stop first after `ToNextStop(p)` blanks, still on the line or
at its end. `AfterBlanksIs` follows the loop: among the numbers of blanks for which its
picture is not that of the line filled so far, there is no least one
(`LeastExists`, by well-foundedness of strict inclusion).

The two hypotheses are the bounds of the run, and each is needed: with a backspace,
`ConsoleBackspace`, or a cursor at `COL * ROW`, `ConsoleOffEnd` (section 5),
characters are put next to the screen.

### The sort (`LibraryProofs`)

`QsortSorts` proves `Sorts` for arrays of any length of any integers: when the sort
ends the elements are in order, each step keeps how often each element occurs and
brings the end closer, and the calls of `qs1` nest no deeper than the logarithm of
the length. The run sorts all arrays of up to 6 of four elements. There is no
hypothesis but that elements are integers and lengths natural numbers.

The invariant, `SortInv`, has three parts beside the types:

* `Divides`, of the loop: in the part a..l of the frame, what is before i is less than
  the middle lp..hp, whose elements are equal, and what is behind j is greater. There
  is a lemma for each way through the loop (`EqualLeftDivides` to `ToRightDivides`);
  that lp does not pass i and hp not j, so that all indices stay in the array, is in it.
* `Open`, of the array: the part of the frame and the rests of the callers are apart,
  and two places are in order unless both are in the same one of them. A step of
  the loop rearranges the part of the frame, which changes nothing for the others
  (`RearrangedOpen`); when the loop ends, `Divides` puts all pairs in order but those
  within one of the two sides (`SplitOpen`).
* `Nested`, of the calls: the part of a call at depth k is at most a 2^k-th of the array,
  because it is the smaller side that is called for. With it `Shallow` follows: a caller
  has two places at least.

TLC finds `SortInv` to hold for the arrays of the run, too. Without `Divides` nothing is
known when the loop ends, and without `Open` not that what the callers still have to
sort stays on its side of what is sorted.

An exchange or a rotation is a composition with a bijection of the part
(`Rearranged`), and a bijection keeps the number of places that hold an element
(`CountsKept`), whatever the array; nothing is counted by recursion. The facts about
powers of 2 that `Shallow` needs come from the number of subsets of a set
(`PowerDoubles`), as induction over the exponent is not available.

### Not proved

What stays with TLC:

* liveness (`ReadyRuns`, `SleeperRuns`, `GoodFileBoots`): reasoning under fairness is
  out of the prover's reach;
* `Inflate`, and formatted output and input and the decoding tables in `Library`,
  which are recursive throughout: what they compute is a matter of induction over data;
* that the sort is never stuck before it has ended, which is a matter of ENABLED; `Closer`
  bounds the number of its steps.

## 5. Where code and documentation disagree

Each of these configurations checks one statement of a comment, header or test,
which the code does not keep; TLC shows how. The first is a run of the project.

| Run | Statement | What happens |
|---|---|---|
| `signal_ready` | "Adds a PCB to the end of the specified queue" (h/xeroskernel.h:178) | a signal to a woken process that is still marked BLOCKED appends it to the ready queue a second time and cuts off what is behind it |

The following state further promises in the same way. They are
not among the project's runs; `tlc -config <cfg> <module>` shows the
counterexample of each, with `-continue` where a configuration has two.

| Configuration, module | Property | Statement | What happens |
|---|---|---|---|
| `BlockedState`, `MCKernel` | `BlockedInItsQueue` | "If blocked, pcb is in this blocked_queue" (h/xeroskernel.h:114) | `addToQueue` on an empty queue skips the state: a woken process stays BLOCKED |
| `DeletePort`, `MCKernel` | `PortsAgree` | "Linked list of ports owned by the process." (h/xeroskernel.h:111) | deleting a port that is not first drops those in front of it (c/msg.c:136) |
| `RecvAnyPort`, `MCKernel` | `RecvAnyTakesMessage` | "if port number is 0, check blocked queue for every port" (c/msg.c:94) | entry 0 is never in use, so the receive always fails |
| `RecvTwoPorts`, `MCKernel` | `RecvGetsItsPort` | "if receiver is waiting on the blocked_queue with same port number" (c/msg.c:61) | the owner is woken whichever port it waits for |
| `PortPastEnd`, `MCKernel` | `PortsInTable` | "greater than or equal to 0 and less than %d" (c/msg.c:22) | the entry past the end is accepted |
| `MemoryLost`, `Memory` | `FreedIsFree` | "Inserts a free memory node into the freemem linked list." (c/mem.c:143) | a block behind the last free one is not inserted: its memory is lost |
| `MemoryNoRoom`, `Memory` | `CutFromFree` | "check to see if remaining space in free memheader is enough for more memory" (c/mem.c:65) | the search (c/mem.c:119) ignores the header and the rounding: a block is given a size that reaches into its neighbour |
| `MemoryLastBlock`, `Memory` | `FreememIsNode` | "Should always be the first node in the linked list." (c/mem.c:15) | using up the only free block leaves `freemem` NULL (c/mem.c:73) |
| `KeyboardOverrun`, `Keyboard` | `ReadFits` | a test with "more characters in the kernel buffer than" the read has requested (testdoc.txt:74) | all characters typed ahead are written, past the reader's buffer (c/kbd.c:247) |
| `KeyboardRelease`, `Keyboard` | `ReadsCharacters` | "Output: 12345" (testdoc.txt:83) | key releases are typed ahead as NUL (c/kbd.c:195) |
| `KeyboardClose`, `Keyboard` | `ClosedIsQuiet` | "Disables keyboard interrupts." (h/kbd.h:14) | `di_close` never calls `kbd_close` |
| `KeyboardEof`, `Keyboard` | `EofSetOnce` | "Allows application to set EOF character." (h/kbd.h:26) | the request stays IOCTL: every later key sets it again (c/kbd.c:222) |
| `KeyboardSignal`, `Keyboard` | `NoReadGoesOn` | "interrupt of a read by a signal" (a3-marking.txt:44) | the read goes on after the signal, and the key that ends it readies the process again (c/kbd.c:205) |
| `BootMagic`, `MCInflate` | `MagicIsKnown` | "Magic header for gzip files, 1F 8B" (boot/zBoot/gzip.h:137) | `memcmp` counts in a variable that is not set (boot/zBoot/misc.c:183-185): the right number can be taken for a wrong one, and the system halts |
| `BootName`, `MCInflate` | `GoodFileBoots` | "original file name present" (boot/zBoot/gzip.h:146) | the name is not skipped (misc.c:420, `to_stdout` is 0) and is taken for the first block; the build avoids it by compressing standard input |
| `LibraryTables`, `MCLibrary` | `AllZeroIsInvalid` | "two if the input is invalid (all zero length codes or an oversubscribed set of lengths)" (boot/zBoot/inflate.c:110) | lengths that are all zero return 0 and no table (inflate.c:141-146) |
| `LibraryTables`, `MCLibrary` | `IncompleteRight` | "one if the given code set is incomplete (the tables are still built in this case)" (inflate.c:108) | where lengths jump by more than a table, one is linked that is larger than it was filled for, and a code is not found; the callers refuse such sets |
| `LibraryPrinting`, `MCLibrary` | `LeftZeros` | "Allow for zero-filled numeric outputs" (lib/libxc/doprnt.c:69) | with "%-0" the zeros go behind the number: 5 prints as 500 |
| `LibraryPrinting`, `MCLibrary` | `BinaryFits` | "The string str points to this output from number conversion" (lib/libxc/doprnt.c:42) | a binary numeral of more than 19 digits is longer than `string` |
| `ConsoleBackspace`, `Console` | `OnScreen` | "write one character to the physical monitor" (c/kprintf.c:122) | a backspace at the first place moves in front of the screen |
| `ConsoleOffEnd`, `Console` | `OnScreen` | the same | the hardware's cursor just behind the screen is accepted by `<=` (c/kprintf.c:152), and the first character is put there |

The first table is why `OnePlace` is not claimed for programs that both use ports
and send signals.

## 6. Plan

Modelled: the queues and the kernel proper, the keyboard over them, the memory
manager, the boot decompressor, the pure routines of the library and the console.
Next, in this order:

1. `SigTramp`: the frames `prepare_sigtramp` pushes and SYS_SIG_RETURN pops, with
   nesting and the return value, against the stack limits `create` sets.
2. `Rendezvous`: an abstract specification of ports (a bag of waiting senders,
   a waiting receiver), with `Kernel` restricted to one port per process shown to
   implement it.
3. `Stacks`: process creation and exit composed with `Memory`, a failing `kmalloc`
   included.
4. The whole of `kbtoa`, over all scan codes, against the keys that are held down.

Not modelled, for the reasons given in PROJECT.json: the boot sectors, build tools
and machine set-up; the string functions and assembler of the library; the PKZIP
branches of boot/zBoot/unzip.c, which nothing reaches; the tables of descriptors
and vectors; user programs other than as arbitrary ones.
