# sysprog-os: models and proofs

sysprog-os (`src/source`) is a small x86 kernel: processes with priorities, a
clock, a serial line and a console, a page and slice allocator, and an Intel
8255x ethernet driver with UDP messages on top. Programs enter it by system
calls through `int`; everything else that happens to it is an interrupt. A loader
brings it into memory from an image that a build tool makes, and some twenty
test programs come with it. This directory holds TLA+ models of its components, TLC runs over small instances of
them, and machine-checked proofs, for instances of every size: that process management keeps its
invariant and implements the tree of processes it promises; that the test programs which collect their
children leave none; that programs get back the context
they were interrupted with; that serial input and output and the keyboard keep their order; that the
network calls stay in step with the driver; that the page allocator is a pool of pages; that the
linked lists of the queue module are sequences; and that the loader brings programs to where the build was told to put them.

Read the code beside the models: a definition has the name of the C function it
translates, without the leading underscore, and `PROJECT.json` gives the lines.

- [1. The system](#1-the-system)
- [2. The modules](#2-the-modules)
- [3. What the runs check](#3-what-the-runs-check)
- [4. What is proved](#4-what-is-proved)
- [5. Where the code and its descriptions part](#5-where-the-code-and-its-descriptions-part)
- [6. What is not modelled](#6-what-is-not-modelled)
- [7. Plan](#7-plan)

To check something: `tlc -config MCKernel.cfg MCKernel.tla`; `tlapm KernelProofs.tla` and the like for
`InterruptsProofs`, `LineProofs`, `NetProofs`, `KmemProofs`, `QueueProofs`, `BootProofs` and the lemmas
that several of them share, `ListFacts`.

## 1. The system

### How the parts interact

`__install_isr` (support.c) installs every handler behind an *interrupt gate*:
the processor clears the interrupt flag on entry, and `IRET` sets it again. The
kernel is therefore never re-entered. A handler runs to its end before anything
else happens on the processor; only devices act meanwhile (a UART, a keyboard, a
network card with its own DMA). This one fact decides what is an action in the
models. A system call or interrupt handler is one action, unless it

- contains a loop whose iterations change the state one by one (`_clk_isr` over
  the sleep queue, `_dispatch` over killed processes, `_sio_isr` over pending
  UART events, `__cio_gets` over keys): each iteration is an action then, and a
  variable `cpu` names the loop, so that no other code can run; or
- talks to a device that can act between two accesses (`_eth_isr` reads the
  status byte and then writes it): each access is an action then.

The components call each other directly. `_schedule` and `_dispatch` are called
by all that block or wake a process; `_reading` is shared by the console and the
serial line; the ethernet driver calls back into `sysnet.c` when a frame came
and when a command ended; `process.c` and everything that needs memory call the
allocator. Blocked processes are marked, not unlinked, by `kill()`; each of the
places that later take a PCB off a queue calls `_schedule`, which ends a marked
process instead of making it ready.

What lies between a program and a handler is common to all: the stub of the vector
and `isr_save` put the program's registers on its stack, `__isr_restore` takes those of
the process that is current by then; and each handler ends with commands to one of the
two interrupt controllers.

### Inventory

| component | state | operations | what is hard | what makes it correct |
|---|---|---|---|---|
| process management (process.c, syscalls.c) | PCBs, `_ptable`, `_active_procs`, `_next_pid` | spawn, exit, wait, kill, sleep, setprio, `_force_exit`, `_pcb_cleanup` | delayed kills; zombies and reparenting; PCBs reused while queues might still point at them; who reports to a parent that is about to wait | a PCB is on the one queue its state names; each child is reported exactly once, to its parent; every process has a living parent; the tree is rooted at init |
| scheduler (scheduler.c) | `_ready`, `_current`, the slice | `_schedule`, `_dispatch` | `_dispatch` panics if no process is ready; it ends killed processes as it meets them | something is always ready; a process of the highest level gets its turn |
| clock (clock.c) | `_system_time`, `_sleeping` | `_clk_isr` | the counter wraps; several sleepers are due at once, one the parent of another | nobody due is left asleep; the queue stays ordered; sleepers wake |
| serial line (sio.c) | two circular buffers, `_sending`, `_ier`, `_reading` | `_sio_isr`, `_sio_reads`, `_sio_write`, `_sio_writec` | interrupts on and off with the transmit sequence; indices that wrap at three places | characters go through in order and once; nobody sleeps beside data; output drains |
| console input (cio.c) | circular buffer, modifier flags | keyboard handler, `__cio_getchar`, `__cio_gets` | full and empty; polling with interrupts off; sharing `_reading` with the serial line | keys are read in order; the shared queue stays consistent |
| console screen (cio.c, klibc.c) | cursor, scroll region, video memory | putchar, puts, write, printf, scroll, setscroll, moveto, the `_at` family, sprint | delayed scrolling; borders of the region; both ends of the numbers | the region shows the last rows of the text; output keeps to its side of the border; printed numbers read back |
| ethernet driver (eth.c) | ring of command blocks, 50 nodes (`MAX_COMMANDS`), `_cu_waiting`, `_current_cmd`, receive descriptor | `_eth_tx`, `_eth_loadaddr`, `_eth_isr`, `_eth_allocate_CBL` | a ring of blocks of varying size; nodes and ring run out separately; status bits that come up while others are being acknowledged | commands run in order and complete; no node is lost; an idle unit is never waited for |
| network calls (sysnet.c) | `_cmd_process_q`, `_recv_list` | netsend, netrecv, setMAC, three callbacks | a queue of processes that must stay in step with the driver's queue of commands; killed processes in slots | a completion wakes the process whose command it was; a datagram wakes all who wait for it |
| headers (link.c, ip.c, arp.c, transport.c, net.h) | `_ip_addr`, `_eth_MAC` | add header and parse frame at three layers, checksums, ARP reply, `htons` | byte orders, odd lengths, carries, short frames | what is wrapped is unwrapped; the UDP checksum verifies |
| queues (queues.c) | linked lists, free nodes, free queues | alloc, enque, deque, peek, length | ends of the lists; insertion in front, between and behind; nodes that change lists | a queue is a sequence, in the order of arrival or of keys |
| memory (kmem.c, stacks.c) | free list, slice list, stack list | page and slice alloc and free, stack alloc and free | splitting and joining of blocks; memory maps that are cut off | nothing is given out twice; a request fails only if no run of pages is long enough |
| interrupt entry and exit (isr_stubs.S, support.c, process.c, ulibs.S) | contexts on the stacks, registers, in-service bits of two controllers | stubs, `isr_save`, `__isr_restore`, the context and stack of a new process, the end of interrupt in each handler, `exit_helper` | the layout of the context is known in four places; stacks are recycled; a non-specific end of interrupt ends whatever is highest | a program goes on as it was; a call's arguments are what was passed; every request is served |
| build and boot (BuildImage.c, bootstrap.S) | image, table of programs, place on the disk, place in memory, memory map | put a program into the image; read a sector, retry; ask for a region | segments of 64K, geometries, a table that grows downwards; answers of the BIOS that end the list in several ways | programs are where they should be; the map is what was reported |
| programs (userland/) | their place in the code, children's PIDs | spawn, wait, kill, sleep, exit, ... | orphans, refused children, kills, loops that end with an error | what ends is collected; the system comes to rest |
| rest of the start (kernel.c, startup.S), PCI, libraries (ulib*, klib*) | descriptor tables | initialisation; copying and comparing | | not modelled, but for the number conversions |

The hazards that follow from this, with their lines, are under `hazards` in
`PROJECT.json`; the properties below are chosen for them.

## 2. The modules

```
 ProcTree  <== Kernel <- KernelClaims <- MCKernelClaims
                 ^ ^---- MCKernel <---------'
                 +------ Programs <- MCPrograms
                            ^------- KernelProofs
 Sio <- SioClaims <- MCSio
  ^---- Console <- ConsoleClaims <- MCConsole
          ^----- LineProofs
 EthCbl <- EthClaims <--+
  ^------- SysNet <- SysNetClaims <- MCSysNet
             ^---- NetProofs
 Pic <- Interrupts <- MCInterrupts
          ^----- InterruptsProofs
 Boot <- BootClaims <- MCBoot
  ^---- BootProofs
 PagePool  <== Kmem <- MCKmem
                 ^---- KmemProofs
 SeqQueues <== Queue <- MCQueue
                 ^----- QueueProofs
 Headers <- MCHeaders
 Format <- Screen <- MCConsole
             (<- is EXTENDS; <== is "is implemented by"; LineProofs, NetProofs,
              KmemProofs, QueueProofs and BootProofs also extend ListFacts)
```

**Kernel** is process management, the scheduler and the clock in one module,
because their handlers change each other's state. Fields of `pcb_t` are functions
on the set `Pcb` of PCBs (`state`, `pid`, `ppid`, `prio`, `wakeup`,
`exit_status`); RET and the status word that a call leaves in the caller's memory
are `reply`; `_ready`, `_sleeping` and `_reading` are sequences; `ptable` is the
set of PCBs in the table, since slot order matters nowhere. One action per system
call and outcome (`sys_spawn`, `sys_spawn_full`, `sys_spawn_no_memory`; `sys_wait_block`,
`sys_wait_collect`, ...), `clk_isr_tick` and one action per iteration of its loop,
and the iterations of `_dispatch`. Every caller of `_dispatch` does nothing to
this state afterwards, so it ends by setting `cpu` to `"_dispatch"`.
Programs are arbitrary, with the restrictions below.

**ProcTree** is what process management promises: creation by a living process,
one end, one collection by a living parent, children handed to init. `Kernel!TreeSpec` is the
refinement: the parent function and the zombies of the tree are read off the
PCBs in the table, found by PID.

**Programs** puts the programs of `userland/` on top of `Kernel`: a script, by program, of the
system calls it makes, and the actions of `Kernel` that answer them. A script is a sequence;
a loop whose end depends on an answer (userI, main6, init) is an entry that is looked at
when the call before it has been answered. Loops with a count are unrolled. What a program
writes, and how long it computes, is left out; it can be interrupted between any two calls.

**Sio** is the serial line with the read and write calls on it; the UART is a
receive FIFO and a holding register. History variables record what arrived, was
handed out, lost, written and sent. **Console** extends it with the keyboard and
read on the console, because the two share the queue of readers.

**EthCbl** is the driver: the ring by its two indices, the nodes with the blocks
they own, the queue of waiting commands; the device is a command unit that runs
one node, a receive unit with one descriptor, and the status byte. It is a library of
actions with holes for the callbacks. **SysNet**
extends it with the system calls, fills in the callbacks (`eth_isr_frame(sysnet_recv_cb)`), and
is the specification of both.

**Pic** is the pair of 8259 controllers, external to the code: requests, the lines in service,
priorities, non-specific ends. **Interrupts** is what happens around every handler. A stack is a
sequence of words and a saved context a part of it, at the offsets of `context_t`; `Pushed` is
what the processor, the stub and PUSHA push. Handlers do to processes what `Kernel` allows, less
precisely (any ready process is dispatched, any blocked one is woken), and end with the
commands that each really sends. `expected` remembers what an interrupted program is owed.

**Boot** is both ends of the image: `process_file` and `main` of BuildImage write sectors and
the table, `nextblock`, `readcont` and `retry` of the bootstrap read them into memory,
`check_memory` and `cm_loop` fill the table of regions. The widths of the machine are constants.

**Kmem** is the allocator with addresses counted in slices of 1K: the free list
as the sequence of its blocks, slices and stacks as their lists, and what clients
hold. **PagePool** is its abstract specification: a set of free pages in which
runs are taken and to which pages are given back.

**Queue** is the queue module as it is stored: the links of each node, the fields of
each queue, both free lists. **SeqQueues** is what it stands for: one sequence of
entries for each queue.

**Headers** is the byte-level code of the four header modules and `htons`, as
operators on sequences of bytes, with actions that wrap a message, cut the frame
anywhere and unwrap it at any address.

**Format** has the conversions and the padding that printf and sprint share, and
`str2int`, which reads numbers. **Screen** extends it with video memory, the scroll region
and the cursor. Its variable `paper` is a reference for what output should look like: rows without
end, on which nothing scrolls.

The `...Claims` modules state what a comment, an assertion or a manual page says
and the code does not do (section 5). The `MC...` modules and their `.cfg` files give
TLC its instances. Definitions marked `Defect:` are plausible mistakes in the
definition of the same name; each property is known to fail under one of them.

### Hypotheses

They are stated as constants or guards and hold for every result below.

- Programs do not `kill()` init or idle (`Protected = {1, 2}`). The code does not
  stop them; section 5 says what happens then. userI can do so when it got fewer than four
  children: it kills the PID in an entry of its array that was never set (userI.c:62). In
  `Programs` that entry has any value, these two excepted.
- init spawns idle with its first call, at the lowest level, and this succeeds.
  init then only spawns and waits; idle makes only calls that return at once
  (userland/init.c, idle.c).
- PIDs are unique: at most `MaxPid` are given out (the code's counter has 16 bits).
- The pointers that programs pass are good.
- The memory map is a list of regions that start on page boundaries and do not
  touch or overlap, as a BIOS reports them (`RegularMaps`, which TLC evaluates for the maps of
  `MCKmem`); clients of the allocator give back what they were given, once. `_add_block` neither rounds a
  base up nor joins regions that touch.
- The programs are those of `users.c`, spawned by init in any order and number (`Boots`). They exit with 0, their PID, the number of spawns that were refused (userH) or the error for
  an unknown call, which must be among `ExitStatuses`, and run at levels that there are (`ExitsAssumption`, `LevelAssumption`).
- The card is behind the secondary controller (`EthLine \in 8 .. 15`): its handler ends the
  interrupt there only. A device does not ask again before the processor is done with the
  requests that are pending and has executed an instruction of a program (`asked` in `Pic`).
- A command line of the build is regular (`RegularLines`, which TLC evaluates for those of `MCBoot`): its table does not
  fill the zeros to the last, no file is empty, a program that is accepted lies in memory, none overlaps another,
  and one that is larger than the rest of its segment has an offset that is a multiple of a sector (`Straight`). Section 5
  says what happens otherwise. Programs lie above the loader and its buffers, and a track has at least two sectors: the loader itself begins
  with the second one.

## 3. What the runs check

Deadlock is checked in `kernel`, `programs` and `interrupts`: the timer can always
interrupt user code, so the system never stops; and in `queue`. The other configurations set
`CHECK_DEADLOCK FALSE`: their models do stop, when every process is blocked, when the
bounds on what arrives and is issued are used up, or after the code has panicked
or done something undefined.

Sizes and times are of two TLC workers. The last two runs are expected to find a violation: they are
two of the deviations of section 5, kept as findings.

| run | distinct states | time | question |
|---|---|---|---|
| `kernel` | 267 000 | 83 s | do all interleavings keep table, queues, tree and reports consistent; do sleepers wake; is the top level served? |
| `sio` | 1 656 000 | 110 s | do characters go through in order and once; does output drain? |
| `console` | 417 000 | 100 s | is keyboard input in order beside the shared queue; does the screen show what was written, and do printed numbers read back? |
| `sysnet` | 1 016 000 | 160 s | do commands run in order and complete, nodes and ring at their limits, and callers wait in step with the driver, and wake? |
| `interrupts` | 357 000 | 105 s | do programs get their context back, is every request served? |
| `programs` | 78 000 | 35 s | do the baseline programs end, and is everyone collected? |
| `boot` | 820 000 | 11 s | are programs and the memory map where and what they should be? |
| `kmem` | 523 000 | 22 s | is the allocator a pool of pages; is nothing shared or lost? |
| `queue` | 307 000 | 105 s | are the linked lists sequences; is every node and queue in one list? |
| `headers` | 33 000 | 46 s | does a message survive wrapping and unwrapping; are replies and checksums right? |
| `headers_ipv4` | violation | 1 s | does the IPv4 checksum verify? |
| `headers_htons` | violation | 1 s | is every address read, the longest too? |

### kernel

Four PCBs, a table of four, two levels, a slice of two ticks as in the code, a clock that
wraps after 4, sleeps of 1 to 3 ticks, two exit statuses, PIDs up to 4. That is init, idle and
two programs at a time; a program that is collected leaves its PCB to the next, whose
neighbours may still be queued; the table fills up; a failed spawn uses up a PID; grandchildren
are handed to init in every state; wakeup times wrap. An action constraint, `FirstFree`, lets
the set of free PCBs decide which one spawn takes: free PCBs are cleared and differ in their
names only. It stands in for a symmetry set, which TLC does not support with liveness; a PCB in
use keeps its name, so a liveness property, which follows one process, loses nothing.
Four PCBs leave out a program with two children and a tree of depth four; a fifth makes the
state space more than a hundred times as large. The theorems of section 4 have no such bound.

- `Placement`: the PCB's state, its priority and the queues agree. This is the
  property that a delayed kill, a setprio or a freed PCB would break, and
  it needs several calls of different processes to be broken.
- `DispatchFinds`: whenever `_dispatch` looks, it finds a process.
- `TableConsistent`: table, count, PIDs; so the search for a slot in spawn
  succeeds whenever the count says so.
- `ParentAlive`: the assertion in `_force_exit` holds.
- `WaiterHasWork`: who waits has a child and has missed none, init excepted.
- `AllDueWoken`: the loop over the sleep queue, whose order is part of `IInv`,
  across the wrap.
- `ReportedWhenGone`: a process leaves the table only by being reported to its parent of
  that moment.
- `StatusDelivered`: with the status it gave exit(). The status passes through several hands: exit() leaves it
  with the zombie, or with the parent that waits already; a zombie keeps it, whatever happens to its parent,
  until somebody's wait() has it; and the answer is not overwritten before that parent runs. One that is
  killed while its parent waits is reported with the status of killed processes. What a killed zombie
  reports is not covered: it is no status anybody gave (`KilledStatusKept`, section 5).
- `KilledNeverRuns`: no wakeup, dispatch or second kill revives a marked process.
- `IInv`: the inductive invariant of section 4; it contains the type invariant and the
  order of the sleep queue.

`TreeSpec` is the refinement; `SleepersWake`
and `SystemServed` assume that the clock keeps interrupting:
`SF(clk_isr_tick)`, because interrupts are enabled again whenever user
code runs, though a program that calls the kernel without pause disables them again
and again; and that the kernel's loops run on, `WF(Clock)` and `WF(Dispatch)`. Programs owe
nothing. Strong fairness of the tick is what the hardware does: a pending
request stays pending until it is served. Serial interrupts could in principle
crowd it out; the 8259's priorities exclude that, since the timer has the
highest.

### sio and console

The serial line first: buffers of 2 characters, a FIFO of 2, four characters in and four out, two processes, reads
of 1 and 2 and writes of 1 to 3 characters: both buffers wrap, fill, and overrun
within these bounds; the input buffer also runs past its end (section 5), so the
order properties say `~overrun =>`. Lines do not begin with a line feed here, the
case that section 5 reports. Any character may come with the FIFO's timeout, and is dropped then (sio.c:178-182):
it counts as lost, and a reader may wait for the next one; no property promises it. `OutputDrains` assumes that the UART sends what it holds
(`WF(Transmit)`), that its interrupt is taken (`SF(sio_isr_enter)`, as above) and that the handler
runs on. That the interrupt is taken needs programs that make system calls and a quiet network
card: see `interrupts`. Two of the claims are one property, `InputServed`: characters reach readers in order
(`InputInOrder`), and nobody waits while there are any (`NoWaitWithData`); likewise `KeysShared` in
`console`.

The console run is about both halves of cio.c, which share no state: TLC chooses one at the start (`half`). The
keyboard has a circular buffer of two cells (one usable) and three keys, one of which ends the line; the serial
line beside it has one character, for the queue of readers the two share.

The display is a screen of three by three cells, one letter, new line and return; scroll regions that are the whole
screen, the lower right corner and one line; positions inside, outside and off the
screen; a padded text that wraps in every one of these regions, one adjusted to the left, and a format
with a new line. At most four rows of text are begun without the cursor being moved, so the region
scrolls in the middle of a text, and a region of one line several times. `ShowsText` compares
the region with the last rows of the paper. `BordersKept` is about the cells on the other side
of the border. For `NumbersRead` fifteen numbers, among them the smallest and the largest,
are converted in three bases, four alignments and three widths.

### sysnet

The ring has 14 bytes, blocks of 4 and 5 (odd lengths are rounded up, once the
block wraps), three nodes, three commands by programs and up to two replies, two processes
that send, receive, set the address and kill each other, two slots, and two
frames of every kind: the ring wraps, is exactly full, overlaps (section 5), and nodes run
out. The card may raise a bit at any moment, also between the two accesses of the
handler to the status byte. `CommandsInOrder`, `NodesAccounted` and `UnitsServed` hold even then: the driver loses no
command, only memory, and no completion or frame but one whose bit came up in that window. `missed` has
those bits, so `UnitsServed` says that a unit is served unless that very bit is lost, and
`CallersWake` that a caller wakes unless its own completion or frame is; section 5 has what a loss
does (`AckLosesNone`). `CallersInStep` is about the two queues, as long as the driver refused nothing
(`QueuesInStep`), and about the processes, which wait in one place (`BlockedOnce`). `CallersWake`
assumes that the unit ends what it runs (`WF(CommandEnds)`), that the interrupt is taken and
that the handler runs on; it holds of killed processes too: they are taken off their queue and end.

### interrupts

Three machines: init and idle with a timer, a network card and a keyboard; the same with a
serial line in the keyboard's place; and a timer with a third PCB that is created, ends and is
created again on the stack of its predecessor. The three are needed because stacks, registers
and in-service bits multiply; a handler's interplay with others is a matter of two lines and the timer,
and what happens to contexts does not depend on which device it was. Words on the stacks are names, so that
a word found in the wrong place is seen.

- `ContextsKept` compares what `__isr_restore` gives a program with what it had when it
  was interrupted, or with what its creator asked for. The order of `context_t`, of the pushes, the
  offset of RET and the frame that `_proc_create` builds must agree for that.
- `ArgumentsRead`: the same for the way in: code and arguments, through the library's
  stub, from `main` by way of `exit_helper` too, where the scratch words above the frame of a new
  process are what keeps ARG(4) within the stack.
- `NoneInService`: in user code nothing is in service but line 2 of the primary controller, which
  the ethernet handler leaves there. Every end of interrupt therefore hits its own line.
- `RequestsServed` says what that costs. The timer and the keyboard have priority over line 2 and
  are always served. After a frame the card and the serial line wait for the next
  end of interrupt sent to the primary controller when nothing of higher priority is in service:
  the timer's and the keyboard's end themselves only, but the handler of system calls sends one
  too (syscalls.c), and that ends line 2. So both depend on programs that make system calls, and the serial line
  on a card that falls silent: section 5.

Fairness: the processor runs on (`WF(Kernel \/ Program)`), and takes an interrupt that is
pending, which it is again and again when programs run with interrupts on (`SF(Accept)`).

### programs

Every program that spawns, alone, and five pairs of the others, with a process table of five: two children at a
time, so that userI, userJ, userM and userN are refused some, orphan others and compete with
them for slots; counts are cut down (`Kids = 2`, four for userI, which kills its second and its
fourth child, six for userJ, one round of the rest). userH exits with the number of spawns it was refused. Ticks wrap. `Quiesces`: in the end only init, idle and the programs without an
end are there. It depends on kill(), on orphans, on init being told of them and on the error that ends a
loop: a zombie handed to an init that waits already (section 5) is collected all the same, because here the
parent that hands it on is itself a child of init, whose end wakes init. `ChildrenCollected`: userI and userT, which wait until wait() fails, have no child left
then. Fairness is that of `kernel`, and that a program that is dispatched again and
again comes to its next call: its delay loops are finite, and idle and the others that never end
owe nothing beyond that.

### boot

Memory of 128 bytes and some with segments every 4, 32 bytes for 64K, sectors of 8: all pairs of
programs at eight addresses, flat and as segment and offset, of sizes that end within a sector, with one and
cross one 64K boundary or two; four geometries, so that a track, a cylinder and the disk end
within a program; a limit below the end of memory, and tables that are full. Reads
fail at any time. The BIOS has up to four regions of every kind for two entries, and ends
its list in all the ways it may. `LoadedAsBuilt` joins the two programs: what one
writes into image and table is what the other makes of it. `MapAsReported` says
that the loops of the loader keep the valid regions, in order, and leave one out only when the table is full.
Three facts are outside of it: the word that holds the number of sectors is overwritten by the first entry (nothing reads it any
more); the number of entries is stored as 16 bits and read as 32 (kmem.c:292); and a BIOS with a single region
is taken to have failed (bootstrap.S:450).

### kmem

Two memory maps with regions cut off by the image's end and by the end of the
address space, with parts of pages, in ascending and descending order; requests of 0 to
3 pages, stacks of two pages, at most five slices and two stacks held. Four
slices fill a page, so a fifth carves a second one. `PoolSpec` says that the list of blocks
never hides a run of free pages: it needs `FreeListCoalesced`, after every order
of releases. `PagesAccounted` is that and `NothingShared`. The assertion on a failed slice allocation is the one that stops
the system by design.

### queue

Four queues, each FIFO or ordered as its client asks, carved from two slices of two; two keys and two data, which
are symmetric; three nodes, carved one at a time: insertion into an empty list, in front, between two
nodes and behind the last; removal of the only node and of one of several; nodes that go from one queue over the
free list to another; both free lists exhausted and refilled, the list of free queues with two members and with one. `LinksAgree` is about the
representation, `QueueSpec` (the refinement of `SeqQueues`) about the answers and the
order. Together with `Kmem`, which shows that a slice is never given out twice, it justifies that
the other models write queues as sequences.

### headers

Two addresses, MACs and ports chosen so that sums carry; payloads that are empty,
odd, longer than the padding and too long; frames cut off at every length; all
textual addresses over six numbers of one to three digits. `PacketsUnderstood` joins four statements:
a message arrives or is dropped (`MessageArrives`), its UDP checksum verifies (`UdpChecksumVerifies`),
its IPv4 checksum verifies when the sum drops no carry (`Ipv4ChecksumUncarried`; nothing is said of the others here:
that it verifies for all of them is `Ipv4ChecksumVerifies`, which the run `headers_ipv4` refutes), and a request for the address is answered (`ArpAnswered`). The states are calls,
so the number of states is the number of inputs tried. `HtonsReads` says that addresses of up to 14
characters are read; that all are is `AddressesRead`, which the run `headers_htons` refutes.

## 4. What is proved

`KernelProofs` proves, for every set of PCBs, table size, number of levels,
slice, clock width, set of sleep intervals and bound on PIDs:

| theorem | property |
|---|---|
| `Invariance` | `Spec => []IInv` |
| `TypeCorrect`, `PlacementHolds`, `DispatchAlwaysFinds`, `TableHolds`, `ParentAlwaysAlive`, `WaitersHaveWork`, `SleepQueueOrdered` | the safety invariants of `kernel`, and conjuncts of `IInv` |
| `GoneIsReported`, `StatusIsDelivered`, `KilledStaysKilled`, `AllDueAreWoken` | its action properties |

Besides the named assumptions in `Kernel` (the constants' types, and at least
one tick, one process and `MaxPid >= 2`) they use `KillSpares`, which each theorem
assumes by name: `{1, 2} \subseteq Protected`.

**The inductive invariant.** `IInv == TypeOK /\ TreeInv /\ Placement /\ SleepOrdered /\
SliceLeft`. The safety invariants are not inductive by themselves:

- `ParentAlive` needs to know that init is there to hand children to: `Rooted` says
  that init keeps its PCB, its PID and is never asleep, marked or dead, and that a
  parent is older than its children. The latter keeps a process from being its own
  parent, in which case handing over its children would change the very PPID by which
  its parent was found.
- `DispatchFinds` needs `IdleAlive` and `Placement`: idle is ready or running, and
  who is ready is on a queue. Before idle exists it is init that is always there, so
  init must not wait yet (`Rooted`).
- `Placement` needs `TableConsistent`: a PCB that spawn takes is on no queue because
  unused PCBs are on none; and `OneRunning`, because the current process is about to be put on
  a queue.
- `TypeOK` needs `SliceLeft`: the tick counter is decremented before it is tested.
- `SleepOrdered` needs `Placement`: a sleeper's key may only be changed while it
  is on no sleep queue.

**Layout.** `KernelProofs` begins with the facts about queues: what `Append`, `Tail` and ordered insertion
do to "is on", "is on once" and "is ordered", first for one sequence, then for the
placement of all PCBs. To this end a placement is stated with one process *in hand*
(`PlacedBut`): it has been taken off its queue, or was running, and is not on the next one yet. Each
step is then a taking and a putting, and each of those is a lemma
(`TakeReady`, `TakeSleeping`, `TakeReading`, `PutReady`, `PutSleeping`, `PutReading`,
`MarkKilled`, `LetGo`).
It then shows once that `_force_exit` and `_schedule` preserve the tree
(`TreeForceExit`, `TreeSchedule`) and the queues (`QueuesForceExit`,
`QueuesSchedule`); the steps of the calls and the handlers (`StepExit`, ... , `StepDispatchRun`) use those,
`NextIInv` puts them together, and `Invariance` adds the temporal step.

### Kernel implements ProcTree

Its last part proves `ImplementsTree`, `Spec => TreeSpec`, also under `KillSpares`. The tree is read off the table by
PID: that this is a function, and what a step does to it, rests on `TableConsistent` (`TreeRead`). Each handler
is then one step of the tree or none: `sys_spawn` is `Create`, an exit or a kill of a ready or sleeping process ends it,
and the end collects it in the same step when its parent waits (`EndCollected`); `wait` and the end of a
child collect (`Collect`), and everything the clock, the serial line and `_dispatch` do leaves the tree alone. That
the parent that collects is alive is `ParentAlive`, part of `IInv`.

### Interrupts and contexts

`InterruptsProofs` proves, for every set of PCBs, every collection of machines and every line of
the network card:

| theorem | property | assumes |
|---|---|---|
| `NothingInService` | `NoneInService` | `EthLineAssumption` of `Pic` |
| `ArgumentsAreRead` | `ArgumentsRead` | `PcbAssumption`, `EntryAssumption` |
| `ContextsAreKept` | the action property `ContextsKept` | the same |

`NoneInService` speaks of user code and says nothing of the handlers,
which bring it about: an end-of-interrupt names no line and ends the highest that is in service. The
inductive invariant `InService` therefore says what each handler finds there: its own line, and below it
perhaps line 2, which a serial interrupt cannot find (line 2 is above it and would hold it back), nor one of the card
(it cannot be passed on then). `StepInterrupt` shows that it is so on entry, one lemma for
each kind of handler that its command ends no other line, and the vectors, being distinct, say which
handler it is (`OneHandler`). Nothing is needed about stacks, contexts or processes.

The other two rest on `ContextInv`. Of every process that is not running it says that its saved context is the top of
its stack, below it the stack it expects, in it the registers it expects (`Holds`); of every process, that its stack
keeps the words `_proc_create` put there and, inside a stub of the library, ends with the arguments of the call
(`Framed`); and that a process inside exit() is the current one, in the handler (`Exiting`): when main() returns into
`exit_helper`, the frame of exit() is a word shorter than that of a call that comes back. `EntryAssumption` says that no program
begins at the address of a stub.

### The serial line and the console

`LineProofs` proves, for buffers and FIFO of any size, any processes and any lines and keys:

| theorem | property | assumes, besides the types of the constants |
|---|---|---|
| `InputIsServed` | `InputServed` | no read of length 0 |
| `TransmitterIsArmed` | `TransmitterArmed` | |
| `OutputKeepsOrder` | `OutputInOrder` | no write that begins with a line feed |
| `KeysAreShared` | `KeysShared` | |

Both hypotheses are necessary: without them `WaitsForFirst` and `NewlineFirst` of section 5 are the
counterexamples. `ReadInv` adds to `InputServed` where the input buffer is: from `_innext` on, up to `_inlast`,
and at the beginning when it is empty. `SendInv` adds the same of the circular output buffer, where a
step is a sum modulo the size: `Circle` is the sequence it holds, and `CircleMore` and `CircleLess` say what
storing and taking a character do to it. `KeysInv` is that of the keyboard's buffer, in which one cell stays free
(`OneMore`); `ReadersInv` is `SharedReaders` with the types it needs. That characters stay in order is in each case that a
character moves from the end of one sequence to the beginning of the next, and concatenation is
associative.

### The network

`NetProofs` proves, for any processes, nodes, slots, ports and lengths that fit, and a ring of any size:

| theorem | property | assumes, besides the types of the constants |
|---|---|---|
| `CommandsCompleteInOrder`, `NodesAreAccounted` | the driver's, of `EthCbl` | |
| `CallersAreInStep` | `CallersInStep` | |
| `UnitsAreServed` | `UnitsServed` | |

The properties of the driver and those of the system calls hold only together, as one invariant, `CallersInv`: `OrderInv`
for the ring, the command queue and the nodes, `PlacesInv` and `BlockedInv` for where processes wait, and
`QueuesInStep`. `QueuesInStep` compares two queues of which one skips entries: a command that the kernel issues
by itself has nobody waiting. It counts: the process of the i-th outstanding command is at the place that is the number of
commands up to i which somebody waits for, and `CountsMore` and `CountsMoved` say what a command that joins or leaves does to these
numbers. `BlockedOnce` counts too, and follows from `PlacesInv` and `BlockedInv`, which name the place
(`PlacesCounted`). `ServedInv`, about the bits of the status byte, is a second invariant on top: it follows each bit from the device
by way of `status` and `seen` to the handler, or into `missed`. A completion that is missed leaves the unit
standing still, so there is no second one, and a bit is never in both places.

### Memory

`KmemProofs` proves, for any limits, any counts, and any numbers of slices and stacks, if the blocks that come
from the memory map are regular (`RegularMaps`):

| theorem | property |
|---|---|
| `PagesAreAccounted` | `PagesAccounted` |
| `AllocatorIsPool` | `PoolSpec`, the refinement of `PagePool` |

`KmInv` says of the list of blocks that *any* two of them have a gap between them (`Ordered`; `FreeListCoalesced` says it of
neighbours), of the lists of slices and stacks that they name nothing twice and nothing that is in use (`Sound`), and of the sets of
pages that they are `Apart`. The list is then reasoned about as the set of its pages: `Carves` takes a run off
it, `PageReturns` adds a page, by way of `BlockLeaves`, `BlockChanges` and `BlocksJoin`, one for each change of the list. For the
refinement, what remains is that a refusal is honest: if no block is large enough no run is, because the page after
a block is never free (`NoRun`). `RegularMaps` cannot be proved of the regions, since the list is the result
of a fold; it is a hypothesis here and evaluated by TLC for the maps of the run.

### The programs

The end of `KernelProofs` is about `Programs`, for any counts of children and repetitions (`Kids`, `KidsI`,
`KidsJ`, `Reps`) and any lists of programs that init spawns, again under `KillSpares`:

| theorem | property |
|---|---|
| `ProgramsKeepToKernel` | `ProgramsSpec => Spec /\ []ProgramsInv` |
| `ChildrenAreCollected` | `ChildrenCollected` |

The first puts the theorems about `Kernel` to use: whatever call a script comes to, with whatever operand, is one that `Kernel` allows
(`CallsAllowed`), so its invariant holds when these programs run. What had to be shown is that scripts stay
sequences of known entries (`ScriptsOK`), although loops put their bodies in front of them again, and that the status in
userH's last entry, which grows with each refused spawn, is never more than the spawns it made (`HelperScript`), so that it is
an exit status the kernel knows.

For the second, what userI and userT still have to do is a number of calls followed by an
`Ending` (wait, wait again until there is the error, exit), or the ending without its first wait. In the latter case, if the process
is not blocked and its last answer was an error, it has no children (`Answered`); with that answer the loop ends and
`exit` is next. The invariant has to survive what everybody else does between the answer and the exit, which is `Aside`: a
step of another process, of the clock or of the serial line leaves a process its PID and no more children than it had, and gives
it no new answer that is an error. That is where it counts that orphans go to init alone, that only a process itself spawns
children of its own, and that the end of a child is reported with a PID. userI's other call in the loop, `sleep`, cannot fail (`OwnCollect`).

### The queues

`QueueProofs` proves, for slices of any size, any number of them, and any data and keys:

| theorem | property |
|---|---|
| `LinksAlwaysAgree` | `LinksAgree` |
| `QueuesAreSequences` | `QueueSpec`, the refinement of `SeqQueues` |

`LinksAgree` walks the links by recursive functions (`Following`, `FreeCount`), as does the insertion itself
(`Successor`), and no induction can be made over those. So the inductive invariant `QInv` does not walk: it says that
there *are* functions `L`, `F` and `G` from places to nodes, the lists of the queues, the free nodes and the free
queues, along which the links run, and that the members of `G` are the carved queues that nobody uses. Every place counts up to the list's length, so a change of a list is an arithmetical
definition (`With`, `Less`), and that links changed by `link_before` or `link_last` run along the changed list
is a case distinction on places (`JoinIs`, `LeaveIs`). That the lists are apart is a statement about their sets of nodes;
that no node is lost is one about numbers: the lengths of the queues add up (`AddsUp`) to what was carved and is not free.
What a walk computes follows at the end: a list along which the links run solves the equation of `Following`, and the
equation has one solution, because two solutions agree at each place at which they agree before (`Climb`). In the same way
`Successor` stops at the place where the key belongs (`SuccessorIs`). `FreeListEnds` says of both free lists that they end
where they should, and `InvAgree` concludes `LinksAgree`.

For the refinement the sequence of a queue is read off `L`. A new node at place p is an insertion at
p; and p is the place that `SeqQueues` chooses, because in an ordered list there is only one (`PlaceUnique`).

### Build and boot

`BootProofs` proves, for files, disks, tables and memories of every size:

| theorem | property | assumes, besides the types of the constants |
|---|---|---|
| `ProgramsAreLoaded` | `LoadedAsBuilt` | `RegularLines` |
| `MapIsAsReported` | `MapAsReported` | |

The build adds to image and table program by program, and the loader takes from both sector by sector, so the invariant has
to say where in either a program is, and no sum can be taken over programs without an induction. `BootInv`
says instead that there *is* a function `at` from programs to numbers of sectors, with equations from each program to the next
(`Built`); the build extends it by one value. While loading, a number `k` says which program is being read and
`b` which of its sectors (`Loading`).

- Cylinder, head and sector are one number, `OnDisk`, which is that of the next sector of the image: a
  sector that is read adds one to it, whether or not a track or a cylinder ends there (`SeekIs`), and the disk ends when it is the
  capacity (`EndIs`). That needs a sector and a head to be below their limits, which the invariant says.
- Segment and offset are one address, and with the sectors still to come it makes the program's end. `AdjustIs` shows that
  the next sector adjoins this one across the end of 64K. There `Straight` is needed, and that a program lies in memory, since
  the segment is a sum modulo the size of a word.
- A sector is stored where no program is that was loaded before (`StoreKeeps`): `Apart`. The last sector of a
  program is padded, and the padding belongs to its place.
- The loader stops at the first word of the table that is zero, and finds one behind the last program and none before
  (`TableIs`): no count is zero, and a zero follows.

Each clause of `RegularLines` but the evident ones, that programs lie in memory and apart, has its counterexample in
section 5. For the map, `MapInv` says that the first `bp` entries are the valid regions among those reported so far, in order; a
region that is not kept is stored behind them, where the next one replaces it.

### What they share

`ListFacts` has what several of these proofs need to know of sequences: what is on a queue when something joins or leaves
it, at its ends or in the middle, and that a set of numbers has a least element (`Least`). The
library's induction is about an operator, and the provers cannot put one in; a given set of numbers needs
none, because inclusion of finite sets is well-founded. So arguments by the least counterexample can be made,
and the first free node of the driver (`FreeNodeIs`), the search for a place in the free list (`PassedIs`) and
the first block that fits (`PagesLeave`) use one.

### Only model-checked

- All liveness: fairness and `ENABLED` are beyond the prover (`SleepersWake`, `SystemServed`, `OutputDrains`,
  `CallersWake`, `RequestsServed`, `Quiesces`).
- `Screen`, whose texts and numbers are of any length and are written by folds (`ShowsText`, `NumbersRead`,
  `BordersKept`).
- `Headers`, which folds its sums and scans its texts by recursive operators, about which the prover cannot reason.
- That the FoldLeft over a memory map yields regular blocks.

## 5. Where the code and its descriptions part

The statements of the `...Claims` modules, and some in `Headers` and `Screen`, come from a manual
page, a comment or an assertion and fail. Two are kept as runs, `headers_ipv4` and `headers_htons`. Each of the others
can be seen by naming it in a configuration of the module in the first column with these constants; the behaviour
is what TLC answers.

| claim | constants, besides those of the run's `.cfg` | behaviour |
|---|---|---|
| MCKernelClaims `WaitersCollect` | `MCKernel.cfg` with five PCBs, `N_PROCS = 5`, `MaxPid = 5` | init is not told of zombies it inherits: `_force_exit` hands the dead process's children to it by setting `ppid` (syscalls.c:632), and a zombie among them keeps slot and PCB until another child of init ends. init waits, A spawns B, B exits, A exits |
| `KillAnswered` | `MCKernel.cfg` | kill() of a process in wait() writes no result: the caller reads the call's own code, 8 (syscalls.c:330) |
| `KilledStatusKept` | same | the status of a killed process is stored nowhere when it becomes a zombie: a later wait() reads 0 (syscalls.c:648) |
| `KilledEnds` | `MCKernel.cfg` | a victim in read() is marked; nothing ends it until a character arrives (syscalls.c:312) |
| `WokenOnTime` | `MCKernel.cfg` | a wakeup time past the wrap is below the present time: the sleeper wakes at the next tick (syscalls.c:367) |
| `NoChildrenAnswer` | same | wait() without children answers `E_NO_PROCS`; init.c and main6.c test for `E_NO_CHILDREN` (syscalls.c:466) |
| `DispatchFinds` | `Protected = {1}` | kill() of idle is carried out; `_dispatch` later finds no process (syscalls.c:286) |
| MCSio `InputInBounds` | `MCSio.cfg` | a reader leaves a character behind, `_inlast` is not reset and goes past the end (sio.c:171) |
| `OutputInBounds` | `Writes <- NewlineWrites`, `BUF_SIZE = 2`, `MaxOut = 6` | `_sio_writec` does not wrap `_outlast`; the next write stores behind the buffer (sio.c:524) |
| `NewlineFirst` | same | of a line that begins with LF, the LF goes out last (sio.c:588) |
| `WriteAnswer` | `MCSio.cfg` | write() answers the length asked for, whatever fitted (syscalls.c:212) |
| `WaitsForFirst` | `ReadLengths = {0, 1}` | a read of length 0 blocks beside a full buffer (syscalls.c:173) |
| `WaiterGetsCharacter` | `MCSio.cfg` | a killed reader takes the character with it; a live one behind it waits on (sio.c:152) |
| MCConsole `ConsoleNeverWaits` | `MCConsole.cfg` | a read waits for the end of the line inside the kernel (cio.c:573) |
| `ConsoleNeverBlocks` | same | a read that gets no character blocks on the serial line (syscalls.c:173) |
| `UndefinedIgnored` | `Undefined = {"f1"}` | 255 is compared with -1: codes without a character are stored (cio.c:536) |
| MCSysNet `NoPanic` | `MCSysNet.cfg` | when `_eth_tx` fails for lack of memory, `_sysnet_send` blocks its caller on `_cmd_process_q` all the same (sysnet.c:55-64); the next completion finds that process at the head, and the assertion at sysnet.c:225 fails |
| `WaitersHaveCommand` | same | a refused sender waits for a command that does not exist (sysnet.c:55) |
| `OversizeFails` | same | a message that is too large goes out as an empty frame and is answered with success (sysnet.c:50) |
| `SlotsForLiving` | three `Pids` and `Ids` | killed receivers keep their slots (sysnet.c:94) |
| `BlocksDisjoint` | `MCSysNet.cfg` | `_eth_allocate_CBL` sets `CBL_end` to 0 before it knows whether there is room there, and takes a ring with `CBL_end = CBL_start` for an empty one: a later block is put over one that the device still has to run (eth.c:156-158) |
| `RoomWhenIdle` | same | bytes skipped at the ring's end are never freed: an idle ring refuses a block (eth.c:385) |
| `NoNullUsed` | same | without a node the error path uses the NULL it was given (eth.c:222, 281) |
| `AckLosesNone` | same | a bit raised between the two accesses is cleared unseen: that command never ends (eth.c:309) |
| MCInterrupts `RequestsServed` without its premise about system calls | `MCInterrupts.cfg` | an ethernet interrupt stays in service on the primary controller (eth.c:430): while programs only compute, neither the card nor the serial line is served again |
| the same without the premise about the card | same | as long as frames keep coming, line 2 is in service again whenever line 4 could be passed on: the serial line waits for ever, system calls or not |
| MCBoot `AcceptedFits` | `MCBoot.cfg` | segment and offset are shorts: with an offset of 0x8000 or more, or such a segment, the address that is checked is negative or too small (BuildImage.c:138-160) |
| `TableTerminated` | `Zeros = 9`, and `MCBoot` without `LinesAreRegular` | a table that fills the zeros exactly has no end: the loader goes on with the instruction in front of it (BuildImage.c:318, bootstrap.S:123) |
| `AllRead` | `Sizes == {0, 8}`, likewise | an empty file has the count 0, which ends the table: the programs after it are not loaded |
| `TooBigIsTooBig` | `MCBoot.cfg` | an image that fills the disk freezes after its last sector (bootstrap.S:191-198) |
| `LoadedAsBuilt` | `Candidates` without `Straight`, likewise | an offset that is no multiple of a sector misses the end of 64K, and the rest wraps to the start of the segment (bootstrap.S:170) |
| MCHeaders `Ipv4ChecksumVerifies` | the run `headers_ipv4` | the IPv4 checksum is added in 16 bits and drops its carries; it is wrong when the header's words add up to more than 65535 (ip.c:29) |
| `AddressesRead` | the run `headers_htons` | the loop of htons ends after 15 characters and before the end of the text, where the last number is stored: an address of 15 characters is accepted with a last byte nobody has written (net.h:46) |
| MCConsole `OctalFits` | `MCConsole.cfg` | the topmost two bits are shifted down with their sign and masked to three: the octal digits of a negative number begin with 6 or 7 and stand for more than 32 bits (klibc.c:485-486, 491) |
| `HexPadded` | same | sprint takes two characters too many for %x: the text ends behind the number, whatever follows in the format, and the padding is two short (klibc.c:367; printf does not) |

Four things that the models show of the programs are no property: "user U: kill all children" (init.c:258) ends
user U, since its first kill() is of PID 0, the caller, and no child of it is killed;
userT and init test for an error that wait() never answers (above); userI's array (hypotheses); and users.h says that userT and userU
are programs of their own that call wait(), though both are main6 and U does not.

## 6. What is not modelled

- **Contents**: text, what a message says (except in `Headers` and `Screen`, where bytes and characters are the
  subject). Dumps, debug output and the clock's pinwheel change no state.
- **Set-up**: the switch to protected mode, descriptor tables, the calls of `_init`, PCI configuration, the
  driver's resets and base addresses run once, in sequence, before the initial states of the models.
- **The composition of Interrupts with the others**: they assume that their interrupt is taken
  in the end; `RequestsServed` says under which conditions it is.
- **The composition of Kernel with Sio, Console and SysNet**: these three reduce a process
  to running, blocked, killed or gone, which is all they tell apart; `Kernel` reduces
  them to `sys_read` and `sio_isr_rx`. The interface is `_schedule`, whose
  two outcomes both sides model. Processes blocked in network calls wait on queues that
  only `SysNet` has; they behave in `Kernel` as readers do.
- **PIDs that wrap**, and pointers that are bad.
- **ttalk and socket_test**, the programs that use the network: `SysNet` has programs that make its calls at any time.
- **Copying and comparing** of strings and memory in the libraries; `ulibc.c` doubles `klibc.c`.

## 7. Plan

Done: `Kernel` with `ProcTree`, `Interrupts` with `Pic`, `Sio` and `Console`, `EthCbl` with `SysNet`, `Kmem` with `PagePool`,
`Queue` with `SeqQueues`, `Boot` and `Programs`, each with the proofs of its safety properties and refinements;
`Screen` with `Format`, and `Headers`, which are model-checked.

What would add most to it:

1. `Screen`: `BordersKept`, whose actions are folds over a text: for a text of one character it is a property of
   `__c_putchar_at` and `scroll`, and each longer text is an induction that has to be made on a set of
   lengths, as in `ListFacts`.
2. `Kernel` with `SysNet`: the queues of the network calls as queues of `Kernel`, in place of
   the reader that stands for them.
