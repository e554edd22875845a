# TLA+ verification of the Citrus kernel

Citrus is a small operating system for the SAMA5D2 (a single Cortex-A5 core):
preemptive threads, lazy FPU switching, a page and a heap allocator, DMA
printing, processes loaded over a serial line, an Ethernet stack with DHCP and
TFTP clients, SD cards with FAT32 volumes and a window compositor. This
directory models it in TLA+, checks the models with TLC, and proves with TLAPS the
main safety properties of the scheduler with its timer and the lazy FPU, of printing,
of both allocators, of processes and their images, of the network stack and its
clients, of cards and their partitions, and of positions in files, for every value
of the constants.

## 1. Inventory

| Component | Source | State | Operations | Hard behaviour |
|---|---|---|---|---|
| Core scheduler | `kernel/sched.c`, `rt.c`, `fair.c`, `back.c`, `idle.c` | `rq`: next, curr, run queues, sleep list, tick, tick_to_wake; per thread node, state, runtime | core_sched on every tick, sleep call, start; thread creation | one list node shared by all lists; cached tick_to_wake; order of wake-up and pick |
| Context switch | `arch/irq.s`, `arch/sched.s` | rq.next, rq.curr, FPU enable | end of every IRQ and SVC | a stale rq.next switches to a sleeping thread |
| CPU timer | `drivers/cpu_timer.c` | counter, compare value, pending bit | reset and read by the sleep call | the interrupt pending while the call reads the counter |
| Lazy FPU | `arch/fault.c`, `arch/fpu.s` | rq.lazy_fpu, register bank, fpu_stack | exchange on an undefined instruction | preemption anywhere between exchange and use |
| Threads, processes, system calls | `kernel/thread.c`, `process.c`, `syscall.c` | thread and process structures | create (kernel, user, process), sleep, sbrk, exit | creation from interrupt handlers |
| Print | `entry/print.c`, `lib/sprint.c` | two buffers, curr_len, dma_done | print, flush, end-of-transfer callback | callback between any two steps of print |
| DMA driver | `drivers/dma.c` | 32 channels | allocate, submit, common handler | several channels flagged |
| Page allocator | `mm/buddy_alloc.c` | free lists, bitmaps, page order | alloc, free | one bit for two buddies |
| Kernel heap | `mm/slob.c` | address-ordered free list | init, alloc, free | merging at either side and at the end |
| Page tables | `mm/mm.c` | level 1 and 2 tables, list of pages, heap break of a process | map pages, grow the break | level 2 tables that share frames |
| PID bitmap | `kernel/pid.c` | two-level bitmap | alloc | parent bits |
| Loader | `entry/dma_receive.c`, `kernel/elf.c`, `scripts/citrus.py` | packet state, write pointer, file buffer; the script's packet and retries | size, data, end of file | damaged, repeated and missing packets |
| Network buffers, MAC, ARP | `net/netbuf.c`, `mac.c`, `arp.c` | pool, ARP table, queue of waiting packets | alloc, free, request, reply | one node per buffer, whatever list it is in |
| Ethernet driver | `drivers/gmac.c` | receive and transmit rings | poll, send | descriptor ownership shared with the MAC |
| IP, UDP | `net/ip.c`, `udp.c` | ports with queues, the host's address | listen, send, receive | frames of all ports through one reader |
| DHCP, TFTP | `net/dhcp.c`, `tftp.c` | protocol states | bind, download | lost, late, repeated and foreign packets |
| FAT32 | `fs/fat.c`, `fs.c` | mount, file position, page cache | open, read, list | position arithmetic; groups of entries |
| Disks | `fs/disk.c` | lists of disks and partitions, names | add, mount | two cards at once |
| SD and MMC | `drivers/sd.c`, `mmc.c` | card, address, bus width | card-detect interrupt, enumeration, read | the order of commands |
| Compositor | `gfx/window.c` | windows, update regions, descriptors | add, split, compose | region splitting |
| Fonts, display, other peripherals, startup, library | `gfx/ttf.c`, `font.c`, `drivers/`, `arch/`, `lib/` | registers | straight-line setup | none for a model |

**Interaction.** Interrupt handlers are not nested: an SVC masks IRQs and all
sources of the interrupt controller have one priority. A handler therefore runs
to its end with the thread stopped, and the last thing every IRQ and SVC does is
`context_core`, which performs the switch `core_sched` asked for through
`rq.next`. Threads share memory with handlers and with one another; short
sections are protected by masking interrupts (`kernel/atomic.c`). The scheduler
reaches the timer (`cpu_timer_get_value_us`, `cpu_timer_reset`), print reaches
the DMA driver, the serial handler reaches the ELF loader and through it the page
allocator and the page tables, the clients reach UDP, IP, MAC and the driver's
rings, the card-detect interrupt starts a thread that ends in the mount of the
file system. Hence the kinds of interleaving that the models have: passes of the
scheduler at any point of any thread, hardware (timer, DMA, MAC, serial line)
beside the software, two threads that enumerate cards, and hosts beyond a network.

**What makes each part correct.** Scheduler: no thread lost or linked twice,
only runnable threads run, the cached tick agrees with the sleep list, nobody is
overslept, the most urgent class runs, real-time threads take turns. Timer: no
time is counted twice. FPU: each thread finds its own registers. Print: every
length is sent once, one transfer at a time. Allocators: blocks do not overlap,
nothing is lost, free neighbours are merged, a request is refused only when it
cannot be met. Processes: the image is the file, a mapping stays, a frame has one
use. Network: a buffer has one owner, packets come once and in order, the address
is one that was granted, the copy is the file. Storage: cards are driven in the
right order, what is on them is mounted, a position is one place, searches and
listings agree with the directory. Compositor: the top window shows.

`PROJECT.json` lists all components with their status, and the hazards each
property is aimed at.

## 2. Modules

| Module | Models | Kind |
|---|---|---|
| `Sched` | scheduler, classes, sleep call, context switch | state machine |
| `SchedTimer` | extends `Sched` with the timer and its pending interrupt | composition |
| `SchedFpu` | extends `Sched` with the lazy FPU | composition, refines `PrivateFpu` |
| `PrivateFpu` | an FPU of its own for every thread | abstract specification |
| `PrintDma` | `print`, `flush_buffer`, the callback, one DMA channel | state machine |
| `Buddy` | page allocator | state machine, refines `PageAllocator` |
| `PageAllocator` | what a page allocator promises | abstract specification |
| `Slob` | kernel heap | state machine |
| `AddressSpace` | page tables, stacks, heap and page list of processes | functions on a state |
| `Pid` | the PID bitmap | state and actions, used by `Loader` |
| `Loader` | script, serial line, receiver, ELF loader; system calls on memory | composition with `AddressSpace` and `Pid` |
| `Net` | buffers, rings, MAC, ARP, UDP ports | state machine |
| `Dhcp` | the DHCP client and its servers | state and actions, used by `Tftp` |
| `Tftp` | the TFTP client and its server, over the address of `Dhcp` | composition, refines `FileCopy` |
| `FileCopy` | what a download promises | abstract specification |
| `FatNames` | comparison of names with short and long entries | functions |
| `Fat` | open, read and list on a FAT volume | state machine |
| `Storage` | cards, enumeration, disks, partitions, mount | state machine |
| `Window` | the window compositor | state machine |
| `ListLemmas` | lemmas on ranges and injectivity of sequences, and on division | proofs |
| `SchedProofs` | theorems of `Sched`, `SchedFpu` and `SchedTimer` | proofs |
| `PrintDmaProofs`, `BuddyProofs`, `SlobProofs` | theorems of the module named | proofs |
| `StorageProofs` | theorems of `Storage` and `Fat` | proofs |
| `NetworkProofs` | theorems of `Dhcp` and `Tftp`, and of `Net` | proofs |
| `LoaderProofs` | theorems of `Loader`, with those of `AddressSpace` and `Pid` as its parts | proofs |
| `MC*` | instances for TLC | |

Operators named `...Keeps...`, `...Any...` and the like with a comment that begins
with "Variant" are plausible errors of the definition that follows them; each
property is known to fail when its variant takes the definition's place.

### Sched, SchedTimer, SchedFpu

`pc` says how far the handler on the CPU is; `"thread"` means that no handler
runs and `curr` executes. The lists (`rt`, `fair`, `back`, `sleep`) are
sequences with the head first; all of them stand for one `thread->node`, which is
what `LinkedOnce` is about. A scheduling pass is several steps, as in the code:

| Action | Code |
|---|---|
| `CreateThread` | init_thread_struct, the create functions |
| `SchedStart`, `StartFirst` | the two halves of `sched_start` around its call of `core_sched` |
| `CpuTick`, `ThreadSleep` | the two ways into `core_sched`; both do the first half of it (`CoreSched`) |
| `WakeOne`, `WakeDone` | one iteration, and the end, of `enqueue_sleeping_threads` |
| `PickNext` | `core_pick_next`, the classes in order, and the assignment of `rq.next` |
| `ContextCore` | the end of an IRQ or SVC |

`sched_start` leaves `core_sched`'s second argument to whatever is in the
register; `SchedStart` takes either outcome. The product `ms * 1000` is 32 bits
wide (`Delay`, modulo `U32`). In `Sched` the time a pass is charged with is any
value below a slice; in `SchedTimer` it is read from a counter that runs on its
own, wraps at `RC` and sets a pending bit, and history variables let an action
property compare the real time a thread slept with what it asked for.

In `SchedFpu` a switch disables the FPU; the first FPU instruction is undefined and
exchanges the bank. The refinement mapping says where the registers of a thread
are: in the bank if it is `rq.lazy_fpu`, on its FPU stack otherwise. FPSCR, which
the exchange does not touch, is not in the model.

### PrintDma, Buddy, Slob

Every access of `print` and `flush_buffer` to shared state is a step of its own
while the thread runs; the callback is one step, because handlers are not nested.
Any number of threads print, as the threads do that `main` starts. Nothing keeps them
apart in `flush_buffer`; `raced` remembers that one came into another's, and
what the properties promise ends there.
Calls of the allocators are one step each, since they mask interrupts. The bitmaps
of the buddy allocator are sets of `<<order, bit>>`; out of memory panics and the
panic handler resets the CPU, so the state becomes the initial one. The shift
`1 << order` is a constant of `Buddy` and `PageAllocator`, the table `Size`: the
provers know nothing of powers, and `BuddyAssumption` says all of it (1 for order
0, doubled from an order to the next, up to the `Widest` shift). `Unlinked` is
`list_delete_node` on a free list. In `Slob`, addresses are bytes, and `Total` and
`LastNode` are computed as `slob_init` computes them. `slob_init` measures the heap from
the allocator's own structure, which lies below it, so that the last block is larger than
the heap. `slob_alloc` does not look at `last_node`: a block may come up to it or run over
it, and then the list has lost its end. `overrun` remembers this, and nothing is said of
what comes after. The names of the variables and actions of both modules are distinct,
because `MCMemory` runs the two allocators side by side.

### AddressSpace, Pid, Loader

The memory of the processes is one record (`m` in `Loader`) that functions change
in the order in which the code calls them: `AllocPages` (the lowest aligned free
block, a behaviour of `PageAllocator`), `GetL2Table` (a level 2 table is a quarter of
a frame; the bitmap of a new frame is zero, because nothing initialises it, so
that the first slot is the only one ever used), `MapInPages`, `CreateUserThread`,
`SetBreak`. Addresses are counted in pages. Powers of two are the table `Size`, as in
`Buddy`, and the loop of `mm_map_in_pages` is a function of the number of its turns.
The actions of `Loader`:

| Action | Code |
|---|---|
| `StartFile`, `TakeOk`, `TakeError`, `TimeOut` | `scripts/citrus.py`: send_file, send_packet |
| `Damage`, `DamageAnswer`, `Lose` | the serial line (external): it spoils a packet, changes its command byte (which the CRC does not cover) to any other, changes an answer to the other one, loses either |
| `Refuse`, `TakeOther`, `TakeReset`, `TakeSize`, `TakePage`, `TakeLast` | the timeout interrupt: `process_packet`, `handle_packet` for one command each; `TakeLast` runs `elf_init` |
| `CallCreateThread`, `CallSetBreak` | the system calls of a process |
| `NewKthread` | `create_kthread` with `alloc_pid` |

A packet whose command was changed is handled as the command it now has: a reset ends the
model, a piece of the file taken for its size panics unless it has four bytes, and a
size taken for data is a short piece, which ends the file early. `misread` remembers that
a command or an answer was taken for another one. `elf_init` reads the first program
header only: of a file of `Pages` pages it copies `SegPages` pages from page `Offset`
on into a block of `MemPages` pages, which it maps at `VAddr`. `set_break` asks nothing of
the end of the heap, so that a heap that reaches the kernel's sections is written
behind the level 1 table ("wild write").

### Net

Buffers are modelled by the links of their one `list_node` and not as sequences,
because the code links a buffer that is still in a list: `mac_unqueue` leaves the
packets it has sent in `arp_queue`, and the ring later frees them into the pool.
The MAC fills and sends descriptors beside the thread; `gmac_send_raw` waits in a
step of its own (`wait`), and `TXCOMP`, once set, is never cleared, as in the code.
One thread at a time is in the stack; see section 6. `pc` other than `"idle"`,
`"wait"`, `"unqueue"` is the reason the kernel stopped. `Walking` and `Waiting` belong to
`BuffersApart`: while `mac_unqueue` walks, the packets before its cursor have been sent
and may be in the pool again, so that only those from the cursor on still wait. The
initial states and the steps of this module are called `InitNet` and `NextNet`.

`FrameArrives` is the network: at any time a packet for a port, an ARP request or an ARP
reply of any host, whether or not anyone asked, or another type of frame. The histories
`requests` and `replies` count what was sent to a host and what came from it. The board's
own answer to an ARP request is `Answer`, a frame whose length `arp_handle_req` has not
set: `gmac_send_raw` puts it into the descriptor and then asserts that the length is less
than 2048, so `Hand` may go on or stop with `"bad length"`.

### Dhcp, Tftp, FileCopy

`wire` holds every DHCP message ever sent, so that each may be received any number
of times, in any order, or never. The transaction number is the constant 0xC0DEBABE in
every board (`dhcp.c:376`) and the MAC takes every frame (`gmac.c:432`), so that what
servers send to other hosts is on the wire from the start: `others` says which transaction
numbers these have, the board's own among them when a second board runs this program.
The TFTP packets are sets from which they are taken or lost; the network may deliver one
twice, the server may send its last packet again, give up with an error in
mid-transfer, or begin a second session, and `Strange` packets of another transfer or
another server come in at any time, because the client looks neither at the sender nor at
its port. The histories `lost`, `again`, `refused` and `stray` tell these apart. `Tftp`
starts with the address that `Dhcp` sets, since `main` starts both threads without ordering them.
In `MCClients` the DHCP client moves only before the read request is sent, and the request
comes when the client has not begun or is bound with four messages on the wire: the two
share nothing else than the address, so that their other steps commute.
`CopiesFile` is the refinement of `FileCopy`.

### Fat, FatNames, Storage

A cell is what a position moves over, a directory entry or a byte. `Advance` is
`fat_inc_file_ptr` with its shifts as they are; `start`, `sought`, `from` and `listed`
are history variables that let the invariants compare a position, a search or a
listing with the volume read as data (`CellAt`, `Entries`, `LongName`). `Sound` is how far
`fat_inc_file_ptr` can move right: in the chain and, for clusters of four pages or
more, where the chain's clusters follow each other on the disk. What is on the disk behind
the FAT, where the end mark taken for a cluster leads, is `stray`: nothing (the disk
has ended, and the driver panics) or any word. `Hidden` names the entries that the code
jumps over, and `NeverAccepted` the names that its comparison refuses, "." and ".."
among them. `FatNames` ends with a reference definition of short names, written from the
FAT specification and not from the code. In `Storage` a card is an external state machine
that takes commands only in the states in which the SD specification allows them; each
command of the driver is a step, and so is each store of `list_add_last` and each node that
a walk of a list comes to (`SetName`, `CountDisk`, `ListPartition`). A card that is not there
when the interrupt looks fails the assertion of `mmc_card_insert` (`mmc.c:135`), and taking
a card out panics (`mmc.c:168`), which is `CardRemove` at any step.

### Window

One turn of `update_regions` is a step; the transfer of all descriptors is one, since
nothing else writes the buffer. Buffers are linear memory, so that a descriptor
with a wrong stride or number of rows writes where the hardware would write.

## 3. Runs

| Run | Question | Instance and bounds |
|---|---|---|
| `sched` | does any interleaving of creations, ticks and sleeps lose, double-link, oversleep or misplace a thread; does every sleeper wake and every runnable real-time thread run | two real-time threads, one background thread, sleeps of 0, 2 and 5 (5 wraps in 32 bits), ticks to 6 |
| `sched_timed` | is time counted twice, how early can a sleeper wake | two threads, 3 counts a slice, 12 counts |
| `fpu` | does each thread have registers of its own | two threads, three register contents |
| `print` | is a length, a wake-up or the exclusiveness of the channel lost | two printers, one of which prints twice; messages of 1 or 2 cells |
| `print_race` (violated) | does print start a request only when the DMA is done | the same, messages of 1 cell |
| `memory` | is the buddy system a page allocator; does the heap keep blocks apart, merged and accounted for | 12 pages, of which 8 are used, requests of orders 0 to 4; a heap of 80 bytes, requests of 8, 9 and 24 bytes |
| `storage` | are cards driven in the right order and mounted; is the position one place, do searches and listings agree with the directory | two slots, four kinds of cards, two rounds of ACMD41; pages of 4 cells, clusters of 2 pages, four volumes with three kinds of data behind the FAT |
| `fat_clusters` (violated) | does the position follow the chain for larger clusters | clusters of 4 pages of 2 cells, a chain that is not contiguous |
| `net` | has a buffer one owner, do packets come once and in order, what breaks the stack | 8 buffers, rings of 2 and 2, two ports, two hosts, 3 frames, 3 packets |
| `clients` | is the address granted, is the copy the file, does a download end | two DHCP servers, files of 1 to 4 blocks, block numbers modulo 4, two packets of strangers |
| `loader` | is the image the file, does a mapping stay, has a frame one use, has a PID one thread | 24 frames, two files, two sessions, two faults, two attempts a packet, one thread, two breaks of 1 or 3 pages, five kernel threads on a tree of 2 x 2 PIDs |
| `window` | does the top window show | 4 x 3 pixels, up to three windows of any place and size |

**Bounds and why they are enough.**
- `Horizon` (Sched): no slice is counted from there on. A sleep must end before
  it. Six ticks hold three slices, sleeps that end in, at and between ticks,
  and two sleepers at once in both orders. In `FairSpec` the handler still runs
  beyond it without counting (`LateTick`), so that fairness is about infinite
  behaviours and not about the bound. A sleep call must end before the horizon, so
  an infinite behaviour has finitely many sleep calls, in any interleaving with
  ticks, and ticks from there on: the liveness properties say nothing of threads
  that sleep again and again for ever.
- `SCHED_SLICE`, `UsPerMs`, `U32`: small numbers in the same relations as the
  code's (a sleep may be shorter or longer than a slice, the product may wrap).
- `MaxNow`, `RC` (SchedTimer): four slices; a tick, a sleep call with the
  interrupt pending, and the wake-up fit in. The run stops at the bound.
- `MaxMessages`, `Lengths` (PrintDma): two messages of one thread and one of another let a
  transfer run, another wait, and a third come during the callback, with two threads
  in `print` at once. `Quiet` is the only stutter: nobody has anything left to print.
- `PageCnt` (Buddy): eight pages have three levels of bits, so that merges go
  over zero, one, two and three levels; four pages are lost by rounding down. `Size`
  is two to the power of the order, up to `Widest = 4`, the first order that the
  instance has no block of.
- `Heap`, `Requests` (Slob): up to five blocks of callers and the free rest;
  requests that need rounding, that split and that take a whole block. Merging at
  neither, one or both sides occurs, and so do a full heap that refuses and one that
  runs over its end. In `memory` one allocator moves while the other is in its initial
  state, because they share nothing.
- Volumes (Fat): a root of two clusters and a file of three, in chains that are not
  contiguous; long names over the end of a page and of a cluster; deleted entries
  and fragments, an orphaned long name, an empty file, a directory without an end
  mark, subdirectories with "." and "..". Behind the FAT the disk has ended, or holds
  zeroes, or a word that reads as a cluster. The volumes are looked at in the states before
  any card of `storage`, since a mounted volume is all that the two have in common.
- `Cards` (Storage): high and standard capacity, one and four data lines, with and
  without a partition table, every kind of entry, and a card of version 1. Both
  slots get any of them, together or one by one, and lose them at any step.
- `BufferCount`, `RxCount`, `TxCount`, `MaxFrames`, `MaxSends` (Net): the receive ring
  turns over, a packet waits for an address while others arrive, the pool can run
  empty. Three packets and three frames are enough for two requests to one address, for
  packets that wait for two addresses, and for a packet after them; for a reply that
  nobody asked for, one that comes twice, and one behind a request.
- `MaxBlocks`, `Wrap`, `Strange` (Tftp): files shorter than, as long as and one
  block short of the numbers. What is sent again, delivered twice or given up is not
  bounded. Strangers send an error, and a block with the number of the second one.
- `Frames`, `SectPages`, `MaxSessions`, `MaxFaults` and the rest (Loader): images and
  stacks lie in different sections, a second process comes with a file buffer
  of the first around, a packet is damaged twice so that the script gives up in the
  middle and starts again, the frames can run out. The segment of one file takes in the
  file's first page and its tail, that of the other is its second page. Two breaks of one
  page bring the end of the heap over the images, and one of three pages brings it to
  the kernel's sections, so that the next one writes behind the table.
- The screen (Window): every overlap of two windows, at any side and corner, inside
  and around, and a third on both.

Deadlock is not checked in `sched_timed`, `storage`, `fat_clusters`, `net`, `clients`,
`loader` and `window`: they stop at their bounds, at a panic, or (`window`) at the end of the
composition.

**Fairness.** `Sched`: main calls `sched_start`; a handler runs to its end (there
is nothing else to run); the timer interrupts a running thread sooner or later
(it is periodic and restarted at most by sleep calls, which are passes
themselves). No fairness is assumed of what threads do. `PrintDma`: every thread in
the middle of `print` goes on, the DMA moves cells, its interrupt is taken.
`Tftp`: the client's thread, which polls in a loop under the scheduler, takes a
packet that has arrived, and the server answers one; the network is not fair, the
DHCP threads and servers need do nothing, and a lost packet excuses everything.

**What properties leave out.** Where the code breaks, a property names the cause
as narrowly as the model allows:

| Properties | Do not speak of |
|---|---|
| `EverySleeperWakes`, `NoOverdueSleeper`, `TickToWakeIsNext` | behaviours with a sleeper of tick 0 |
| `OneTransfer`, `LengthsKept` | what happens after one thread came into another's `flush_buffer` (`raced`) |
| `HeapTiled`, `SortedAndMerged`, `RefusedOnlyIfFull` | a heap that has run over its end; that it does so only when nothing larger is free is part of the last |
| `BuffersApart`, `DeliveredInOrder`, `StopsExplained` | stacks where packets have waited for two addresses |
| `StopsExplained` | an ARP reply without a waiting entry when the address was asked for twice, or a host sent more replies than it was asked for; a frame without a length when an ARP request was answered |
| `AddressIsGranted` | networks where another host has the same transaction number |
| `CopiesFile` | what comes after a packet of a stranger |
| `PanicOnlyIfDisturbed`, `DownloadEnds` | transfers where a packet came again, the server sent an error, a stranger's packet came in, or the file has as many blocks as there are numbers |
| `ImageIsFile` | sessions in which a command or an answer was taken for another, heaps that have reached the image |
| `MappingsKept` | pages that a growing heap replaces, or a stack that comes down on the heap |
| `PanicOnlyIfUnsupported` | cards of version 1, cards that stay busy, cards out of their slot |
| `CardIsMounted` | cards inserted two at a time |
| `PositionIsOffset`, `StopsAtChainEndOnly` | positions that are not `Sound` |
| `SearchAgrees`, `ListingAgrees` | names that are `NeverAccepted`, entries that are `Hidden` |
| `TopWindowShown` | windows that cover a region whole or only touch one, pixels under the last row of a region |

Section 4 says what happens otherwise.

## 4. Disagreements between code and comments, and other limits

Scheduler, FPU, print, heap:
- `sched_thread_sleep(0)` in the first slice stores tick to wake 0, which reads as
  "nobody sleeps"; a thread that is the only sleeper is not woken.
- A sleep is measured from the tick of the last pass, so it may end early, by less
  than two slices (`EarlyByTwoSlicesAtMost`), against the comment at
  `kernel/sched.c:292`.
- The FPU exchange leaves FPSCR behind.
- A transfer that ends while `print` formats swaps the buffers: the text is counted
  for the wrong buffer, old text is sent. Lengths stay right (`LengthsKept`).
- Nothing keeps two threads apart between the test of `dma_done` and the first line of
  `flush_buffer`: the second one writes the registers of the channel while it sends the
  first one's buffer. The run `print_race` finds it: `SubmittedWhenDone` fails.
- `slob_init` takes the heap to be larger than it is, by the distance of the
  allocator's own structure from it, so that the last block runs over `last_node`.

Processes:
- The CRC covers the data of a packet and not its command: a packet with a damaged command
  byte is acknowledged and lost, resets the board, panics (a piece of the file taken for
  its size) or starts the program early (a size taken for data). An answer is one byte without
  any check (`misread` in `Loader`).
- `elf_init` reads the first program header only and does not look at the type of the file.
- `write_ptr` is compared with nothing: data after a failed session, or more than was
  announced, is a wild write (`stopped`).
- Buffers of files are never given back. The call that would free them is commented
  out, and as it stands there it would free a block twice.
- The image of a process is not on its list of pages, against the comment in
  `include/citrus/mm.h:181`.
- The bitmap of a frame of level 2 tables is never initialised, so that each table
  takes a frame; `heap_e` moves four times too far. The heap starts at page 0 and
  may grow over the image and the stacks, and a stack may be put over the heap; the old
  entries are replaced without notice. Past the sections of the process `set_break` writes
  behind its level 1 table.
- The words of a stack are taken for bytes when its pages are counted; threads of
  processes get no PID of their own.

Network:
- `mac_unqueue` leaves the packets it sent in `arp_queue`. Packets to two addresses
  that wait at once break the pool.
- An ARP reply for which no entry waits panics (`arp.c:66`): the second of two requests to
  one address, a reply that comes twice, one that nobody asked for.
- `arp_handle_req` sets no length of its answer (`arp.c:177-209`): the buffer's old one is
  used, and the assertion at `gmac.c:354` may stop the kernel.
- `TXCOMP` is never cleared, so that only the first packet is waited for, and a third
  can find its descriptor still with the MAC and panic.
- Buffers of ARP frames and of unknown frames are never freed.
- The comment above `get_netbuf_from_port` says most recent; it is the oldest.
- The DHCP client repeats nothing although a comment says so, takes the router for
  the server, and looks at an acknowledgement's type only. Without a router option
  the number of servers is whatever was on the stack. All boards have the same transaction
  number, so that one takes the answers to another for its own.
- A TFTP block that comes again panics, as do block 65536, an error of the server in
  mid-transfer, and a packet from elsewhere (`tftp.c:176-180`); an error as the answer to
  the request is returned, and `main` panics at it (`main.c:124-125`).

Storage and compositor:
- `fat_inc_file_ptr` shifts by `clust_mask` instead of `clust_order`: right for clusters
  of one or two pages only. In larger ones the position leaves the file at the end
  of the first cluster, unless the next one follows it on the disk. The run `fat_clusters`
  finds it: `PositionFollowsChain` fails. `PositionsAgree` proves what is left.
- `data_start` is taken for the page of the root directory, and clusters are counted from
  there (`fat.c:259-271, 389, 410`): right if the root directory is cluster 2.
- The end of a chain is reported as `EEOF` where `EEOCC` is waited for, so that reading
  the last byte of a file whose size is a multiple of the cluster size takes the end mark
  for a cluster and looks for its entry 0x1FFFFF pages behind the start of the FAT: this
  panics on a disk that is smaller, and reads any data as an entry on one that is larger. Reads
  at the end return one byte more. Empty files cannot be opened.
- Short names with a base of all eight characters and no extension, or of seven with
  one, never match; a name without an extension matches any; the beginning of a long
  name is enough. "." and ".." are never found, against the comment at `fat.c:962-963`.
- A long name whose short entry is gone hides the entry behind it, and a deleted fragment at
  the beginning of a directory the first five (`Hidden`).
- Taking a card out panics, and a card that has bounced out again fails an assertion.
- A card of version 1 does not answer CMD8, and the driver panics, although the comment
  in `sd_send_interface_condition` allows for it.
- Two cards inserted at once may get one letter or tear the list of disks.
- A region that a new window covers as a whole is not deleted and is drawn over it;
  a window that touches a region cuts it; each region is copied with one row
  too many.

## 5. Proofs

A theorem holds for every value of the constants that meets the named assumptions of
its modules, which TLC evaluates on every instance. Where a theorem needs more than
that, the hypothesis is in its statement. Each inductive invariant was first given
to TLC as an invariant of the run of its component.

| Module | Theorems (property of a run) | Inductive invariant | Assumptions beyond types and signs |
|---|---|---|---|
| `SchedProofs` | `ThreadsLinkedOnce`, `ThreadsKept`, `OnlyRunnableRuns`, `NextClear`, `SleepersSorted`, `TickToWakeCorrect`, `NobodyOverdue`, `MostUrgentChosen` | `SchedInv`, `SleepInv` | the idle thread and NULL are no threads, each thread has one of three classes |
| | `FpuKeepsScheduler`, `FpuEnabledForOwner`, `LazyIsPrivate` (refinement of `PrivateFpu`) | `FpuInv` | zero is a register content |
| | `TimerKeepsScheduler`, `TickIsNotAhead` (`TickNotAhead`), `WokenInTime` (`EarlyByTwoSlicesAtMost`) | `TimerInv` | a slice has at least one count |
| `PrintDmaProofs` | `OneTransferAtATime` (`OneTransfer`), `NoLengthLost` (`LengthsKept`) | `PrintInv` | none |
| `BuddyProofs` | `BlocksAreTiles` (`BlocksTile`), `BitIsRight` (`BitMeansOneFree`), `FreeIsCoalesced` (`Coalesced`), `BuddyIsAllocator` (refinement of `PageAllocator`) | `BuddyInv` | `Size` holds the powers of two; two pages or more, fewer than the widest block |
| `SlobProofs` | `HeapIsTiled` (`HeapTiled`), `ListSortedAndMerged` (`SortedAndMerged`), `RefusedOnlyWhenFull` (`RefusedOnlyIfFull`) | `HeapInv` | the heap is a whole number of alignment units |
| `LoaderProofs` | `OnePidOneThread` (`PidsUnique`), `EveryPidIsGiven` | `PidInv` | a word has two bits or more |
| | `OneUseOfAFrame` (`FramesApart`), `PagesStay` (`MappingsKept`) | `MemoryInv` | `Size` holds the powers of two; a segment is a part of its file and fits in its block, and so does what a break asks for; programs are linked under the stacks |
| | `ImageIsTheFile` (`ImageIsFile`) | `MemoryInv`, `FileInv` | the same |
| `NetworkProofs` | `AddressGranted` (`AddressIsGranted`), `PanicExplained` (`PanicOnlyIfDisturbed`), `CopyIsFile` (refinement of `FileCopy`) | `DhcpInv`, `TftpInv` | strangers' blocks are not the file's |
| | `NetInvariant`, `BuffersStayApart` (`BuffersApart`), `PacketsInOrder` (`DeliveredInOrder`), `StopsAreExplained` (`StopsExplained`) | `NetInv` | the list heads differ from each other, from NULL and from the buffers; the buffers are enough for both rings |
| `StorageProofs` | `SupportedNeverPanics` (`PanicOnlyIfUnsupported`), `CardsAddressedRight` | `StorageInv` | the shape of `Cards` |
| | `MountInvariant`, `CardsAreMounted` (`CardIsMounted`) | `MountInv` | no slot is a list head |
| | `FatInvariant`, `PositionsAgree` (`PositionIsOffset`), `MovesFailAtEnds` (`StopsAtChainEndOnly`) | `FatInv` | volumes in order (`VolumeAssumption`); a move over one name stays within what the code takes for two clusters (`FatAssumption`) |

**Scheduler.** `SchedInv` is inductive: types, no thread linked twice, no thread
lost, rq.next clear outside a pass, and only runnable threads run. The parts need
each other. Deleting the sleeping thread from its queue is only defined if it is
there (`CurrRunnable`), moving it keeps lists apart only if it was in one
(`LinkedOnce`), and the switch is harmless only if `rq.next` is not left over
(`NextOnlyInHandler`). `MoveThread` is the lemma for the two actions that move a
thread between its queue and the sleep list, `ListLemmas` has what appending, removing
and inserting do to a list's members.

`SleepInv` is inductive relative to `SchedInv`: the sleep list is sorted, the cached
tick is that of its head outside of a wake-up, and after the wake-up (`pc` in pick,
start, context, thread) nobody in the list is overdue. `PassDecision` is the
heart of it: the quick test `tick > tick_to_wake` skips the list only when the
head, and so everyone, is not overdue. The one exception is a sleeper with tick
0, which `ZeroSleeper` names.

`MostUrgentChosen` is an action property and follows from `SchedInv`, because the
wake-up precedes the pick and a pick only rotates a queue.

**Lazy FPU.** `FpuKeepsScheduler`: the composition implements `Sched`, so all the above
holds there. `FpuInv` adds that an enabled FPU belongs to the running thread and that a
thread not yet created neither owns the bank nor has anything but zeros on its stack;
the latter is what makes creation invisible. `LazyIsPrivate` is the refinement: every
step maps to a step of `PrivateFpu` or to a stutter.

**Timer.** Two accounts are kept in counts of the timer: the tick, with what the
counter and a pending interrupt hold that no pass was charged with yet (`Unaccounted`),
against the real time; and the same for each sleeper against the time it went to
sleep. Every step that lets time pass or charges it moves both sides by the same
amount, or errs to the safe side by what one pass may forget (`AccountArith`). A sleeper
is woken when its tick is reached, so that the account bounds how early this is.

**Print.** `PrintInv` ties `dma_done` to the channel (set means neither running nor an
interrupt to come), a thread's place in `flush_buffer` to `dma_done` (from the first
line on nobody else finds it set), and the length in its request to the length that is
cleared later. Without the last, a callback between the request and the clearing could
lose a length. It says this of any number of threads, as long as none has come into
another's `flush_buffer`, which `raced` tells; it is the first step of that kind, and not
what follows from it, that ends the promise.

**Buddy.** `BuddyInv`: the lists are injective and typed, `used` is the number of
pages given out, and the free blocks, the callers' blocks and the bits have a `Shape`:
the blocks tile the zone, a block that is free is not in use, a bit is the exclusive
or of "free" of its two buddies, and no two buddies are free. The bits speak of *all*
pairs, also of buddies that are split or inside a bigger block; a toggle keeps them
right only because exactly one of the two changes. `ShapeAlloc` is one split chain: a
block leaves, its upper parts of every smaller order enter, and each of their pairs
has its bit toggled. `ShapeFree` is a merge chain: a block in use goes up through
buddies that are free, each taken from its list, and stops at a bit that says the
buddy is not. Both are about sets and hold for any lists; `UnlinkFacts` and
`ConsFacts` say what the lists add. For the refinement, a run of free pages of
the size and alignment asked for lies in one free block (`RunInBlock`): otherwise two
buddies inside it would be free. So when all lists from the order on are empty, the
abstract allocator has nothing either (`NothingFits`), and the panic is its panic.

**Slob.** `HeapInv` is `SlobInv` until the heap has run over its end. `SlobInv`: the list is
ordered and ends with `last_node`, two free blocks have a gap between them, blocks of
callers and free blocks do not overlap and together cover what `slob_init` announced,
and `used` is what callers have. Insertion is one lemma about sets of blocks: a block
that is apart from all free ones adds its bytes, whether it is merged with the one before,
the one after, both or none. `RefusedOnlyWhenFull` needs the gaps: a free run of bytes lies in
one free block (`RunInBlock`), which first fit would have found (`FitIsFirst`). The same two
lemmas say when the heap runs over its end. First fit takes the lowest block, so that a
block that comes up to `last_node` means that no other is large enough for the request and
a smallest block.

**PIDs.** The free bits of a leaf are its upper ones, because the lowest goes first;
therefore the leaf is empty exactly when its last bit is taken, which is when
`alloc_pid` clears the bit in the root, and the root has the bits of the leaves that
are not empty. `EveryPidIsGiven` is the other direction: a thread goes without a
PID only when all were given.

**Memory of the processes.** A *place* is what can hold a frame: an entry of a level 2
table of a process, that table itself, and the two frames of its level 1 table.
`MemoryInv` says that the memory is in order: tables are linked only if they exist; a
frame at a place is neither free nor in the buffer being received (`FramesTaken`); no
frame is at two places (`Apart`); every frame at a place is on the list of pages or in
the image (`AllListed`); and mapped pages lie in the heap, the image or the stacks
(`Placed`). `FramesApart` alone is not inductive: it says nothing of tables without a
mapped page, nor of the frames between `alloc_pages` and the entry that gets
them. The second is why `InOrder` has a parameter, the frames that are *held*. The
lemmas go up with the calls: one entry is written (`WriteStep`), a section gets a table
from a frame whose bitmap is zero (`TableStep`), one turn of `mm_map_in_pages`
(`MapTurn`), all turns (`MapStep`), a block is allocated, listed and mapped
(`GrantStep`), then a stack, a heap, a process, an image, and the actions. `MapTurns`
unfolds the function behind the loop, whose existence is shown by a least counterexample
and not by the induction theorems. `MappingsKept` follows from what a turn leaves alone
and from `Placed`: where new pages go, only the heap can be. That a program is linked
below all stacks (`FileAssumption`) is up to the linker script of the application,
which is not in this repository; `MaxThreads` stacks of a page each are reckoned with.

**Image.** `FileInv`: the script and the board are never more than one packet apart.
Before packet n of a file is taken, its first n - 1 pages are in the buffer and
`write_ptr` is behind them; an `ok` on the line means that packet n was taken. A damaged
or lost packet or answer leaves this as it is, and so does giving up and starting
again, because the first packet of a session is the size and gets a new buffer. When
the last packet is taken, the buffer is the file, and `elf_init` maps a copy of its
segment that `MemoryInv` keeps apart from all that is allocated or received later. All of it
is said until a command or an answer is taken for another (`misread`).

**Clients.** `DhcpInv`: a request on the wire is for an address that was offered, an
acknowledgement for one that its server has leased. `TftpInv`: the copy is a prefix
of the file, the server is at most one block ahead of the client, and a packet of an
old block is on its way only if something was sent again. This holds for a transfer until
a stranger's packet comes in; the rest of it, that a panic has a cause, holds always: a
packet that came again, an error of the server, a stranger's packet or a block
number that has wrapped.

**Network stack.** `NetInv` is about what the links mean. It says that there are a
sequence of buffers for every list head and an owner for every buffer such that the
links of the pool and of each port go once round the sequence and back (`Ring`); those
of `arp_queue` lead from where the walk is to the head (`Path`), which is all that is left
of that list once its packets are sent again from the ring; the owner of a buffer is
the list, the descriptor or the application that has it (`SlotsOk`); and buffers
without an owner are counted by `dropped`. Owners make the invariant easy to keep: a
step changes the owner of one or two buffers, and one lemma per store of `list.h`
(`Freed`, `Removed`, `Queued`, `Parked`, `Walked`) says what it does to the sequences.
`OneQueued` is needed in one place: a packet that waits while `mac_unqueue` walks must be
for the address that is resolved, or the walk would leave it in a list whose links the
pool takes over. For `DeliveredInOrder` the receive ring is filled from `rx_index` on
(`RingOk`), and every frame in it has a place `P` among the frames that its port
accepted: the first ones are with the application, the next ones in the port's list
and the rest in the ring, in the order of the ring (`OrderOk`). For `StopsExplained`,
replies are counted: a host has sent one for each that waits in the receive ring, and one
more if its address is known (`RepliesOk`), so that a reply without a waiting entry was
not asked for or not the first. At last
`WalkIs` shows that the walk of `list_iterate` meets the sequence, by a least
counterexample, which makes the sets of `BuffersApart` those of the owners.

The proof corrected three things that the run of `Net` had passed. `ReceiveUdp` for the
reader's own port was never enabled, because `RecRaw` already kept `held` as it was; it is
now, and the run has the deliveries that it lacked. `BuffersApart` looked for waiting
packets from the head of `arp_queue` also while `mac_unqueue` walks, when its links
may lead into the pool already; and `StopsExplained` excused an unexpected ARP reply only
by a second request, although lists that packets for two addresses have broken
can bring one as well. Both held in the instance because it sends two packets.

**Storage.** `StorageInv` is a table: until a card is taken out or fails, it says for each
step of the driver the state its card is in, that the address the driver uses is the one the card published, that an application
command has its prefix, and that both ends of the bus have one width. The steps of
one slot leave the other's card alone (`SlotStep`), so each command is looked at once.

`MountInv` is about the lists while the kernel runs, where cards are inserted one by one (`oneByOne`; with two at
once nothing in the code keeps the threads apart, and `CardIsMounted` says so). It says
that only one thread is at work, and that there are sequences `D` of disks and `P` of
partitions whose links are in order (`Whole`), or are those of a `list_add_last` of
which some stores are done (`Adding`): the last node leads on to the new one after the first
store, and the new one leads to the head only after the third. `AddLastGoesOn` and
`AddLastEnds` follow the five steps, and `WholeKept` says that the other list is not
disturbed, because no node is in both. A slot's own part (`SlotOk`) relates its step to
what of it is listed: all FAT32 entries before the one that `index` points to, no others.
`WalkIs` shows that the walk meets the sequence and what its last node leads to, by a least
counterexample, and `WalksOk` that the walks of `disk_set_name`, `disk_add` and
`list_partitions`, node by node, are at such places; in the middle of an addition that may be the new node, whose zero
link ends it, which is why a mounted card stays listed while the next one is added. Letters
differ because the disk at place k has letter k: `ListSize` counts the walk. Numbers of
partitions differ because counting up to an entry that counts is injective
(`DigitFacts`), and `StorageInv` is what excludes a failed read in between.

**Files.** `FatInv` says of a call that goes on that its file object is `Placed`: its page
is the one that the chain of clusters puts at the file's offset, its offset in the page is
the rest, and that page is in the cache; the same of the position `fat_dir_read` will
restore. The chain is a function that applies the FAT again and again, and so is
`follow_cluster_chain`; `IterateExists` and `IterateUnique` prove once, by a least
counterexample, that such functions exist and agree, and `ChainOfClusters` and
`FollowChainLinks` take from them that the code's walk from the k-th cluster over n links
ends at the k+n-th. `PagesMoved` is the arithmetic of `fat_inc_file_ptr`: the cluster it
computes back from the page is the one it came from, and the clusters it counts are those
between the two offsets. This holds where `clust_mask` is `clust_order`. For larger clusters
the shifts undo each other and no move counts a cluster (`FatAssumption`: one page of a
cluster, the rest of a page and the longest jump over a long name are less than 2 ^
`ClustMask` pages), so that the page is always the first one and the pages moved over: right as
long as the clusters follow each other on the disk. `Sound` is these two cases, and
`RightAt` says that a position which is not right has passed the end of what is sound.
From there on only the cache is spoken of. `VolumeAssumption` says that clusters in use lead to clusters
in use or to the end mark, and that short entries hold numbers; of what lies behind the FAT
it says nothing but that words are words. `MovesFailAtEnds` follows: a panic, or an
error that the callers of `fat_inc_file_ptr` cannot see, never comes from inside of a
chain. Clusters are counted from `RootClust` at `DataStart` as in the code, which is right
for volumes whose root directory is cluster 2. That 2 ^ `PageOrder` and the like are positive is assumed, because the provers do not
compute powers; `LFN_SEQ_MSK` is 31 in the code, any number from 5 on here.

**Only model-checked.**
- Liveness (`EverySleeperWakes`, `RealTimeProgress`, `AllSent`, `DownloadEnds`): TLAPS
  has no support for fairness here.
- `Fat`: what a directory holds (`SearchAgrees`, `ListingAgrees`) is defined by recursion over
  the data of a volume, which would need an induction of its own.
- `Window`: overlaps of rectangles and folds over the descriptors.

## 6. Not modelled, and why

- `sched_kill_thread`, `sched_enable`/`sched_disable`, `slob_extend`, `free_pid`,
  `sd_check_high_speed`, `fat_sfn_compare` and `fat_file_name_to_sfn` have no callers in
  the repository. Freeing pages is modelled all the same in `Buddy`, being the other
  half of the allocator.
- Register frames, the kernel's own memory map, attribute bits of page table entries,
  cache and TLB maintenance are not visible to any property here.
- Several threads in the network stack at once: nothing in the code keeps them apart (the
  pool of `net/netbuf.c`, the transmit index of `drivers/gmac.c`), so that every property
  would fail for that one reason. The hazard list names them. For print, and for storage,
  where the race is between the two slots, it is modelled.
- Only the first composition of windows: a second one reuses the pool of regions
  without clearing the list of them.
- The display (`drivers/lcd.c`), clocks, pins, the bus matrix, `spi.c`, `timer.c`,
  `pit.c` and `random.c` are register writes; `arch/entry.s` and `entry/main.c` are
  straight-line setup. Fonts (`gfx/ttf.c`, `gfx/font.c`) parse and draw without shared
  state. The task manager prints. `worker.c`, `asid.c` and `fs_cache.c` are stubs.
- Formatting, and the fields of packets and entries that no property tells apart.

## 7. Plan

Everything in section 1 that has a module is checked. Open for a proof are `SearchAgrees`
and `ListingAgrees`, for volumes whose long names are marked right and whose chains and
entries are given as data.

Two parts of the code could be modelled further: the common DMA handler for several
channels, and a second composition of windows.
