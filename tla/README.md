# D3OS in TLA+

D3OS is a small operating system kernel for 64-bit PCs, written in Rust, with a
handful of user-mode libraries and applications. This directory holds TLA+
models of the parts of the kernel where order matters, the TLC configurations
that check them on small instances, and theorems the TLAPS proof system checks
for instances of any size.

A path such as `scheduler.rs:97` names a line of `src/os/kernel/src/...`.

## 1. The system and its parts

One CPU. Kernel code runs with interrupts enabled, except inside interrupt
handlers. Mutual exclusion is by spin locks (`spin::Mutex`, `spin::RwLock`),
which do not disable interrupts: code that an interrupt handler or the
scheduler may need has to use `try_lock`, force the lock, or never be
interrupted while it holds it. Most of what is hard about this kernel follows
from that sentence.

| part | state | operations | interacts with |
|---|---|---|---|
| physical memory (`memory/physical.rs`) | free list of frame blocks, `PHYS_LIMIT` | `insert`, `alloc`, `free`, `reserve` | boot, page tables, stack allocator |
| virtual memory (`memory/virtual.rs`) | page table trees, memory areas | `map`, `map_physical`, `unmap`, `set_flags`, `translate`, `from_other`, `drop`, `grow_downwards` | physical memory, processes, page faults |
| kernel heap, stack allocator (`memory/alloc.rs`) | heap, none | `alloc`, `dealloc`, `allocate`, `deallocate` | physical memory |
| scheduler (`process/scheduler.rs`) | `current_thread`, `ready_queue`, `sleep_list`, `join_map`, `initialized` | `ready`, `start`, `sleep`, `switch_thread`, `join`, `exit`, `block` | threads, timer, process manager |
| threads (`process/thread.rs`) | stacks and their lock, saved `rsp0`, TSS entry | `kickoff_kernel_thread`, `switch`, `switch_to_user_mode`, `grow_user_stack` | scheduler, address spaces |
| processes (`process/process.rs`) | active and exited lists, memory areas | `create_process`, `exit`, `drop_exited_process`, `add_vma`, `update_vma` | scheduler, address spaces |
| interrupt dispatcher (`interrupt/`) | handler vectors, one lock each | `assign`, `dispatch`, `handle_page_fault` | every driver, scheduler |
| APIC (`device/apic.rs`) | redirection table, overrides, local APIC | `new`, `allow`, `end_of_interrupt`, `start_timer` | dispatcher, scheduler |
| PIT (`device/pit.rs`) | `systime_ns`, `pending_incs` | `trigger`, `wait`, `systime_ms` | dispatcher, everybody who reads the time |
| system calls (`syscall/`) | table | `syscall_handler`, one function per call | scheduler, terminal, processes |
| keyboard, serial port (`device/ps2.rs`, `serial.rs`) | bounded byte queues | interrupt handler, `read_byte`, `write_str` | dispatcher, terminal, logger |
| terminal (`device/lfb_terminal.rs`) | cursor, colours, parser, character buffer | `write_byte`, `write_str`, `read_byte`, `clear`, cursor thread | keyboard, scheduler, graphics |
| logger (`log.rs`) | stream list, early serial port | `log`, `register`, `remove` | serial port, terminal, timer |
| sound (`device/ihda_*.rs`) | CORB and RIRB, stream descriptors, codec graph | `reset`, `init_corb`, `init_rirb`, `immediate_command`, `scan_for_available_codecs`, `Stream::new`, `configure_codec`, `run` | PCI, address spaces, interrupts |
| PCI bus (`device/pci.rs`) | list of devices | `scan`, `scan_bus`, `check_device`, `search_by_class` | boot, sound |
| speaker, QEMU config, ACPI, EFI | devices | register accesses, tables | boot |
| boot (`boot.rs`, `lib.rs`) | the order everything is set up in | `start` | all |
| user libraries and applications (`os/library`, `os/application`) | none of their own | system calls | system calls |

### What is hard

* **Preemption at any instruction.** The APIC timer calls `switch_thread()` from
  an interrupt. The scheduler's state lock is taken by one thread and released
  by another, from assembly, by force (`scheduler.rs:42`), and once more when
  the old guard goes out of scope.
* **Locks across a switch.** `switch_thread()` gives up when the current thread
  holds its stacks lock or the TSS is locked (`scheduler.rs:114`); `exit()` takes
  the process manager's lock with the scheduler locked (`scheduler.rs:158`).
* **Several locks at once.** A thread that spins with the scheduler's lock held
  cannot be preempted, and a handler that spins cannot be interrupted: either
  waits for ever if a thread holds what it needs. The heap is such a lock, and
  `format!`, `collect` and a queue that grows take it (`scheduler.rs:148`, 203).
* **Queues shared with a handler.** The keyboard's handler dequeues when there is
  no room, while a reader may be in the middle of its own dequeue (`ps2.rs:58`).
* **Order.** A join races the exit of the joined thread; the ramdisk is reserved
  after memory was handed out; an exited process may only be dropped when its
  page table is no longer loaded.
* **Boundaries.** A block of the free list that touches the range reserved, a
  page range that crosses a page table, a full ring, a cursor in the corner, a
  PCI device whose function numbers have a gap.
* **Hardware beside the kernel.** A sound card acknowledges a bit late or never,
  or was left running by the firmware; interrupts arrive at other lines than the
  driver asked for; a frame holds old data when it becomes a page table; the TLB
  keeps an entry, and the cache the data, that memory no longer agrees with.

### What makes each part correct

* Physical memory: every frame is free or has one owner; the list stays sorted
  and fused; reserved frames stay out of it.
* Virtual memory: page tables, memory areas and the stack's `Vec` agree; processes
  share the kernel's pages and nothing else; a dropped process gives back all
  it had, and tables are never followed or freed by mistake; what the driver has
  written for the sound card is in memory when the card reads it.
* Scheduler and threads: each thread is in one place, the loaded address space
  is alive, nobody overtakes in the queue, sleepers wake, and the state lock
  excludes although it is forced open.
* Interrupts: what is unmasked has a handler, what is in service is
  acknowledged by its own handler, no vector stays locked, no tick is lost.
* Terminal: the cursor, the character buffer and the status bar survive every
  sequence; writers do not mix their sequences.
* Input: a handler always finds room for its byte, the decoder sees the bytes in
  order, and a reader gets a byte when there is one.
* All locks together: the waits that can never end are known, and threads do not
  wait for each other in a circle.
* PCI: the scan finds every device that can be reached, once.
* Sound: answers belong to their commands, a running engine is not
  reprogrammed, every wait ends, and a stream that plays is heard.

`PROJECT.json` lists these as hazards, each at its line with the properties
that cover it, or the reason none does yet.

## 2. Modules

`FramePool`, `ThreadLifecycle` and `AddressSpaces` are abstract specifications;
`MC...` modules give constants their values; `..._proofs` modules hold theorems.
A definition named `Bug_...` is a plausible mistake in the definition that
follows it. No specification uses it; `PROJECT.json` names, for every property,
the mistake that property catches.

    FramePool        <-implements-  PageFrameAllocator
    AddressSpaces    <-implements-  ProcessMemory  --extends-->  PageTables
    ThreadLifecycle  <-implements-  Scheduler  ..justified by..  SchedulerLock
    Interrupts      Input      Terminal      KernelLocks
    Sound  --extends-->  PciBus
    Lists  <-extends-    PageFrameAllocator, Scheduler

### PageFrameAllocator (and FramePool)

`freeList` is the linked list of `PageFrameNode`s as a sequence of ranges in
list order: a node's address is the block's start, `frame_count` its length.
`physLimit` is `PHYS_LIMIT`; `grants` (the ranges callers own) and `withheld`
(the frames `reserve()` took off the list) are history the code does not keep.
Each operation runs under one lock and is one action: `insert_region` (one
region of the boot memory map through `physical::insert`), `reserve_kernel_image`,
`reserve_initrd`, `alloc`, `free_grant` (a stack is freed as it was allocated)
and `free_frame` (page tables free frame by frame). `free_block` is the loop of
`physical.rs:183` with its three exits; `reserve_block` is written as what is
left of a block below and above the range (`Below`, `Above`) and which blocks the
loop looks at (`Examined`): after unlinking a block the loop steps over the next
one. Cutting a list down to some of its positions is `Sublist` of the module
`Lists`, which `Scheduler` uses too, for `retain`. Memory is counted in frames, so
the alignment of regions in `boot.rs:320-321` is an input: the memory maps are
those after it, without a region that it would leave empty or inverted.

`FramePool` is the contract: frames are unknown, free, granted or withheld, and
an operation moves frames between those classes. `ImplementsFramePool` is the
refinement, with the free class read off the list.

### PageTables, ProcessMemory (and AddressSpaces)

`PageTables` has the algorithms of `virtual.rs` on a tree of `Depth` levels with
`Fanout` entries: `map`, `map_physical`, `unmap`, `set_flags`, `from_other` and
`drop` as operators from the memory before to the memory after. A frame *is* a
table when it is read as one, so that a frame nobody cleared yields entries that
point anywhere, and following one is a recorded fault. The
operators keep the code's loop order, the entry it starts from, its early
returns and the page counts it returns.

`ProcessMemory` is their use: the steps of boot that map memory and devices and
give the sound driver its memory; `create_process`; `new_user_thread` in the
pieces between which other threads run (load the program's pages, map the stack, make the thread); the heap
system call; growth of the user stack by a page fault; exit and drop. State: the
memory, each process's root table, memory areas and kernel stack, and how far
each process is. A frame is allocated first fit, as `PageFrameAllocator` shows.
`machine`, chosen in the initial state, says whether frames hold old data,
whether there is a device, and how much programs do.

Of the processor it has what decides whether the sound card sees what the driver
writes. `set_flags()` marks pages `NO_CACHE` and does not invalidate the TLB
(`virtual.rs:160`), and nothing else in the kernel does until a thread switch
loads CR3, so `tlb` is an arbitrary subset of the pages marked so far; data
written to a page that is cached, by its entry or by the TLB, may stay in the
cache (`dirty`) until `wbinvd`. That is why the comments at `ihda_api.rs:79` and 99
report that without it there is no sound although all pages are `NO_CACHE`, and
`DmaReachesMemory` fails without it too. CORB and RIRB (`rings`) come from plain
`alloc()` and stay cached; the two self tests run before `wbinvd`. What the card
reads then depends on its snooping the caches, and the property is about the
stream that is played. Lines that were dirty before a page became uncached are
left out: a processor snoops its own caches on an uncached access.

`AddressSpaces` is the contract: each process has a partial function from pages
to frames. `ImplementsAddressSpaces` walks the tables to find it.

### Scheduler (and ThreadLifecycle)

One action per critical section of the state lock. `readyQueue`, `sleepList`,
`joinMap`, `current`, `initialized` are the fields of `Scheduler`; `active` and
`exited` are those of the process manager; `cpu`, `loaded` and `rsp0` are the
kernel stack, CR3 and TSS entry the CPU uses. Starting an application is two
critical sections, between which its creator loads the program and may be
preempted: `application_start` (`create_process` lists the process as active, under
the process manager's lock) and `application_ready` (`ready` enters the thread into
the join map and the ready queue, under the state lock). `creator`
is who started it. `phase` says how far each thread
is through its creation and `kickoff_kernel_thread()`, and `inWindow` that it holds its stacks
or the TSS lock there. `block()` runs with interrupts enabled and is three
actions (`block_poll`, `block_pop`, `block_switch`), so that ticks come between.
`switch_thread` is the timer's preemption with all its early returns, including
the one that drops the thread it has dequeued. Sleep times are ticks left.

`ThreadLifecycle` is the contract: the states a thread goes through, that a
join ends exactly when its target exits, that at most one thread runs.

### SchedulerLock

The same switch, lock by lock: the state lock, every thread's stacks lock, the
TSS lock and the process manager's lock are variables, and each thread has two
program counters, one for its own code (`pc`) and one for the timer handler on
top of it (`irq`). A timer interrupt may come at every location of a thread's own
code. Queues are sets here; their order is `Scheduler`'s business. This model
justifies that `Scheduler` treats a critical section as one step.

### Interrupts

`BootSteps` is what `start()` does from the timer on: assign a handler, allow a
line, plug in each driver, start the APIC timer, start the scheduler.
`redirection` and `overrides` are the IO-APIC's table and what firmware says of
it; `irr` and `isr` the local APIC's requests and interrupts in service;
`handlers` and `vectorLock` the dispatcher's vectors. Each thread has a `frame`:
how far the interrupt on its stack is. Handlers run with interrupts disabled,
so a dispatch is cut in two only when the APIC timer's handler switches threads
and leaves its `dispatch()` half done on the old stack, its vector still locked.
A tick of the PIT is raised only when the one before has been dispatched: what
the hardware coalesces never reaches the kernel, and `NoTickLost` is about the
ticks that do. `systime`, `pending` and `readers` are the PIT's time, the increments its
handler could not apply and those who hold the time's read lock. The logger's
lock is there because the sound card's handler takes it.

### Input

The keyboard's and the serial port's queue, their interrupt handlers and the
readers in the terminal's `read_byte()`. The queue is the crate `nolock`
(external): a dequeue takes the byte and gives its slot back in a second step,
and a reader may be interrupted between the two. A handler is one action, or one
per byte for the serial port, which drains its FIFO in a loop while more bytes
arrive. `decoder` is the lock `read_byte()` holds while it polls and decodes, and
`fed` the last byte the decoder was given. Bytes are numbered as they come; which
characters they make is left out.

### KernelLocks

The other modules look at one component and its lock; this one looks at all of
them. Each function is its *script*, the sequence of its lock steps, put together
from the scripts of the functions it calls, so that the definitions read like the
call graph: `draw_status_bar` is the process manager read-locked around a heap
operation, then the scheduler's lock around another, and so on. What a condition
decides that the model does not know is `Maybe`. The contexts are boot (from the
sound card's initialisation on), the kernel's threads, programs that make any
system call, and a handler on top of whatever runs: the timer, the sound card's
handler, which logs, and the page fault that grows a stack. A switch may lead to
any thread, since when threads wake is `Scheduler`'s business, so the model has
every preemption the kernel has. A thread is dropped by whoever has the last
reference to it (`drop_thread`, which frees its stacks): `exit()`, the timer's
`switch_thread()` when it gives up on the thread it has dequeued
(`scheduler.rs:114`), and the parent of an application that is gone already
(`syscall/mod.rs:84`). Locks nobody can wait for, and those that
`SchedulerLock` and `Interrupts` treat, are left out; the module names them with
the reason.

`KnownHangs` is the catalogue of waits that never end, as 24 pairs of operation and
lock. It is exact: `HangsAreKnown` shows that no other pair occurs, and each of
its pairs is reached.

### Terminal

`display` (characters, the buffered and the visible picture per character cell),
`cursor` and `color` are the structures behind the three
locks that every dispatch takes in this order. Every byte runs
through a copy of the shared parser, and what it dispatches is one action; the
bytes of two writers, the echo of `read_byte()` and the blinking cursor
interleave. Positions are `u16`: where the code subtracts below zero, a build
without overflow checks wraps and one with them panics, and the model chooses
the build at the first such place. Indexing the character buffer outside of its
bounds panics in every build. `Scrolled` is n calls of `scroll_up()` at once, as
`position()` makes them in a loop.

### Sound

The driver is sequential and its `driver.at` names the step it
is about to execute; the card is a second actor that acknowledges bits and
answers commands some time later, or never. Two registers are read, changed and
written back while the card may change them (`SDCTL` and `ICSTS`), and are two
steps. The driver's first step, `init_pci`, scans the buses: `PciBus` has the scan
as a function from a configuration space to a list of devices (`scan_bus` is a
recursive function of the depth of its calls, which end because firmware numbers
the buses as a tree: `BridgesFormTree`), and,
beside it, what a scan should find, stated without a walk. A 32-bit value is the
pair of its 16-bit halves, so that commands, answers and addresses keep the
fields the code shifts out of them. `Machines` (in `MCSound`) describes PCI
devices, codecs and their answers; `found` is what the scan made of the answers,
`codec` what the commands have set.

## 3. Runs

| run | configuration | shows |
|---|---|---|
| `frames` | `PageFrameAllocator.cfg` | list sorted and fused, frames conserved and below `PHYS_LIMIT`, kernel image kept, first fit grants the lowest run, refinement of `FramePool` |
| `scheduler` | `Scheduler.cfg` | each thread in one place, join map and process lists name the living, CPU context, queue order, refinement of `ThreadLifecycle`; sleepers wake, ready threads run, exited processes are dropped |
| `lost` | `Scheduler_Lost.cfg` | **violation**: a preemption during a thread's start loses another thread (`scheduler.rs:114`) |
| `locks` | `SchedulerLock.cfg` | the state lock excludes and is released, `Thread::switch` never spins, switches lead to parked threads, the inductive invariant |
| `exit` | `SchedulerLock_Exit.cfg` | **violation**: `exit()` waits for a lock whose holder cannot run (`scheduler.rs:158`) |
| `kernel_locks` | `KernelLocks.cfg` | the waits that never end are the catalogued ones, no circular wait |
| `interrupts` | `Interrupts.cfg` | interrupts in service are being handled, unmasked ones have their handler, vector locks are accounted for, no tick is lost |
| `input` | `Input.cfg` | a handler always stores its byte, bytes reach the decoder in order, a reader gets its byte and lets go of the decoder |
| `process_memory` | `ProcessMemory.cfg` | every frame has one use, areas (and the stack's `Vec`) are what is mapped and stay disjoint until memory runs out, the stream the card plays is in memory and not only in the cache, its pages are uncached in every space, tables are sound, refinement of `AddressSpaces` |
| `stale_tables` | `ProcessMemory_Copy.cfg` | **violation**: entries `copy_table()` skips hold what was in the frame before (`virtual.rs:176`) |
| `terminal` | `Terminal.cfg` | cursor below the status bar and, until an unchecked build wraps, on the screen with accesses in bounds, sequences of two writers not mixed, status bar kept |
| `sound` | `Sound.cfg` | the PCI scan finds each device once, answers match commands, no running engine reprogrammed and every list playable, a playing stream reaches the jack, every wait ends |

Type invariants are conjuncts of an invariant of their run (`SortedAndFused`,
`EachThreadInOnePlace`, `IInv`, `HangsAreKnown`, `VectorLocksAccounted`,
`HandlersStore`, `FramesHaveOneUse`, `CursorInBounds`, `EngineWellProgrammed`).
The invariants of `scheduler` hold
in spite of `lost`: a thread that `switch_thread()` drops has the phase `lost`.

### Bounds

* `frames`: twelve frames and requests of up to three, over four memory maps
  with regions out of order, adjacent, separated and with frame 0 alone: enough
  for a freed block to touch a block below, above, both or none, and for a
  reserved range to cover several blocks.
* `scheduler`, `lost`: four threads (`MaxSleep` = 1 tick):
  enough for a sleeper, a joiner, a starting and an exiting thread at once, and
  for an application whose creator is preempted while it is being started.
* `locks`, `exit`: three threads: one running, one parked with a lock, one to
  switch to.
* `kernel_locks`: one thread that does the jobs of both kernel threads, and two
  interchangeable programs: a wait has a holder, a waiter and a handler, and a
  circle may have up to three threads. No other bound; operations repeat for ever.
* `interrupts`: the boot thread and two threads, three override tables (none,
  the PIT's, and two), the serial port on COM2 so that it shares its vector with
  the sound card, `MaxTicks` = 3: one tick applied, two pending at once.
* `input`: two readers, queues of `Capacity` = 2 (really 128: the smallest that
  leaves a slot for the handler while a reader has one), `Fifo` = 2, and
  `MaxBytes` = 5 per port: enough to overflow twice.
* `process_memory`: three levels of eight entries over 64 frames of memory, so
  that every table level is shared by some ranges and not by others. Two
  machines. In the first, frames hold old data, there is no device, and two
  processes live at once with small areas. With stale frames *and* a device it
  would meet the violation of `stale_tables`: without one, the tables that
  `copy_table()` does not clear have no entry it skips. In the second, frames are
  clean, there are device pages, and up to three processes run one after the
  other until memory is exhausted. Between a program and its stack there are more
  pages than frames, as on a real machine, so what keeps heap and stack apart is
  that memory runs out first. `RingCount` = 3 and `DmaCount` = 2 give the driver
  thirteen frames, seven of them uncached, with every combination of stale TLB
  entries.
* `terminal`: 3x3 characters, `TabSpaces` = 2, `CharacterSize` = 2 (really 12:
  the smaller the worse for `CursorInBounds`), two interchangeable writers,
  `MaxWrites` = 3, thirteen strings that use every sequence and cross every border.
* `sound`: sixteen machines (the usual ALC280, a selector on the path, a cyclic
  connection list, no jack, an answer that cannot be decoded, another device
  id, QEMU's codec, no codec, a codec at address 2, an unsupported device, an
  interrupt line without a vector, a CORB of 16 entries; and, for the scan, cards
  behind nested bridges or a missing function, two host controllers, a CardBus
  bridge, no host), each with a card fresh from reset and with one the firmware
  used; `Timeout` = 1 tick.

Runs with `CHECK_DEADLOCK FALSE` are those in which the system may stop for
good: the kernel panics, all threads wait for each other, or the bounded work is
done.

### Fairness

`Scheduler.FairSpec`: the timers keep firing (`tick`, `switch_thread`), the steps
of `block()` and of a starting thread go on, and the cleanup thread is not
preempted for ever before the next step of its loop (strong fairness: a time
slice is 10 ms and its loop body takes microseconds). No other thread has to do
anything. `SchedulerLock.FairSpec`: a section that can go on does, although the
timer interrupts it again and again, and the handler runs to its end.
`Input.FairSpec`: handlers run to their end, and a reader in the kernel goes on,
which is what `ReadyRuns` says of `Scheduler`; nobody has to type or to read.
`Sound.Spec`: the CPU executes the driver, and the PIT, which `start()` plugs in
before the sound card, keeps ticking; the card owes nothing.

### Observations without a run

Met while translating; the models reproduce them where they lie in a modelled
part, and no property excludes them.

* Memory: `reserve_block()` steps over the block after one it unlinks
  (`physical.rs:249`); the ramdisk is reserved after memory was handed out
  (`boot.rs:216`); `unmap` and `set_flags` skip an unused upper entry without
  advancing past its pages (`virtual.rs:243`); `set_flags` leaves the TLB alone
  (160), and CORB and RIRB are cached (`ihda_controller.rs:798`, 902).
* Locks, all in `KnownHangs`: `join()`, `exit()` and the status bar allocate with
  the scheduler locked (`scheduler.rs:135`, 148, 58), and so may `sleep()`,
  `ready()` and the timer's own handler (203), while a preempted thread holds
  the heap; `exit()` needs the process manager and, for its kernel stack, the
  frame list and `phys_limit()`'s lock, which a parent that drops an exited child
  may hold; so do `switch_thread()` and the timer when they drop a thread; a page
  fault needs all three with interrupts disabled
  (`interrupt_dispatcher.rs:212`); the sound card's handler logs, and so needs
  the logger and what the logger's streams need (`ihda_api.rs:27`).
* Input: when the queue overflows, the second byte of a two-byte scancode may
  survive its first (`ps2.rs:58`); two readers echo in the order in which they
  get the display, not in that of their bytes (`lfb_terminal.rs:179`).
* PCI: functions behind a missing one are not found (`pci.rs:135`); with several
  host controllers the assertion at 114 fails for the second; the headers of
  CardBus bridges are unwrapped as endpoints (155).
* Scheduler: `join()` unwraps the entry of a thread that may have exited already
  (`scheduler.rs:135`); `exit()` frees the kernel stack it still runs on (188).
* Interrupts: the loops over the redirection table and the IDT leave out the last entry
  (`apic.rs:125`, `interrupt_dispatcher.rs:190`); the APIC timer is started
  before its handler is assigned (`apic.rs:230`).
* Terminal: the limit of a set position is compared with `>` where the others
  use `<` (`lfb_terminal.rs:622`); moving left past column 0 wraps in a release
  build, `if column > 0` notwithstanding (587), and the next print or blink may
  then index outside of the character buffer; `clear_line` writes `'a'` (401); a copy of the
  parser that is written back may undo what another writer's copy collected
  (150); the panic handler prints although the terminal may be locked
  (`lib.rs:66`).
* Sound: a mixer's output amplifier is never unmuted (`ihda_controller.rs:1290`);
  read-modify-write of `SDCTL` clears status bits against its comments
  (`ihda_controller.rs:93`, 224); `reset()` never clears CRST (534); the self
  tests compare frames nobody cleared (942, 1033); a cyclic connection list
  makes the search for a path loop (`ihda_codec.rs:145`); the check of the gain
  cannot fail (448) and that of the index is off by one (449).

## 4. Theorems

Every theorem holds for all values of the constants that satisfy the named
assumptions; TLC evaluates those on the instances it checks. An invariant that
was proved was first checked by TLC together with its strengthening.

| module | theorems | states the run property |
|---|---|---|
| `SchedulerLock_proofs` | `LocksTrackLocations`, `StateLockExclusion`, `SwitchFindsLocksFree`, `SwitchFindsParkedThread` | `IInv`, `StateLockExcludes`, `SwitchNeverSpins`, `SwitchTargetParked` |
| `Scheduler_proofs` | `OnePlace`, `LivingListed`, `CpuContext`, `QueueIsFair`, `Refinement` | `EachThreadInOnePlace`, `ListsNameTheLiving`, `CpuContextMatches`, `NoOvertaking`, `ImplementsThreadLifecycle` |
| `PageFrameAllocator_proofs` | `ListStaysFused`, `NoFrameLost`, `LowestRunGranted`, `Refinement` | `SortedAndFused`, `FramesConserved`, `AllocGrantsLowestRun`, `ImplementsFramePool` |
| | `ProcessesAreIsolated`, `KernelIsEverywhere` | (of the contract `AddressSpaces`) |
| `Interrupts_proofs` | `InterruptsAcknowledged`, `TicksConserved`, `LocksAccounted`, `DriversAreWired` | `InServiceIsHandled`, `NoTickLost`, `VectorLocksAccounted`, `UnmaskedMeansHandled` |
| `KernelLocks_proofs` | `OnlyKnownHangs`, `NoCircle` | `HangsAreKnown`, `NoCircularWait` |
| `Terminal_proofs` | `CursorStaysInBounds`, `StatusBarStays`, `StringsAreParsedWhole` | `CursorInBounds`, `StatusBarKept`, `StringsStayWhole` |
| `Input_proofs` | `HandlersNeverPanic`, `DecoderSeesOrder` | `HandlersStore`, `BytesInOrder` |
| `Sound_proofs` | `ResponsesMatchCommands`, `EngineIsWellProgrammed`, `EachDeviceIsFound` | `AnswersMatchCommands`, `EngineWellProgrammed`, `ScanFindsEachDevice` |

**SchedulerLock_proofs**, for any set of threads: every variable has
its type (`TypeCorrect`), `IInv` is invariant (`LocksTrackLocations`), and
it implies the three safety properties of the run `locks`. The
properties are not inductive by themselves: that the state lock excludes says
nothing about why a forced unlock does not open a section another thread is in.
`IInv` adds the reason: the locations of the two contexts of the thread on the
CPU determine the value of every lock flag (`StateLockMeaning`,
`StacksLockMeaning`, `TssLockMeaning`), the handler only nests on code that may
be preempted (`HandlerNesting`), every other thread is parked in `thread_switch`
or gone (`OthersParked`), and the queues hold parked threads only
(`QueuesHoldParked`). The proof has one lemma per part of `Next` and one step
per action. The assumption is `LockAssumption`.

**Scheduler_proofs**, for any threads, boot order and sleep times. That each
thread is in one place is not inductive, because `exit()` empties a list of the
join map into the ready queue, `block()` one of the sleep list, and the current
thread enters any of the three: `IInv` adds that each list is free of duplicates
and disjoint from the others (`ListsDisjoint`), that whoever is in a list, or is
joined, has not ended (`ListsHoldTheLiving`), what is so while threads are only
being created by boot (`Booting`), that the process list has no duplicates, and
where the current thread's context is
(`OnTheCpu`). One lemma per action; what reversing, concatenating and selecting
do to a list without duplicates is proved first. `QueueIsFair` is an action
property: no step puts a thread ahead of one that waits already. `Refinement` shows that
every step is a step of `ThreadLifecycle` or leaves it alone: the status of a
thread follows from the list it is in (`StatusByList`), a joiner waits for one
thread (`WaitsForOne`), and each action changes statuses only along the
contract's edges (`AbstractStep`). `LifeInvariant`, `EndIsFinal` and
`JoinReturnsAfterExit` then say of the scheduler what callers rely on: at most
one thread runs, nobody waits for an exited thread, the end of a thread is final
and a join returns only after the exit. `SchedulerAssumption` says that the first
thread, and the cleanup thread, are the kernel's, and that boot creates every
kernel thread (`boot.rs:206-242`).

**PageFrameAllocator_proofs**, for any memory map and size of requests. `Sorted`
states the order for any two blocks of the list, where `SortedAndFused` speaks of
neighbours; a lemma for each of `insert`, `free_block`, `reserve_block` and first
fit says that it keeps `Sorted` and which frames it adds or takes.
`FramesConserved` is not inductive without it, nor without `NothingTakenYet`:
a region is inserted only while nobody has been given a frame. The action
property `LowestRunGranted` and the `Refinement` of `FramePool` follow from the
same lemmas, and `PoolClassesDisjoint` and `WithheldForGood` are the contract's
own: no frame is in two classes, and reserved frames stay reserved.
`MemoryMapsAssumption` is what the boot code relies on: regions do not overlap,
and the kernel image lies in available memory (`boot.rs:95`).

**Interrupts_proofs**, for any threads, vectors and override tables. An
interrupt is in service exactly while its handler is on the CPU; this needs to
know what the threads that wait have on their stacks: `ServiceInv` adds that a
waiting thread's frame is empty or was left by a switch, which acknowledges
before it switches (`WaitingFrames`). No tick is lost, and the time stands still
for its readers (`TimeStableForReaders`). A locked vector has a `dispatch()` or an
`assign()` that will release it. That an unmasked line has its handler needs the
order of boot: `WiringInv` ties the redirection table, the handler lists and the
devices switched on to the step `start()` has reached. `InterruptsAssumption` says
that drivers and vectors differ where the code's constants do;
`WiringAssumption` says what firmware is relied on for: overrides name IRQs of
the PC and send none to another driver's line, and no driver's line is an NMI
source or the last entry, which `Apic::new()` leaves unprogrammed.

**KernelLocks_proofs**, for any number of threads. What an operation does to locks is a
sequence of steps, and the argument is about that text. A context
holds a lock exactly if the next step on it in the rest of its script is a
release (`HeldX`, `HeldS`), and every script takes a lock only while all it holds
come earlier in one order (`Rank`, `TakesInOrder`), the scheduler's lock apart,
which has no place in the order: what is taken inside it is listed in
`KnownHangs`. Both are shown by rules that follow the way scripts are put
together (nothing, one after the other, inside a lock, perhaps, ending in a
switch) and applied to every system call, kernel thread, boot step and handler.
`IInv` carries this through execution: the lock table is what the scripts say
(`TableMatches`), who is not on the CPU does not hold the scheduler's lock
(`StateOnCpu`), boot runs before all threads and uses the terminal's locks
only inside the logger's (`BootFirst`), and what a handler on top still takes is
bounded by what interrupted (`HandlerScripts`). `NoCircle` follows because the
rank of the wanted lock would grow along the circle; `OnlyKnownHangs` because a
waiter whose holder cannot run again either holds the scheduler's lock, and then
wants a lock of the catalogue, or is a handler. The catalogue's completeness is a
theorem; that each of its pairs is reached is only known from TLC. The
assumption is `ContextsDistinct`.

**Terminal_proofs**, for any size of the screen, writers and strings. There is a
lemma for each thing the parser may call (print, line break, tabulator, every
cursor, erase and colour sequence): it leaves a well-typed terminal with the
cursor in a row below the status bar, keeps the bar (`Draws`), and keeps the
column on the screen unless the sequence overflows. `StatusBarKept` is not
inductive by itself: `flush()` shows the buffered picture, so the bar must be in
it wherever it is visible (`Barred`). `CursorInBounds` needs the same of the saved
position, and the arithmetic of `Index`: with at least two characters of buffer
per cell, one column too many is still in bounds. A loop over a list (the colour
parameters, the bytes of a string) is a recursive function, and what it computes
is shown by a least counterexample (`RunExists`, `RunType`, `RunUnique`).
`StringsAreParsedWhole` adds to the invariant that what is left of a string is its
end and that the copy of the parser is where the bytes before lead (`Parsed`).
`ScrollLoop` justifies that the model scrolls n lines at once. The assumptions are
`TerminalAssumption` (the screen and its buffer fit into `u16`, a `Character` has
at least two bytes) and `StringsAssumption` (parameters of a sequence are `u16`).

**Input_proofs**, for any readers, capacities from two on and numbers of
bytes: a handler always finds room, and the
decoder sees the bytes in order. Neither is inductive: a
handler finds room because at most one slot is in a reader's hands, and that is
so because only the holder of the decoder's lock dequeues, which is what `IInv`
adds. The assumption is `InputAssumption`; a capacity of one would not do.

**Sound_proofs**, for every machine (bridges, devices, codecs and what they
answer), every timeout, and any state the firmware may leave the card in.
`SoundInvariant` is the conjunction of five parts, each with a lemma for the
card, the driver and time:

* `CommandInFlight`: the busy bit is set only while the driver waits for the
  result, and the result valid bit it has read is the one it writes back.
  `AnswersMatchCommands` follows from it alone;
* `EngineStops`: the run bit is clear from `clear_stream_run_bit()` until the
  last access of the stream, also in the copy of `SDCTL` that is written back;
* `Registers`: types, and the write pointer of the CORB until the self test;
* `Buffers`: each list of buffers was written before the descriptor points to it,
  in a frame allocated after all others, and never again; the descriptor gets its
  address, length and last index together, or loses them together;
* `Commands`: what is still to be sent are commands whose payload fits the verb,
  and what the scan has learnt are codecs with widgets. Both come from answers:
  an answer is decoded against the command it belongs to, which is why this part
  needs `CommandInFlight`.

None of the last four is inductive alone. `EngineWellProgrammed` follows with the
sizes of the two streams. `EachDeviceIsFound` is about the recursion of
`scan_bus()`: by a least counterexample over the depth of its calls, what a call
returns is on its bus or below it, without repetition, and disjoint from what
calls for other buses of the same level return (`SoundLists`); and what is found
on a bus that bridges connect to bus 0 is found from bus 0 (`CompleteNesting`).
In the driver, `ScanKept` says that the list it searches is that of the scan. The
assumptions are about hardware and firmware: `PciAssumption` (addresses have 8, 5
and 3 bits; buses are numbered so that each bridge has its own secondary bus one
level further from bus 0, without which `scan_bus()` would not end) and
`CodecsAssumption` (codec addresses below 15, answers of 32 bits, node numbers
that fit a `u8`, which `scan_function_group_for_available_widgets()` adds up
unchecked).

The section on **address spaces** in `PageFrameAllocator_proofs` derives from the
contract `AddressSpaces` what programs rely on: no
frame is behind two private pages, and every process sees the kernel's pages as
the kernel does. Isolation is not inductive by itself, since a new process starts
with what the kernel maps: `KernelStaysOut` adds that the kernel maps no private
page. The hypothesis `AddressSpacesAssumption` is evaluated, for the mapping of
`ProcessMemory`, by its `ASSUME AddressSpacesApply`; the refinement, which TLC
checks, carries the theorems over to the page tables.

Only model-checked:

* liveness (`SleeperWakes`, `ReadyRuns`, `ExitedProcessReclaimed`,
  `StateLockReleased`, `ReadersProgress`, `EveryWaitEnds`): the proof system has
  no support for fairness;
* `ProcessMemory` and its refinement of `AddressSpaces`: `PageTables` recurs over
  the levels of a table with recursive operators, for which the proof system has
  no SMT backend, and each call changes the memory the next one walks;
* `StreamReachesJack`: it says what the whole scan has learnt when it ends, for a
  `machine.chain` that has to agree with the codec's answers; the theorems on
  `Sound` cover each command and answer, not that completeness;
* that each pair of `KnownHangs` really occurs.

## 5. Plan

Modelled first was what everything else stands on: frames, threads and their
locks; then page tables and processes, interrupts, the terminal and sound; then
the input queues, all locks together and the PCI scan. Proved since are the
safety invariants, action properties and refinements of the scheduler, the frame
allocator, interrupts, the input queues, the terminal, the kernel's locks, the
sound driver and the PCI scan. What remains:

1. the recursion of `PageTables` as recursive functions over the levels, and with it
   what `map` and `unmap` do to the translation of a page;
2. that the scan of a codec is complete, and with it `StreamReachesJack`.

## 6. Not modelled

The kernel heap is the external crate `linked_list_allocator`; its lock is in
`KernelLocks`. The speaker and the QEMU configuration keep no state that others
change; whether there is QEMU is a parameter of `Sound`. ACPI, EFI and multiboot
only supply tables (parameters of `Interrupts` and `PageFrameAllocator`). Of the
serial port, what sets its registers and `write_str` are left out: writing waits
for the port, which always becomes ready, and takes no lock; nothing calls its
`read_byte`, which is why its queue has a producer only. The panic handler stops
the system. User libraries wrap system calls, and applications are what the
threads of `Scheduler`, `ProcessMemory`, `Input` and `KernelLocks` may do. Register
contents, the assembly that saves them, pixels, fonts and sound samples are data
no property is about; the accessors, verbs and demos of the sound driver that
boot never calls, and the sequences of `ansi.rs` the terminal ignores, have no
behaviour to check. The loader and the build files are not part of the running
system.
