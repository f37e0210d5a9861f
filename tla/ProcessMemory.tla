--------------------------- MODULE ProcessMemory ---------------------------
(***************************************************************************)
(* The memory of the processes: their page tables (memory/virtual.rs),     *)
(* their memory areas (process/process.rs), the stacks of their threads    *)
(* (process/thread.rs), the heap system call and the page fault handler.   *)
(*                                                                         *)
(* An address space is behind a lock, so an operation on it is one action; *)
(* new_user_thread() holds no lock from end to end and is cut where others *)
(* can run in between.  Addresses are counted in units of which a page has *)
(* PageBytes.                                                              *)
(***************************************************************************)
EXTENDS PageTables

CONSTANTS
  Procs,        \* the user processes
  Kernel,       \* the kernel process
  NoRoot,       \* the process has no address space
  Programs,     \* what can be loaded: sequences of PT_LOAD page ranges
  StackEnd,     \* USER_STACK_END, as a page
  KernelStack,  \* frames of a kernel stack
  Device,       \* the pages device registers are mapped at
  RingCount,    \* frames of CORB and of RIRB
  DmaCount,     \* frames of the audio buffers of a stream
  PageBytes,    \* PAGE_SIZE
  Machines      \* the machines, each with the bounds on what runs on it:
                \*   stale   frames hold old data when they are handed out
                \*   device  device registers are mapped
                \*   procs   processes that exist at once
                \*   starts  processes ever created
                \*   areas   areas of a process
                \*   stack   pages of a user stack
                \*   sizes   bytes programs ask for

UserPages == {x \in Pages : x >= Limit /\ ~InRange(x, Device)}

\* The layout: devices above memory, and between a program and the stack
\* more pages than there are frames to fill them with.
ASSUME ProcessMemoryAssumption ==
  /\ Kernel \notin Procs /\ NoRoot \notin Frames
  /\ PageBytes \in Nat \ {0} /\ KernelStack \in Nat \ {0}
  /\ RingCount \in Nat \ {0} /\ DmaCount \in Nat \ {0}
  /\ Device.start >= Limit
  /\ StackEnd \in UserPages
  /\ \A prog \in Programs : \A i \in DOMAIN prog :
       prog[i].end + Limit < StackEnd

VARIABLES
  machine,   \* the machine the kernel runs on
  mem,       \* page tables, free frames and the fault, if any (PageTables)
  root,      \* root_table of each process
  areas,     \* memory_areas of each process
  life,      \* how far each process is
  stackCap,  \* capacity of the user stack Vec, in pages
  kstack,    \* first frame of the kernel stack
  exited,    \* exited_processes
  rings,     \* the frames of CORB and RIRB
  dma,       \* the frames alloc_no_cache_dma_memory() has granted
  stream,    \* the frames of the stream: its buffers and descriptor list
  tlb,       \* pages of dma the TLB holds as they were before NO_CACHE
  dirty,     \* frames the card reads whose data is only in the CPU's cache
  boot,      \* how far boot is
  starts     \* processes created so far

vars == <<machine, mem, root, areas, life, stackCap, kstack, exited,
          rings, dma, stream, tlb, dirty, boot, starts>>
procVars == <<areas, life, stackCap, kstack, exited>>
soundVars == <<rings, dma, stream, tlb, dirty>>

Everyone == Procs \cup {Kernel}
NoFault == Ok(mem)

\* The last steps of boot create the shell; programs run once it is over.
Booted == NoFault /\ boot \in {"playing", "done"}
Running == NoFault /\ boot = "done"

\* There is an address space for the process.
HasSpace(p) == root[p] # NoRoot

Init ==
  /\ machine \in Machines
  /\ mem = [tab |-> [f \in Frames |-> Leftover(machine.stale)], free |-> Frames \ {0},
            fault |-> "none", stale |-> machine.stale]
  /\ root = [p \in Everyone |-> NoRoot]
  /\ areas = [p \in Procs |-> <<>>]
  /\ life = [p \in Procs |-> "none"]
  /\ stackCap = [p \in Procs |-> 0]
  /\ kstack = [p \in Procs |-> 0]
  /\ exited = <<>>
  /\ rings = {} /\ dma = {} /\ tlb = {} /\ dirty = {}
  /\ stream = [buffers |-> {}, bdl |-> {}]
  /\ boot = "start"
  /\ starts = 0

\* map() and map_physical() on the address space of a process.
map_physical(m, p, frames, pages, space, flags) ==
  map_in_table(m, root[p], frames, pages, space, flags, Depth).m
map(m, p, pages, space, flags) ==
  map_physical(m, p, PageRange(0, 0), pages, space, flags)

\* AddressSpace::new(): one cleared table, in the lowest free frame.
NewRoot(m) == [alloc(m, 1) EXCEPT !.tab[Granted(m, 1)] = Zeroed]
-----------------------------------------------------------------------------
(* Boot *)

BootStep(from, to) == NoFault /\ boot = from /\ boot' = to

create_kernel_process ==
  /\ BootStep("start", "paging")
  /\ root' = [root EXCEPT ![Kernel] = Granted(mem, 1)]
  /\ mem' = map_in_table(NewRoot(mem), Granted(mem, 1), PageRange(0, 0),
                         PageRange(0, Limit), "Kernel", "kernel", Depth).m
  /\ UNCHANGED <<procVars, soundVars, starts>>

\* Framebuffer, APIC and sound card registers.
map_device ==
  /\ BootStep("paging", "devices")
  /\ mem' = IF ~machine.device THEN mem
            ELSE map(mem, Kernel, Device, "Kernel", "nocache")
  /\ UNCHANGED <<root, procVars, soundVars, starts>>

GrantedFrames(m, count) == Granted(m, count) .. Granted(m, count) + count - 1

\* CORB, then RIRB: frames like any other, which the kernel maps cacheable.
AllocRing ==
  /\ rings' = rings \cup GrantedFrames(mem, RingCount)
  /\ mem' = alloc(mem, RingCount)
  /\ UNCHANGED <<root, procVars, dma, stream, tlb, dirty, starts>>

init_corb == BootStep("devices", "corb") /\ AllocRing
init_rirb == BootStep("corb", "rings") /\ AllocRing

(***************************************************************************)
(* set_flags() changes the entries in memory and does not invalidate the   *)
(* TLB: the processor goes on caching a page whose old entry it holds,     *)
(* until CR3 is loaded again.  Data written to a cached page is in memory  *)
(* when the line is evicted or flushed, which may be too late for the card.*)
(***************************************************************************)
alloc_no_cache_dma_memory(m, count) ==
  LET frames == PageRange(Granted(m, count), Granted(m, count) + count)
  IN  set_flags_in_table(alloc(m, count), root[Kernel], frames, "nocache", Depth).m

\* What the processor does with a page of the identity mapping.
CachedBy(m, held, f) ==
  f \in held \/ translate_in_table(m, root[Kernel], f, Depth).flags # "nocache"

\* The driver fills frames; any of those that are cached may stay there.
CpuWrites(m, held, frames) ==
  \E d \in SUBSET {f \in frames : CachedBy(m, held, f)} : dirty' = dirty \cup d

\* Two commands are put at the beginning of CORB.
test_corb_and_rirb ==
  /\ BootStep("rings", "rings tested")
  /\ CpuWrites(mem, tlb, {Lowest(rings)})
  /\ UNCHANGED <<mem, root, procVars, rings, dma, stream, tlb, starts>>

init_dma_position_buffer ==
  /\ BootStep("rings tested", "position")
  /\ mem' = alloc_no_cache_dma_memory(mem, 1)
  /\ dma' = GrantedFrames(mem, 1)
  /\ tlb' \in SUBSET dma'
  /\ UNCHANGED <<root, procVars, rings, stream, dirty, starts>>

\* Stream::new(): the audio buffers, the descriptor list and its entries.
NewStream ==
  LET buffers == GrantedFrames(mem, DmaCount)
      allocated == alloc_no_cache_dma_memory(mem, DmaCount)
      bdl == GrantedFrames(allocated, 1)
  IN  /\ mem' = alloc_no_cache_dma_memory(allocated, 1)
      /\ dma' = dma \cup buffers \cup bdl
      /\ stream' = [buffers |-> buffers, bdl |-> bdl]
      /\ \E held \in SUBSET (buffers \cup bdl) :
           /\ tlb' = tlb \cup held
           /\ CpuWrites(mem', held, bdl)
      /\ UNCHANGED <<root, procVars, rings, starts>>

\* The self test plays a stream of its own, whose frames are never freed.
test_dma_position_buffer == BootStep("position", "tested") /\ NewStream
prepare_output_stream == BootStep("tested", "prepared") /\ NewStream

\* The samples of the demo.
demo_bachelor_presentation ==
  /\ BootStep("prepared", "written")
  /\ CpuWrites(mem, tlb, stream.buffers)
  /\ UNCHANGED <<mem, root, procVars, rings, dma, stream, tlb, starts>>

\* Leaves the caches alone.
Bug_NoFlush == UNCHANGED dirty

\* Writes back and invalidates the caches.
wbinvd == dirty' = {}

\* wbinvd, and then stream.run().
run_stream ==
  /\ BootStep("written", "playing")
  /\ wbinvd
  /\ UNCHANGED <<mem, root, procVars, rings, dma, stream, tlb, starts>>

\* The first switch to another thread loads CR3, which empties the TLB.
thread_switch ==
  /\ BootStep("playing", "done")
  /\ tlb' = {}
  /\ UNCHANGED <<mem, root, procVars, rings, dma, stream, dirty, starts>>
-----------------------------------------------------------------------------
(* Memory areas *)

overlaps_with(a, b) == ~(a.end <= b.start \/ a.start >= b.end)

\* Panics when the new area overlaps with an existing one.
CanAdd(list, area) == \A i \in DOMAIN list : ~overlaps_with(list[i], area)

area(pages, typ) == [start |-> pages.start, end |-> pages.end, typ |-> typ]

\* find_vma(): the first area of a type.
find_vma(list, typ) == SelectSeq(list, LAMBDA a : a.typ = typ)[1]

\* Changes the first area of the list.
Bug_UpdateFirst(list, old, start) == [list EXCEPT ![1].start = @ - 1]

\* update_vma() with the closure of grow_downwards().
update_vma(list, old, start) ==
  LET i == Lowest({k \in DOMAIN list : list[k] = old})
  IN  [list EXCEPT ![i].start = start]
-----------------------------------------------------------------------------
(* new_user_thread(): a process, its program, its stacks *)

create_process(p) ==
  /\ Booted /\ life[p] = "none" /\ starts < machine.starts
  /\ Running \/ starts = 0
  /\ Cardinality({q \in Procs : life[q] # "none"}) < machine.procs
  /\ starts' = starts + 1
  /\ IF ~CanAlloc(mem, 1)
     THEN mem' = Faulted(mem, "oom") /\ UNCHANGED <<root, life>>
     ELSE /\ root' = [root EXCEPT ![p] = Granted(mem, 1)]
          /\ mem' = copy_table(NewRoot(mem), root[Kernel], Granted(mem, 1), Depth)
          /\ life' = [life EXCEPT ![p] = "created"]
  /\ UNCHANGED <<areas, stackCap, kstack, exited, soundVars, boot>>

\* One PT_LOAD header: frames in a row, mapped in that order.
load_segment(acc, p, pages) ==
  LET count == pages.end - pages.start
      frames == PageRange(Granted(acc.m, count), Granted(acc.m, count) + count)
      mapped == map_physical(alloc(acc.m, count), p, frames, pages, "User", "user")
  IN  CASE ~Ok(acc.m) -> acc
        [] ~CanAlloc(acc.m, count) -> [acc EXCEPT !.m = Faulted(@, "oom")]
        [] OTHER ->
             [m |-> IF Ok(mapped) /\ ~CanAdd(acc.list, area(pages, "Code"))
                    THEN Faulted(mapped, "vma") ELSE mapped,
              list |-> Append(acc.list, area(pages, "Code"))]

load_program(p, prog) ==
  /\ Booted /\ life[p] = "created"
  /\ LET loaded == FoldLeft(LAMBDA acc, pages : load_segment(acc, p, pages),
                            [m |-> mem, list |-> <<>>], prog)
     IN  /\ mem' = loaded.m
         /\ areas' = [areas EXCEPT ![p] = loaded.list]
  /\ life' = [life EXCEPT ![p] = "loaded"]
  /\ UNCHANGED <<root, stackCap, kstack, exited, soundVars, boot, starts>>

\* The kernel stack and the first page of the user stack.
create_stacks(p) ==
  /\ Booted /\ life[p] = "loaded"
  /\ LET pages == PageRange(StackEnd - 1, StackEnd)
     IN  /\ mem' = IF ~CanAlloc(mem, KernelStack) THEN Faulted(mem, "oom")
                   ELSE LET mapped == map(alloc(mem, KernelStack), p, pages, "User", "user")
                        IN  IF Ok(mapped) /\ ~CanAdd(areas[p], area(pages, "Stack"))
                            THEN Faulted(mapped, "vma") ELSE mapped
         /\ areas' = [areas EXCEPT ![p] = Append(@, area(pages, "Stack"))]
  /\ kstack' = IF ~CanAlloc(mem, KernelStack) THEN kstack
               ELSE [kstack EXCEPT ![p] = Granted(mem, KernelStack)]
  /\ stackCap' = [stackCap EXCEPT ![p] = 1]
  /\ life' = [life EXCEPT ![p] = "active"]
  /\ UNCHANGED <<root, exited, soundVars, boot, starts>>
-----------------------------------------------------------------------------
(* A program runs *)

\* The pages are mapped before add_vma() looks whether they may be.
sys_map_user_heap(p, size) ==
  /\ Running /\ life[p] = "active" /\ Len(areas[p]) < machine.areas
  /\ LET start == find_vma(areas[p], "Code").end
         heap == area(PageRange(start, start + size \div PageBytes), "Heap")
         mapped == map(mem, p, heap, "User", "user")
     IN  IF Ok(mapped) /\ CanAdd(areas[p], heap)
         THEN mem' = mapped /\ areas' = [areas EXCEPT ![p] = Append(@, heap)]
         ELSE /\ mem' = IF Ok(mapped) THEN Faulted(mapped, "vma") ELSE mapped
              /\ UNCHANGED areas
  /\ UNCHANGED <<root, life, stackCap, kstack, exited, soundVars, boot, starts>>

\* user_stack_start() of the thread: where its Vec begins.
user_stack_start(p) == StackEnd - stackCap[p]

\* The handler's test whether addr is right below the user stack.
BelowStack(p, addr) ==
  /\ addr > (user_stack_start(p) - 1) * PageBytes
  /\ addr < user_stack_start(p) * PageBytes

\* StackAllocator::deallocate() ignores virtual addresses.
DropVec(m, start, count) ==
  IF start < Limit THEN freeData(m, start .. start + count - 1) ELSE m

\* Leaves the Vec as it was.
Bug_GrowWithoutCap(p) ==
  LET old == find_vma(areas[p], "Stack")
  IN  /\ mem' = map(mem, p, PageRange(old.start - 1, old.start), "User", "user")
      /\ areas' = [areas EXCEPT ![p] = update_vma(@, old, old.start - 1)]
      /\ UNCHANGED stackCap

\* One more page; the old Vec is dropped when the new one replaces it.
grow_user_stack(p) ==
  LET old == find_vma(areas[p], "Stack")
      grown == map(mem, p, PageRange(old.start - 1, old.start), "User", "user")
  IN  /\ areas' = [areas EXCEPT ![p] = update_vma(@, old, old.start - 1)]
      /\ stackCap' = [stackCap EXCEPT ![p] = @ + 1]
      /\ mem' = IF Ok(grown) THEN DropVec(grown, user_stack_start(p), stackCap[p]) ELSE grown

handle_page_fault(p, addr) ==
  /\ Running /\ life[p] = "active"
  /\ IF BelowStack(p, addr) THEN grow_user_stack(p)
     ELSE mem' = Faulted(mem, "page fault") /\ UNCHANGED <<areas, stackCap>>
  /\ UNCHANGED <<root, life, kstack, exited, soundVars, boot, starts>>

\* The addresses of the two pages below the stack, unmapped or not.
NearStack(p) ==
  {user_stack_start(p) * PageBytes - d : d \in 1 .. 2 * PageBytes}

\* A user thread touches an address that is not mapped.
touch_unmapped(p, addr) ==
  /\ Running /\ life[p] = "active" /\ stackCap[p] < machine.stack
  /\ translate_in_table(mem, root[p], addr \div PageBytes, Depth) = Unused
  /\ handle_page_fault(p, addr)

\* Scheduler::exit() of its thread, which drops the thread and its stacks.
exit(p) ==
  /\ Running /\ life[p] = "active"
  /\ mem' = DropVec(DropVec(mem, kstack[p], KernelStack), user_stack_start(p), stackCap[p])
  /\ exited' = Append(exited, p)
  /\ life' = [life EXCEPT ![p] = "exited"]
  /\ UNCHANGED <<root, areas, stackCap, kstack, soundVars, boot, starts>>

\* Forgets the heap.
Bug_DropKeepsHeap(m, p) ==
  LET code == SelectSeq(areas[p], LAMBDA a : a.typ # "Heap")
      unmapped == FoldLeft(LAMBDA a, vma : IF Ok(a) THEN unmap_in_table(a, root[p], vma, Depth).m
                                           ELSE a, m, code)
  IN  IF Ok(unmapped) THEN drop_table(unmapped, root[p], Depth) ELSE unmapped

\* Process::drop() unmaps every area, then the address space is dropped.
DropProcess(m, p) ==
  LET unmapped == FoldLeft(LAMBDA a, vma : IF Ok(a) THEN unmap_in_table(a, root[p], vma, Depth).m
                                           ELSE a, m, areas[p])
  IN  IF Ok(unmapped) THEN drop_table(unmapped, root[p], Depth) ELSE unmapped

\* The cleanup thread; a process may be created again later.
drop_exited_process ==
  /\ Running /\ exited # <<>>
  /\ mem' = FoldLeft(LAMBDA m, p : IF Ok(m) THEN DropProcess(m, p) ELSE m, mem, exited)
  /\ root' = [p \in Everyone |-> IF p \in ToSet(exited) THEN NoRoot ELSE root[p]]
  /\ life' = [p \in Procs |-> IF p \in ToSet(exited) THEN "none" ELSE life[p]]
  /\ areas' = [p \in Procs |-> IF p \in ToSet(exited) THEN <<>> ELSE areas[p]]
  /\ stackCap' = [p \in Procs |-> IF p \in ToSet(exited) THEN 0 ELSE stackCap[p]]
  /\ kstack' = [p \in Procs |-> IF p \in ToSet(exited) THEN 0 ELSE kstack[p]]
  /\ exited' = <<>>
  /\ UNCHANGED <<soundVars, boot, starts>>
-----------------------------------------------------------------------------
Boot ==
  \/ create_kernel_process
  \/ map_device
  \/ init_corb
  \/ init_rirb
  \/ test_corb_and_rirb
  \/ init_dma_position_buffer
  \/ test_dma_position_buffer
  \/ prepare_output_stream
  \/ demo_bachelor_presentation
  \/ run_stream
  \/ thread_switch

Next ==
  /\ \/ Boot
     \/ \E p \in Procs :
          \/ create_process(p)
          \/ \E prog \in Programs : load_program(p, prog)
          \/ create_stacks(p)
          \/ \E size \in machine.sizes : sys_map_user_heap(p, size)
          \/ \E addr \in NearStack(p) : touch_unmapped(p, addr)
          \/ exit(p)
     \/ drop_exited_process
  /\ UNCHANGED machine

Spec == Init /\ [][Next]_vars
-----------------------------------------------------------------------------
(* Properties *)

\* The tables below a table, each with its level and the first page it covers.
RECURSIVE Tables(_, _, _)
Tables(table, level, base) ==
  {<<level, base, table>>} \cup
  IF level = 1 THEN {}
  ELSE UNION {Tables(mem.tab[table][i].addr, level - 1, base + i * Fanout ^ (level - 1))
              : i \in {k \in Entries : mem.tab[table][k] # Unused}}

\* The pages mapped below a table; open says that user mode gets that far.
RECURSIVE Leaves(_, _, _, _)
Leaves(table, level, base, open) ==
  LET used == {k \in Entries : mem.tab[table][k] # Unused}
      Opens(i) == open /\ mem.tab[table][i].flags = "user"
  IN  IF level = 1
      THEN {[page |-> base + i, entry |-> mem.tab[table][i], open |-> Opens(i)] : i \in used}
      ELSE UNION {Leaves(mem.tab[table][i].addr, level - 1, base + i * Fanout ^ (level - 1),
                         Opens(i)) : i \in used}

MappedPages(p) == IF HasSpace(p) THEN Leaves(root[p], Depth, 0, TRUE) ELSE {}
PagesOf(p) == {l \in MappedPages(p) : l.page \in UserPages}
KernelPagesOf(p) == MappedPages(p) \ PagesOf(p)
PagesIn(range) == range.start .. range.end - 1
AreaPages(p) == UNION {PagesIn(areas[p][i]) : i \in DOMAIN areas[p]}

TypeOK ==
  /\ mem.tab \in [Frames -> [Entries -> {Unused} \cup
                    [addr : Pages, flags : {"kernel", "nocache", "user", "garbage"}]]]
  /\ mem.free \subseteq Frames /\ mem.stale \in BOOLEAN
  /\ mem.fault \in {"none", "oom", "wild", "free", "unwrap", "vma", "page fault"}
  /\ root \in [Everyone -> Frames \cup {NoRoot}]
  /\ life \in [Procs -> {"none", "created", "loaded", "active", "exited"}]
  /\ stackCap \in [Procs -> Nat] /\ kstack \in [Procs -> Frames]
  /\ exited \in Seq(Procs)
  /\ boot \in {"start", "paging", "devices", "corb", "rings", "rings tested", "position",
              "tested", "prepared", "written", "playing", "done"}
  /\ rings \subseteq Frames /\ dma \subseteq Frames /\ tlb \subseteq dma
  /\ dirty \subseteq rings \cup dma /\ stream \in [buffers : SUBSET dma, bdl : SUBSET dma]

(***************************************************************************)
(* Who uses which frame: one record for each table of an address space,    *)
(* each page of a program, each kernel stack, the card's rings and DMA     *)
(* memory.                                                                 *)
(***************************************************************************)
Uses ==
  UNION {{[by |-> <<p, "table", t[1], t[2]>>, frame |-> t[3]] : t \in Tables(root[p], Depth, 0)}
         : p \in {q \in Everyone : HasSpace(q)}}
  \cup UNION {{[by |-> <<p, "page", l.page, 0>>, frame |-> l.entry.addr] : l \in PagesOf(p)}
              : p \in Procs}
  \cup {[by |-> <<p, "stack", k, 0>>, frame |-> kstack[p] + k]
         : p \in {q \in Procs : life[q] = "active"}, k \in 0 .. KernelStack - 1}
  \cup {[by |-> <<Kernel, "dma", f, 0>>, frame |-> f] : f \in dma}
  \cup {[by |-> <<Kernel, "ring", f, 0>>, frame |-> f] : f \in rings}

\* Each frame of memory is free or has exactly one use: no table, program
\* page, stack or DMA buffer shares its frame with another, and what a
\* process had is back on the list once it has been dropped.  Every variable
\* has its type.
FramesHaveOneUse ==
  /\ TypeOK
  /\ NoFault =>
       LET used == Uses
           frames == {u.frame : u \in used}
       IN  /\ Cardinality(frames) = Cardinality(used)
           /\ frames = Frames \ ({0} \cup mem.free)

\* The page tables of a process let user mode reach exactly the pages of
\* its memory areas, through every level, whatever was mapped and grown.
AreasAreWhatIsMapped ==
  NoFault => \A p \in Procs :
    /\ {l.page : l \in {k \in MappedPages(p) : k.open}} = AreaPages(p)
    /\ {l.page : l \in PagesOf(p)} = AreaPages(p)

\* No two areas of a process overlap, though the stack grows without
\* asking add_vma(): memory runs out before it reaches the heap.  And the
\* stack's area begins where its Vec begins, so that the page fault handler
\* and the area agree on what "below" means.
AreasDisjoint ==
  NoFault => \A p \in Procs :
    /\ \A i, j \in DOMAIN areas[p] :
         i # j => PagesIn(areas[p][i]) \cap PagesIn(areas[p][j]) = {}
    /\ life[p] \in {"active", "exited"} =>
         find_vma(areas[p], "Stack") = area(PageRange(user_stack_start(p), StackEnd), "Stack")

(***************************************************************************)
(* What the driver wrote for the card to play is in memory when the stream *)
(* runs, whichever of its pages the TLB still held as cacheable while they *)
(* were written: without wbinvd NO_CACHE would not be enough.  From the    *)
(* first CR3 load on, the DMA pages are uncached in force.  NO_CACHE is on *)
(* the pages of dma and of devices and on no other (CORB and RIRB stay     *)
(* cached), and every address space has the kernel's pages and flags.      *)
(***************************************************************************)
DmaReachesMemory ==
  /\ Booted => dirty \cap (stream.buffers \cup stream.bdl) = {}
  /\ Running => \A f \in dma : ~CachedBy(mem, tlb, f)
  /\ Booted =>
       /\ {l.page : l \in {k \in KernelPagesOf(Kernel) : k.entry.flags = "nocache"}} =
            {x \in Pages : x \in dma \/ (machine.device /\ InRange(x, Device))}
       /\ \A p \in Procs : HasSpace(p) => KernelPagesOf(p) = KernelPagesOf(Kernel)

\* The kernel never follows an entry that is not a table's and never frees
\* a frame twice.
TablesAreSound == mem.fault \notin {"wild", "free"}

RECURSIVE SameShape(_, _, _)
SameShape(a, b, level) ==
  \A i \in Entries :
    /\ mem.tab[a][i] = Unused <=> mem.tab[b][i] = Unused
    /\ level > 1 /\ mem.tab[a][i] # Unused =>
         SameShape(mem.tab[a][i].addr, mem.tab[b][i].addr, level - 1)

\* Where the kernel's table has an empty entry, so has the copy made of it
\* for a process ("Skip empty entries").
EmptyEntriesSkipped ==
  \A p \in Procs : NoFault /\ life[p] = "created" => SameShape(root[Kernel], root[p], Depth)

\* The pages up to the stack; AreasAreWhatIsMapped says none is mapped above.
Window == 0 .. StackEnd - 1

\* AddressSpaces, with the page tables read as functions.
Abstract == INSTANCE AddressSpaces WITH
  Pages <- Window,
  Shared <- Window \ UserPages,
  Memory <- Frames,
  Devices <- {x \in Pages : InRange(x, Device)},
  NoFrame <- Fanout ^ Depth,
  trans <- [p \in Everyone |-> [x \in Window |->
              IF ~HasSpace(p) THEN Fanout ^ Depth
              ELSE LET e == translate_in_table(mem, root[p], x, Depth)
                   IN  IF e = Unused THEN Fanout ^ Depth ELSE e.addr]],
  alive <- {p \in Everyone : HasSpace(p)}

\* The theorems on AddressSpaces apply.
ASSUME AddressSpacesApply == Abstract!AddressSpacesAssumption

\* Until the kernel panics, each step on page tables is a step of
\* AddressSpaces: what one process maps, grows or gives back changes no
\* page of another, and new pages get frames nobody else has.
ImplementsAddressSpaces ==
  Abstract!Init /\ [][NoFault' => Abstract!Next]_(Abstract!vars)
=============================================================================
