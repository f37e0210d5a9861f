------------------------- MODULE PageFrameAllocator -------------------------
(***************************************************************************)
(* The physical memory manager (memory/physical.rs) and the boot sequence  *)
(* that feeds it (boot.rs, lib.rs): the memory map is inserted, the kernel *)
(* image is reserved, frames are allocated and freed, and in the middle of *)
(* that the initial ramdisk is reserved.                                   *)
(*                                                                         *)
(* The linked list of PageFrameNodes is a sequence of ranges; a node's     *)
(* address is its start and its frame_count is end - start.  Every         *)
(* operation runs under PAGE_FRAME_ALLOCATOR's lock and is one action.     *)
(***************************************************************************)
EXTENDS Integers, Sequences, FiniteSets, SequencesExt, FiniteSetsExt, Lists

CONSTANTS
  Frames,        \* page frame numbers 0 .. highest
  MemoryMaps,    \* possible boot memory maps: sequences of available ranges
  KernelImage,   \* the range the linker gave the kernel
  Initrd,        \* the range the boot loader put the ramdisk in
  MaxRequest     \* largest number of frames one alloc() asks for

IsRange(r) == r.start \in Nat /\ r.end \in Nat /\ r.start < r.end
Block(s, e) == [start |-> s, end |-> e]
Blocks == {b \in [start : Frames, end : Nat] : b.start < b.end}
FramesOf(r) == r.start .. (r.end - 1)
FramesIn(R) == UNION {FramesOf(r) : r \in R}

ASSUME RangesAssumption ==
  /\ Frames \subseteq Nat
  /\ MaxRequest \in Nat \ {0}
  /\ IsRange(KernelImage) /\ IsRange(Initrd)

\* What the boot code relies on: the regions of a memory map lie in memory and
\* do not overlap, and the boot loader "marks the kernel image region as
\* available" (boot.rs:95).
ASSUME MemoryMapsAssumption ==
  \A map \in MemoryMaps :
    /\ map \in Seq(Blocks) /\ FramesIn(ToSet(map)) \subseteq Frames
    /\ \A i, j \in DOMAIN map : i # j => FramesOf(map[i]) \cap FramesOf(map[j]) = {}
    /\ FramesOf(KernelImage) \subseteq FramesIn(ToSet(map)) \ {0}

VARIABLES
  memoryMap,  \* the map this boot was given
  scanned,    \* how many of its regions were inserted
  stage,      \* "scan" the map, "heap" is up, "initrd" is reserved
  freeList,   \* the nodes reachable from head.next, in list order
  physLimit,  \* PHYS_LIMIT
  grants,     \* ranges handed out by alloc() and not freed yet
  withheld,   \* frames reserve() took off the list
  panic       \* "none", or the panic that stopped the kernel

vars == <<memoryMap, scanned, stage, freeList, physLimit, grants, withheld, panic>>

FreeFrames == FramesIn(ToSet(freeList))
GrantedFrames == FramesIn(grants)
-----------------------------------------------------------------------------
(* The list operations of PageFrameListAllocator.  A definition named      *)
(* Bug_... is a plausible mistake in the operation it precedes; no         *)
(* specification uses it, the mutation runs of PROJECT.json do.            *)

\* Always appends, whatever the address.
Bug_InsertAtEnd(list, r) == Append(list, r)

\* insert(): before the first block with a higher address, else at the end.
insert(list, r) ==
  LET above == {i \in DOMAIN list : list[i].start > r.start}
  IN  IF above = {} THEN Append(list, r) ELSE InsertAt(list, Min(above), r)

\* Asks for more room than needed: exact fits are passed over.
Bug_FittingStrict(list, n) == {i \in DOMAIN list : list[i].end - list[i].start > n}

\* find_free_block(): the blocks that are large enough; the first is taken.
Fitting(list, n) == {i \in DOMAIN list : list[i].end - list[i].start >= n}

\* alloc_block() on a list with a fitting block: the rest goes back in.
alloc_block(list, n) ==
  LET i == Min(Fitting(list, n))
      remaining == Block(list[i].start + n, list[i].end)
      unlinked == RemoveAt(list, i)
  IN  IF remaining.start < remaining.end THEN insert(unlinked, remaining) ELSE unlinked

\* Fuses with the successor but leaves the successor linked.
Bug_FreeKeepsSuccessor(list, r) ==
  LET below == {i \in DOMAIN list : list[i].end = r.start}
      i == Min(below)
  IN  IF below # {} /\ i < Len(list) /\ r.end = list[i + 1].start
      THEN ReplaceAt(list, i, Block(list[i].start, list[i + 1].end))
      ELSE insert(list, r)

\* free_block(): grow the block above downwards, or the block below upwards
\* (and then fuse it with its successor), or insert a block of its own.
free_block(list, r) ==
  LET stop == {i \in DOMAIN list : r.end = list[i].start \/ list[i].end >= r.start}
      i == Min(stop)
      fusesNext == i < Len(list) /\ r.end = list[i + 1].start
  IN  CASE stop # {} /\ r.end = list[i].start ->
             ReplaceAt(list, i, Block(r.start, list[i].end))
        [] stop # {} /\ r.end # list[i].start /\ list[i].end = r.start /\ fusesNext ->
             ReplaceAt(RemoveAt(list, i + 1), i, Block(list[i].start, list[i + 1].end))
        [] stop # {} /\ r.end # list[i].start /\ list[i].end = r.start /\ ~fusesNext ->
             ReplaceAt(list, i, Block(list[i].start, r.end))
        [] OTHER -> insert(list, r)

\* The branch of reserve_block() that unlinks a block: it lies inside r.
Covered(b, r) == r.start <= b.start /\ b.end <= r.end

\* After unlinking a block the loop steps onto its successor without looking
\* at it: in a run of covered blocks every second one is examined.
Examined(list, r) ==
  LET others(i) == {j \in 1 .. i - 1 : ~Covered(list[j], r)}
  IN  {i \in DOMAIN list : (i - 1 - Max(others(i) \cup {0})) % 2 = 0}

\* What reserve_block() leaves of a block it examines: a part below r and one
\* above, each left out when empty.
Below(b, r) == Block(b.start, IF b.end < r.start THEN b.end ELSE r.start)
Above(b, r) == Block(IF b.start > r.end THEN b.start ELSE r.end, b.end)

\* The k-th part: the lower (odd k) or upper one of the block at (k + 1) \div 2.
Part(list, r, k) ==
  LET i == (k + 1) \div 2
  IN  CASE i \in Examined(list, r) /\ k % 2 = 1 -> Below(list[i], r)
        [] i \in Examined(list, r) /\ k % 2 = 0 -> Above(list[i], r)
        [] i \notin Examined(list, r) /\ k % 2 = 1 -> list[i]
        [] OTHER -> Block(list[i].end, list[i].end)

reserve_block(list, r) ==
  LET parts == [k \in 1 .. 2 * Len(list) |-> Part(list, r, k)]
  IN  Sublist(parts, {k \in DOMAIN parts : parts[k].start < parts[k].end})

\* Stepping past an unlinked block unwraps a None when it was the last one.
ReservePanics(list, r) ==
  LET n == Len(list) IN n > 0 /\ n \in Examined(list, r) /\ Covered(list[n], r)
-----------------------------------------------------------------------------
Init ==
  /\ memoryMap \in MemoryMaps
  /\ scanned = 0
  /\ stage = "scan"
  /\ freeList = <<>>
  /\ physLimit = 0
  /\ grants = {}
  /\ withheld = {}
  /\ panic = "none"

\* Inserts frame 0 like any other.
Bug_KeepsFirstFrame(r) == r

\* physical::insert() skips a region that is only frame 0 and cuts frame 0
\* out of any other.
WithoutFirstFrame(r) == IF r.start = 0 THEN Block(1, r.end) ELSE r

\* PHYS_LIMIT after a region that ends at end.
RaisedLimit(end) == IF end > physLimit THEN end ELSE physLimit

\* One region of the boot memory map.
insert_region ==
  /\ panic = "none" /\ stage = "scan" /\ scanned < Len(memoryMap)
  /\ scanned' = scanned + 1
  /\ LET region == memoryMap[scanned + 1]
         cut == WithoutFirstFrame(region)
     IN  IF region.start = 0 /\ region.end <= 1
         THEN UNCHANGED <<freeList, physLimit>>
         ELSE /\ physLimit' = RaisedLimit(cut.end)
              /\ freeList' = free_block(freeList, cut)
  /\ UNCHANGED <<memoryMap, stage, grants, withheld, panic>>

\* reserve(), called once for the kernel image and once for the ramdisk.
reserve(r, from, to) ==
  /\ panic = "none" /\ stage = from
  /\ stage' = to
  /\ IF ReservePanics(freeList, r)
     THEN panic' = "reserve" /\ UNCHANGED <<freeList, withheld>>
     ELSE /\ freeList' = reserve_block(freeList, r)
          /\ withheld' = withheld \cup (FreeFrames \ FramesIn(ToSet(freeList')))
          /\ UNCHANGED panic
  /\ UNCHANGED <<memoryMap, scanned, physLimit, grants>>

reserve_kernel_image == scanned = Len(memoryMap) /\ reserve(KernelImage, "scan", "heap")

reserve_initrd == reserve(Initrd, "heap", "initrd")

\* Allocations start with the kernel heap, after the image was reserved.
Running == panic = "none" /\ stage \in {"heap", "initrd"}

alloc(n) ==
  /\ Running
  /\ IF Fitting(freeList, n) = {}
     THEN panic' = "oom" /\ UNCHANGED <<freeList, grants>>
     ELSE LET first == freeList[Min(Fitting(freeList, n))].start
          IN  /\ freeList' = alloc_block(freeList, n)
              /\ grants' = grants \cup {Block(first, first + n)}
              /\ UNCHANGED panic
  /\ UNCHANGED <<memoryMap, scanned, stage, physLimit, withheld>>

\* What is left of a grant when one frame of it was freed.
Split(r, f) == {q \in {Block(r.start, f), Block(f + 1, r.end)} : q.start < q.end}

\* A stack is freed as it was allocated (StackAllocator::deallocate); pages
\* and page tables are freed frame by frame (unmap_in_table, drop_table).
free_grant(r) ==
  /\ Running /\ r \in grants
  /\ freeList' = free_block(freeList, r)
  /\ grants' = grants \ {r}
  /\ UNCHANGED <<memoryMap, scanned, stage, physLimit, withheld, panic>>

free_frame(r, f) ==
  /\ Running /\ r \in grants /\ f \in FramesOf(r) /\ r.end - r.start > 1
  /\ freeList' = free_block(freeList, Block(f, f + 1))
  /\ grants' = (grants \ {r}) \cup Split(r, f)
  /\ UNCHANGED <<memoryMap, scanned, stage, physLimit, withheld, panic>>

Next ==
  \/ insert_region
  \/ reserve_kernel_image
  \/ reserve_initrd
  \/ \E n \in 1 .. MaxRequest : alloc(n)
  \/ \E r \in grants : free_grant(r)
  \/ \E r \in grants : \E f \in FramesOf(r) : free_frame(r, f)

Spec == Init /\ [][Next]_vars
-----------------------------------------------------------------------------
TypeOK ==
  /\ memoryMap \in MemoryMaps
  /\ scanned \in 0 .. Len(memoryMap)
  /\ stage \in {"scan", "heap", "initrd"}
  /\ freeList \in Seq(Blocks)
  /\ physLimit \in Nat
  /\ grants \subseteq Blocks
  /\ withheld \subseteq Frames
  /\ panic \in {"none", "oom", "reserve"}

(***************************************************************************)
(* The list stays sorted by address and fully fused: between two           *)
(* neighbouring blocks there is always a frame that is not free.  free()   *)
(* promises it ("inserted ascending by address and fused with its          *)
(* neighbours", physical.rs:182) and first-fit relies on it.  Every        *)
(* variable has its type.                                                  *)
(***************************************************************************)
SortedAndFused ==
  /\ TypeOK
  /\ \A i \in 1 .. (Len(freeList) - 1) : freeList[i].end < freeList[i + 1].start

\* The frames the regions inserted so far made available.
Available ==
  FramesIn({memoryMap[i] : i \in 1 .. scanned}) \ {0}

\* The frames of the kernel image are neither free nor granted once boot has
\* reserved them, whatever is allocated and freed later (boot.rs:95).
KernelImageKept ==
  stage # "scan" /\ panic = "none" =>
    FramesOf(KernelImage) \cap (FreeFrames \cup GrantedFrames) = {}

(***************************************************************************)
(* No frame is lost and none is in two hands: the frames made available    *)
(* are exactly the free, the granted and the withheld ones, no two of      *)
(* these overlap, no two grants share a frame (physical.rs:39-52), and the *)
(* kernel image stays out of all of them.                                  *)
(* They all lie below PHYS_LIMIT: create_process() maps memory up to       *)
(* phys_limit() only (process.rs:37), so a frame beyond could be granted   *)
(* and never reached.                                                      *)
(***************************************************************************)
FramesConserved ==
  /\ Available = FreeFrames \cup GrantedFrames \cup withheld
  /\ FreeFrames \cap GrantedFrames = {}
  /\ withheld \cap (FreeFrames \cup GrantedFrames) = {}
  /\ \A g, h \in grants : g # h => FramesOf(g) \cap FramesOf(h) = {}
  /\ \A f \in Available : f < physLimit
  /\ KernelImageKept

\* The first frames of runs of n contiguous free frames.
FreeRuns(n) == {f \in FreeFrames : f .. (f + n - 1) \subseteq FreeFrames}

(***************************************************************************)
(* alloc(n) panics with "Out of memory" only when no n contiguous frames   *)
(* are free, however the free memory was fragmented, and otherwise grants  *)
(* the lowest such run and takes no other frame (physical.rs:148-179).     *)
(***************************************************************************)
AllocGrantsLowestRun ==
  [][\A n \in 1 .. MaxRequest : alloc(n) =>
       IF FreeRuns(n) = {}
       THEN panic' = "oom"
       ELSE /\ panic' = "none"
            /\ grants' \ grants = {Block(Min(FreeRuns(n)), Min(FreeRuns(n)) + n)}
            /\ FreeFrames' = FreeFrames \ (Min(FreeRuns(n)) .. Min(FreeRuns(n)) + n - 1)]_vars

(***************************************************************************)
(* The list allocator implements FramePool: each operation moves frames    *)
(* only between the classes its contract names (physical.rs:17-52).        *)
(***************************************************************************)
Pool == INSTANCE FramePool WITH free <- FreeFrames, granted <- GrantedFrames

ImplementsFramePool == Pool!PoolSpec
=============================================================================
