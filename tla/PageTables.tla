----------------------------- MODULE PageTables -----------------------------
(***************************************************************************)
(* The page table algorithms of memory/virtual.rs on a scaled-down tree:   *)
(* Depth levels of tables with Fanout entries (4 and 512 on x86-64).       *)
(*                                                                         *)
(* Memory is a record m: m.tab[f] is frame f read as a page table, m.free  *)
(* the free frames, m.fault "none" or what stopped the kernel, and m.stale *)
(* says that frames hold old data when they are handed out, not zeroes.    *)
(* The code reaches a table through its physical address, so a table is    *)
(* named by its frame.  Each operator returns the memory it leaves behind; *)
(* the ones the code makes return a page count return [m, count].          *)
(* A definition named Bug_... is a plausible mistake in the one after it;  *)
(* only the mutation runs use it.                                          *)
(***************************************************************************)
EXTENDS Integers, Sequences, FiniteSets, SequencesExt

CONSTANTS
  Depth,   \* levels of page tables
  Fanout,  \* entries of a table
  Limit    \* phys_limit(): frames 0 .. Limit - 1 are memory

ASSUME PageTablesAssumption ==
  /\ Depth \in Nat \ {0} /\ Fanout \in Nat \ {0, 1} /\ Limit \in Nat
  /\ Limit <= Fanout ^ Depth

Frames == 0 .. Limit - 1
Pages == 0 .. Fanout ^ Depth - 1
Entries == 0 .. Fanout - 1

(***************************************************************************)
(* An entry is an address and flags: "kernel" and "nocache" pages are for  *)
(* the kernel, "user" pages for everybody.  is_unused() tests the whole    *)
(* entry, since page 0 of the kernel is mapped to address 0.               *)
(***************************************************************************)
Unused == [addr |-> 0, flags |-> "none"]
Garbage == [addr |-> Limit, flags |-> "garbage"]
Zeroed == [i \in Entries |-> Unused]

\* What an allocated frame contains when nobody has cleared it.
Leftover(stale) == [i \in Entries |-> IF stale THEN Garbage ELSE Unused]

Faulted(m, what) == [m EXCEPT !.fault = what]
Ok(m) == m.fault = "none"

\* Pages (or frames) from start up to, not including, end.
PageRange(start, end) == [start |-> start, end |-> end]
InRange(x, range) == range.start <= x /\ x < range.end
Lowest(S) == CHOOSE x \in S : \A y \in S : x <= y

page_table_index(page, level) == (page \div Fanout ^ (level - 1)) % Fanout
-----------------------------------------------------------------------------
(* memory/physical.rs, as PageFrameAllocator shows it: first fit *)

RunsOf(free, count) == {f \in free : f .. f + count - 1 \subseteq free}
CanAlloc(m, count) == RunsOf(m.free, count) # {}

\* The first frame granted; asked for only when CanAlloc.
Granted(m, count) == Lowest(RunsOf(m.free, count))

alloc(m, count) ==
  IF ~CanAlloc(m, count) THEN Faulted(m, "oom")
  ELSE [m EXCEPT !.free = @ \ (Granted(m, count) .. Granted(m, count) + count - 1)]

\* free() of frames that are free, or are not memory, corrupts the list.
free(m, frames) ==
  IF frames \cap m.free # {} \/ ~(frames \subseteq Frames) THEN Faulted(m, "free")
  ELSE [m EXCEPT !.free = @ \cup frames]

\* Frames that held data come back with the data in them.
freeData(m, frames) ==
  [free(m, frames) EXCEPT !.tab = [f \in Frames |-> IF f \in frames THEN Leftover(m.stale) ELSE @[f]]]

SetEntry(m, table, i, addr, flags) ==
  [m EXCEPT !.tab[table][i] = [addr |-> addr, flags |-> flags]]

\* A new frame for entry i, cleared (zero()) if zeroed, or as it was found.
NewFrame(m, table, i, flags, zeroed) ==
  IF ~CanAlloc(m, 1) THEN Faulted(m, "oom")
  ELSE LET f == Granted(m, 1)
       IN  SetEntry([alloc(m, 1) EXCEPT !.tab[f] = IF zeroed THEN Zeroed ELSE @], table, i, f, flags)

\* The code follows an entry to the table it points to.
FollowsWild(m, table, i) == m.tab[table][i].addr \notin Frames

(***************************************************************************)
(* for entry in table.iter_mut().skip(first) { body; if done { break } }.  *)
(* The accumulator acc is [m, pages, frames, count, done].                 *)
(***************************************************************************)
ForEntries(body(_, _), acc, first) ==
  FoldLeft(LAMBDA a, i : IF a.done \/ ~Ok(a.m) THEN a ELSE body(a, i),
           acc, [k \in 1 .. Fanout - first |-> first + k - 1])

\* How many of the pages lie in one level 1 table.
LeafCount(pages) ==
  LET left == Fanout - page_table_index(pages.start, 1)
  IN  IF pages.end - pages.start < left THEN pages.end - pages.start ELSE left

\* The entry indices of those pages.
LeafEntries(pages) ==
  LET first == page_table_index(pages.start, 1)
  IN  first .. first + LeafCount(pages) - 1

\* After a table of a lower level has handled count pages.
Advance(acc, m, count) ==
  LET pages == [acc.pages EXCEPT !.start = @ + count]
  IN  [m |-> m, pages |-> pages, count |-> acc.count + count,
       frames |-> IF acc.frames.end > acc.frames.start
                  THEN [acc.frames EXCEPT !.start = @ + count] ELSE acc.frames,
       done |-> pages.start >= pages.end]

Walk(m, pages, frames) ==
  [m |-> m, pages |-> pages, frames |-> frames, count |-> 0, done |-> FALSE]
-----------------------------------------------------------------------------
(* map(), map_physical() *)

identity_map_kernel(m, table, pages, flags) ==
  LET first == page_table_index(pages.start, 1)
      Mapped(i) == [addr |-> pages.start + (i - first), flags |-> flags]
  IN  [m EXCEPT !.tab[table] =
         [i \in Entries |-> IF i \in LeafEntries(pages) THEN Mapped(i) ELSE @[i]]]

\* One frame per page, wherever there is one.
map_user(m, table, pages, flags) ==
  ForEntries(LAMBDA a, i :
               IF i \notin LeafEntries(pages) THEN [a EXCEPT !.done = TRUE]
               ELSE [a EXCEPT !.m = NewFrame(a.m, table, i, flags, FALSE)],
             Walk(m, pages, PageRange(0, 0)), page_table_index(pages.start, 1)).m

\* Maps every page to the first frame.
Bug_SameFrame(m, table, frames, pages, flags) ==
  [m EXCEPT !.tab[table] =
     [i \in Entries |-> IF i \in LeafEntries(pages)
                        THEN [addr |-> frames.start, flags |-> flags] ELSE @[i]]]

\* The frames of the range in order, without the first start_index of them;
\* next().unwrap() panics when there is none left.
map_user_physical(m, table, frames, pages, flags) ==
  LET first == page_table_index(pages.start, 1)
      Frame(i) == frames.start + first + (i - first)
  IN  IF \E i \in LeafEntries(pages) : Frame(i) >= frames.end
      THEN Faulted(m, "unwrap")
      ELSE [m EXCEPT !.tab[table] =
              [i \in Entries |-> IF i \in LeafEntries(pages)
                                 THEN [addr |-> Frame(i), flags |-> flags] ELSE @[i]]]

map_leaf(m, table, frames, pages, space, flags) ==
  CASE space = "Kernel" -> identity_map_kernel(m, table, pages, flags)
    [] space = "User" /\ frames.start = frames.end -> map_user(m, table, pages, flags)
    [] OTHER -> map_user_physical(m, table, frames, pages, flags)

\* Tables on the way to the pages are made, and cleared, as they are needed.
RECURSIVE map_in_table(_, _, _, _, _, _, _)
map_in_table(m, table, frames, pages, space, flags, level) ==
  LET Descend(acc, i) ==
        LET there == IF acc.m.tab[table][i] # Unused THEN acc.m
                     ELSE NewFrame(acc.m, table, i, flags, TRUE)
        IN  IF ~Ok(there) THEN [acc EXCEPT !.m = there]
            ELSE IF FollowsWild(there, table, i) THEN [acc EXCEPT !.m = Faulted(there, "wild")]
            ELSE LET below == map_in_table(there, there.tab[table][i].addr, acc.frames,
                                           acc.pages, space, flags, level - 1)
                 IN  Advance(acc, below.m, below.count)
  IN  IF level = 1
      THEN [m |-> map_leaf(m, table, frames, pages, space, flags), count |-> LeafCount(pages)]
      ELSE ForEntries(Descend, Walk(m, pages, frames), page_table_index(pages.start, level))
-----------------------------------------------------------------------------
(* unmap(), set_flags() *)

is_table_empty(m, table) == \A i \in Entries : m.tab[table][i] = Unused

\* The frames behind the pages go back to the allocator, one by one: a frame
\* named by two of the entries is freed twice.
unmap_leaf(m, table, pages) ==
  LET used == {i \in LeafEntries(pages) : m.tab[table][i] # Unused}
      frames == {m.tab[table][i].addr : i \in used}
      freed == IF Cardinality(frames) < Cardinality(used) THEN Faulted(m, "free")
               ELSE freeData(m, frames)
  IN  [freed EXCEPT !.tab[table] = [i \in Entries |-> IF i \in used THEN Unused ELSE @[i]]]

\* Frees the table and keeps the entry.
Bug_DropKeepsEntry(m, table, i) ==
  LET below == m.tab[table][i].addr
  IN  IF ~Ok(m) \/ ~is_table_empty(m, below) THEN m ELSE free(m, {below})

\* A table that has become empty is given back and its entry cleared.
DropEmptyTable(m, table, i) ==
  LET below == m.tab[table][i].addr
  IN  IF ~Ok(m) \/ ~is_table_empty(m, below) THEN m
      ELSE SetEntry(free(m, {below}), table, i, 0, "none")

RECURSIVE unmap_in_table(_, _, _, _)
unmap_in_table(m, table, pages, level) ==
  LET Descend(acc, i) ==
        IF acc.m.tab[table][i] = Unused THEN acc
        ELSE IF FollowsWild(acc.m, table, i) THEN [acc EXCEPT !.m = Faulted(acc.m, "wild")]
        ELSE LET below == unmap_in_table(acc.m, acc.m.tab[table][i].addr, acc.pages, level - 1)
             IN  Advance(acc, DropEmptyTable(below.m, table, i), below.count)
  IN  IF level = 1
      THEN [m |-> unmap_leaf(m, table, pages), count |-> LeafCount(pages)]
      ELSE ForEntries(Descend, Walk(m, pages, PageRange(0, 0)),
                      page_table_index(pages.start, level))

RECURSIVE set_flags_in_table(_, _, _, _, _)
set_flags_in_table(m, table, pages, flags, level) ==
  LET Descend(acc, i) ==
        IF acc.m.tab[table][i] = Unused THEN acc
        ELSE IF FollowsWild(acc.m, table, i) THEN [acc EXCEPT !.m = Faulted(acc.m, "wild")]
        ELSE LET below == set_flags_in_table(acc.m, acc.m.tab[table][i].addr, acc.pages,
                                             flags, level - 1)
             IN  Advance(acc, below.m, below.count)
  IN  IF level = 1
      THEN [m |-> [m EXCEPT !.tab[table] = [i \in Entries |->
                      IF i \in LeafEntries(pages) THEN [@[i] EXCEPT !.flags = flags] ELSE @[i]]],
            count |-> LeafCount(pages)]
      ELSE ForEntries(Descend, Walk(m, pages, PageRange(0, 0)),
                      page_table_index(pages.start, level))
-----------------------------------------------------------------------------
(* from_other(), Drop *)

\* A level 1 table is copied one to one.
CopiedLeaf(m, source) == [i \in Entries |-> m.tab[source][i]]

\* A fresh table for each used entry, a copy of the last level.
RECURSIVE copy_table(_, _, _, _)
copy_table(m, source, target, level) ==
  LET Descend(acc, i) ==
        IF acc.m.tab[source][i] = Unused THEN acc
        ELSE LET there == NewFrame(acc.m, target, i, acc.m.tab[source][i].flags, FALSE)
             IN  [acc EXCEPT !.m = IF ~Ok(there) THEN there
                                   ELSE copy_table(there, there.tab[source][i].addr,
                                                   there.tab[target][i].addr, level - 1)]
  IN  IF level = 1
      THEN [m EXCEPT !.tab[target] = CopiedLeaf(m, source)]
      ELSE ForEntries(Descend, Walk(m, PageRange(0, 0), PageRange(0, 0)), 0).m

\* The tables themselves; the frames the last level points to are not freed.
RECURSIVE drop_table(_, _, _)
drop_table(m, table, level) ==
  LET Descend(acc, i) ==
        LET addr == acc.m.tab[table][i].addr
        IN  IF addr = 0 THEN acc
            ELSE [acc EXCEPT !.m = IF addr \notin Frames THEN Faulted(acc.m, "wild")
                                   ELSE drop_table(acc.m, addr, level - 1)]
      below == IF level = 1 THEN m
               ELSE ForEntries(Descend, Walk(m, PageRange(0, 0), PageRange(0, 0)), 0).m
  IN  IF ~Ok(below) THEN below
      ELSE [free(below, {table}) EXCEPT !.tab[table] = Zeroed]

RECURSIVE translate_in_table(_, _, _, _)
translate_in_table(m, table, page, level) ==
  LET entry == m.tab[table][page_table_index(page, level)]
  IN  IF entry = Unused THEN Unused
      ELSE IF level > 1 THEN translate_in_table(m, entry.addr, page, level - 1)
      ELSE entry
=============================================================================
