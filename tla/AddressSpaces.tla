--------------------------- MODULE AddressSpaces ---------------------------
(***************************************************************************)
(* What the virtual memory of D3OS promises its processes, without page    *)
(* tables: each process has a partial function from pages to frames.  A    *)
(* new one sees what the kernel maps; memory is added in frames nobody     *)
(* else uses; a process that is dropped gives all of it back.              *)
(***************************************************************************)
EXTENDS Integers

CONSTANTS
  Procs,    \* the user processes
  Kernel,   \* the kernel process
  Pages,    \* pages of an address space
  Shared,   \* the pages only the kernel maps
  Memory,   \* the frames of memory
  Devices,  \* the frames device registers are in
  NoFrame   \* the page is not mapped

\* The kernel is no user process, and a frame is a frame.
AddressSpacesAssumption ==
  /\ Kernel \notin Procs
  /\ Shared \subseteq Pages
  /\ NoFrame \notin Memory \cup Devices

VARIABLES
  trans,  \* for each process, the frame behind each page
  alive   \* the processes that have an address space

vars == <<trans, alive>>

Private == Pages \ Shared
Nothing == [x \in Pages |-> NoFrame]

\* The private pages of an address space f, and the frames behind them.
MappedIn(f) == {x \in Private : f[x] # NoFrame}
FramesIn(f) == {f[x] : x \in MappedIn(f)}

Mapped(p) == MappedIn(trans[p])
InUse == UNION {FramesIn(trans[p]) : p \in Procs}

Init ==
  /\ trans = [p \in Procs \cup {Kernel} |-> Nothing]
  /\ alive = {}

\* The kernel maps pages for itself, before there is any process.
MapKernel ==
  /\ alive \subseteq {Kernel}
  /\ alive' = {Kernel}
  /\ trans' = [trans EXCEPT ![Kernel] = trans'[Kernel]]
  /\ trans'[Kernel] \in [Pages -> Memory \cup Devices \cup {NoFrame}]
  /\ MappedIn(trans'[Kernel]) = {}

Create(p) ==
  /\ Kernel \in alive /\ p \notin alive
  /\ alive' = alive \cup {p}
  /\ trans' = [trans EXCEPT ![p] = trans[Kernel]]

\* The pages that two address spaces do not have in common.
Differing(f, g) == {x \in Pages : f[x] # g[x]}

\* The address space g is f with more pages, in fresh frames, one for each.
Extends(g, f) ==
  LET added == Differing(f, g)
  IN  /\ added \subseteq Private \ MappedIn(f)
      /\ {g[x] : x \in added} \subseteq Memory \ InUse
      /\ \A x, y \in added : g[x] = g[y] => x = y

\* More memory for a process.
Map(p) ==
  /\ p \in alive
  /\ trans' = [trans EXCEPT ![p] = trans'[p]]
  /\ trans'[p] \in [Pages -> Memory \cup Devices \cup {NoFrame}]
  /\ Extends(trans'[p], trans[p])
  /\ UNCHANGED alive

Drop(ps) ==
  /\ alive' = alive \ ps
  /\ trans' = [p \in Procs \cup {Kernel} |-> IF p \in ps THEN Nothing ELSE trans[p]]

Next ==
  \/ MapKernel
  \/ \E p \in Procs : Create(p) \/ Map(p)
  \/ \E ps \in SUBSET Procs : Drop(ps)

Spec == Init /\ [][Next]_vars
-----------------------------------------------------------------------------
TypeOK ==
  /\ trans \in [Procs \cup {Kernel} -> [Pages -> Memory \cup Devices \cup {NoFrame}]]
  /\ alive \subseteq Procs \cup {Kernel}

\* No frame of memory is behind two private pages, of one process or of two.
PrivateFrames ==
  \A p, q \in Procs : \A x \in Mapped(p), y \in Mapped(q) :
    trans[p][x] = trans[q][y] => p = q /\ x = y

\* Every process sees the kernel's pages exactly as the kernel does.
KernelPagesShared ==
  \A p \in alive \cap Procs : \A x \in Shared : trans[p][x] = trans[Kernel][x]
=============================================================================
