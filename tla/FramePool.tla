----------------------------- MODULE FramePool -----------------------------
(***************************************************************************)
(* What the physical memory manager promises its callers, with no free     *)
(* list: every frame of the machine is unknown, free, granted to a caller  *)
(* or withheld for good, and the operations move frames between those      *)
(* classes.  PageFrameAllocator implements it.                             *)
(***************************************************************************)
EXTENDS Integers

CONSTANT Frames  \* the page frame numbers of the machine

VARIABLES
  free,      \* frames the next allocation may hand out
  granted,   \* frames callers own
  withheld   \* frames taken out of circulation by reserve()

poolVars == <<free, granted, withheld>>

PoolTypeOK ==
  /\ free \subseteq Frames
  /\ granted \subseteq Frames
  /\ withheld \subseteq Frames

PoolInit == free = {} /\ granted = {} /\ withheld = {}

\* Frames that are in none of the three classes yet.
Unknown == Frames \ (free \cup granted \cup withheld)

\* S is a run of consecutive frames.
IsRun(S) == \A f, h \in S : f .. h \subseteq S

\* A boot-time region becomes available (frame 0 never does).
AddRegion ==
  /\ free \subseteq free'
  /\ free' \ free \subseteq Unknown \ {0}
  /\ UNCHANGED <<granted, withheld>>

\* A run of contiguous free frames changes hands.
Grant ==
  /\ free' \subseteq free
  /\ IsRun(free \ free')
  /\ granted' = granted \cup (free \ free')
  /\ UNCHANGED withheld

\* A caller gives back frames it owns.
GiveBack ==
  /\ free \subseteq free'
  /\ free' \ free \subseteq granted
  /\ granted' = granted \ free'
  /\ UNCHANGED withheld

\* Some of the free frames are withheld; nobody's frames are taken away.
Withhold ==
  /\ free' \subseteq free
  /\ withheld' = withheld \cup (free \ free')
  /\ UNCHANGED granted

PoolNext == AddRegion \/ Grant \/ GiveBack \/ Withhold

PoolSpec == PoolInit /\ [][PoolNext]_poolVars

(***************************************************************************)
(* No frame is in two classes: a free frame belongs to nobody, so alloc()  *)
(* never hands out memory that is in use or reserved (physical.rs:167).    *)
(***************************************************************************)
ClassesDisjoint ==
  /\ free \cap granted = {}
  /\ free \cap withheld = {}
  /\ granted \cap withheld = {}
=============================================================================
