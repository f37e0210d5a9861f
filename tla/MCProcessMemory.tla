-------------------------- MODULE MCProcessMemory --------------------------
\* Small instances of ProcessMemory.
EXTENDS ProcessMemory

MCSymmetry == Permutations(Procs)

MCDevice == PageRange(Limit + Fanout - 2, Limit + Fanout + 1)

\* One PT_LOAD header, as os/application/link.ld gives, of two pages,
\* from the first page of the third root entry.
MCBase == Fanout ^ (Depth - 1)
MCPrograms == {<<PageRange(2 * MCBase, 2 * MCBase + 2)>>}
MCStackEnd == 2 * MCBase + 2 + Limit + Fanout

\* Two processes at once, and old data in every frame.
MCStaleMachine == [stale |-> TRUE, device |-> FALSE, procs |-> 2, starts |-> 2,
                   areas |-> 3, stack |-> 2, sizes |-> {5}]

\* One process after the other, until memory is exhausted.
MCCleanMachine == [stale |-> FALSE, device |-> TRUE, procs |-> 1, starts |-> 3,
                   areas |-> 4, stack |-> 50, sizes |-> {1, 5}]

MCMachines == {MCStaleMachine, MCCleanMachine}
MCStaleDevices == {[MCCleanMachine EXCEPT !.stale = TRUE]}
=============================================================================
