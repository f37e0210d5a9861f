--------------------------- MODULE MCKernelLocks ---------------------------
(***************************************************************************)
(* KernelLocks with one thread that does the jobs of the kernel's two and   *)
(* with two programs, which are interchangeable.                            *)
(***************************************************************************)
EXTENDS KernelLocks, TLC

CONSTANTS boot, kernel, shell, app, handler, free

MCKernelThreads == {kernel}
MCUserThreads == {shell, app}

MCSymmetry == Permutations(MCUserThreads)
=============================================================================
