-------------------------- MODULE MCSchedulerLock --------------------------
(***************************************************************************)
(* Two kernel threads and a user thread.                                   *)
(***************************************************************************)
EXTENDS SchedulerLock

CONSTANTS cursor, cleanup, shell
=============================================================================
