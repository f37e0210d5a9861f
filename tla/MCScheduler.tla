---------------------------- MODULE MCScheduler ----------------------------
(***************************************************************************)
(* The threads of the running system: the cursor and cleanup threads, the  *)
(* shell, and an application it starts.                                    *)
(***************************************************************************)
EXTENDS Scheduler

CONSTANTS cursor, cleanup, shell, app

MCBootThreads == <<cursor, cleanup, shell>>
=============================================================================
