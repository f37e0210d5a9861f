-------------------------- MODULE ThreadLifecycle --------------------------
(***************************************************************************)
(* What the scheduler promises about the life of a thread, without queues: *)
(* which states follow each other, that at most one thread runs, that a    *)
(* join returns only after the joined thread exited, and that an exit      *)
(* leaves nobody waiting for the exited thread.  Scheduler implements it.  *)
(***************************************************************************)
EXTENDS Integers

CONSTANTS
  Threads,
  Nobody    \* not a thread

VARIABLES
  status,   \* Threads -> Status
  waitsFor  \* Threads -> the thread it has joined, or Nobody

lifeVars == <<status, waitsFor>>

Status == {"new", "ready", "running", "asleep", "joining", "exited", "lost"}

\* The changes of state one thread may make in one step.
Edges == {
  <<"new", "ready">>,
  <<"ready", "running">>,
  <<"running", "ready">>,     \* preempted
  <<"running", "asleep">>,
  <<"running", "joining">>,
  <<"running", "exited">>,
  <<"asleep", "ready">>,
  <<"asleep", "running">>,    \* expired and switched to at once
  <<"joining", "ready">>,
  <<"ready", "lost">>,
  <<"asleep", "lost">>        \* expired, dequeued and dropped at once
}

LifeTypeOK ==
  /\ status \in [Threads -> Status]
  /\ waitsFor \in [Threads -> Threads \cup {Nobody}]

LifeInit ==
  /\ status = [t \in Threads |-> "new"]
  /\ waitsFor = [t \in Threads |-> Nobody]

\* Each thread stays as it is or follows an edge.
FollowsEdges ==
  /\ status' \in [Threads -> Status]
  /\ \A t \in Threads : status'[t] # status[t] => <<status[t], status'[t]>> \in Edges

\* A thread waits for another exactly while it is joining, and goes on
\* exactly when that one exits.
JoinsEndWithExit ==
  /\ waitsFor' \in [Threads -> Threads \cup {Nobody}]
  /\ \A t \in Threads :
       /\ waitsFor'[t] \in Threads <=> status'[t] = "joining"
       /\ waitsFor'[t] \in Threads => status'[waitsFor'[t]] # "exited"
       /\ waitsFor[t] \in Threads /\ waitsFor'[t] # waitsFor[t] =>
            status'[waitsFor[t]] = "exited" /\ waitsFor'[t] = Nobody

AtMostOneRuns ==
  \A t, u \in Threads : status[t] = "running" /\ status[u] = "running" => t = u

LifeNext == FollowsEdges /\ JoinsEndWithExit /\ AtMostOneRuns'

LifeSpec == LifeInit /\ [][LifeNext]_lifeVars
=============================================================================
