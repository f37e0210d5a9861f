----------------------------- MODULE Scheduler -----------------------------
(***************************************************************************)
(* The thread scheduler (process/scheduler.rs) with the life of a thread   *)
(* (process/thread.rs), the process list (process/process.rs) and the      *)
(* boot and cleanup code that drive them.                                  *)
(*                                                                         *)
(* One CPU.  An operation that holds the scheduler's state lock from end   *)
(* to end is one action; SchedulerLock shows that such sections exclude    *)
(* each other.  block() is cut where an interrupt can come in between:     *)
(* waiting for a ready thread, giving up the current thread, switching.    *)
(* A definition named Bug_... is a plausible mistake in the one after it;  *)
(* only the mutation runs use it.                                          *)
(***************************************************************************)
EXTENDS Integers, Sequences, FiniteSets, SequencesExt, Lists

CONSTANTS
  Threads,      \* every thread this run of the system ever creates
  UserThreads,  \* those created by new_user_thread(), each with a process
  BootThreads,  \* the sequence of threads boot readies, first one first
  Cleanup,      \* the kernel thread that drops exited processes
  MaxSleep,     \* longest sleep, in timer ticks
  NoThread,     \* current_thread = None
  KernelProcess \* the process of all kernel threads

ASSUME SchedulerAssumption ==
  /\ UserThreads \subseteq Threads
  /\ BootThreads \in Seq(Threads)
  /\ Threads \ UserThreads \subseteq ToSet(BootThreads)
  /\ Cleanup \in Threads \ UserThreads
  /\ BootThreads[1] \notin UserThreads
  /\ MaxSleep \in Nat
  /\ NoThread \notin Threads /\ KernelProcess \notin Threads

VARIABLES
  initialized,  \* ReadyState.initialized
  current,      \* ReadyState.current_thread
  readyQueue,   \* ReadyState.ready_queue; index 1 is the front of the deque
  sleepList,    \* sleep_list: thread and ticks left until its wakeup time
  joinMap,      \* join_map: thread -> the threads waiting for it
  phase,        \* how far each thread is (see Phases)
  inWindow,     \* the starting thread holds the TSS or its stacks lock
  blocking,     \* where the current thread is in block()
  cpu,          \* the thread whose kernel stack the CPU runs on
  loaded,       \* the process whose page table is in CR3
  rsp0,         \* the thread whose kernel stack the TSS points to
  active,       \* active_processes
  exited,       \* exited_processes
  creator,      \* the thread whose sys_application_start() created each one
  panic         \* "none", or the expect() that stopped the kernel

schedVars == <<initialized, current, readyQueue, sleepList, joinMap>>
cpuVars == <<cpu, loaded, rsp0>>
procVars == <<active, exited, creator>>
vars == <<initialized, current, readyQueue, sleepList, joinMap, phase, inWindow,
          blocking, cpu, loaded, rsp0, active, exited, creator, panic>>

(***************************************************************************)
(* "new": not created.  "loading": its process is created, its code is     *)
(* being loaded and its stacks made; its creator is "launching".  "entry", *)
(* "setup", "kind", "stack": on its way through kickoff_kernel_thread().   *)
(* "running": in its entry function or in user mode.  "cleaning": the      *)
(* cleanup thread, from its sleep() to the drop_exited_process() after it. *)
(* "exited": has called exit().  "lost": its reference was dropped by      *)
(* switch_thread().                                                        *)
(***************************************************************************)
Kickoff == {"setup", "kind", "stack"}
Phases == Kickoff \cup {"new", "loading", "entry", "running", "launching", "cleaning",
                       "exited", "lost"}

\* A process is named by the user thread it was created for.
process(t) == IF t \in UserThreads THEN t ELSE KernelProcess

\* Rust's VecDeque: threads enter at the front and leave at the back.
Bug_PushBack(queue, t) == Append(queue, t)
push_front(queue, t) == <<t>> \o queue

\* push_front() for each thread of a list in turn.
Bug_PushAllBack(queue, ts) == queue \o ts
pushAll_front(queue, ts) == Reverse(ts) \o queue

Sleepers == {sleepList[i].thread : i \in DOMAIN sleepList}
Joiners == UNION {ToSet(joinMap[t]) : t \in DOMAIN joinMap}

\* The current thread runs code of its own and the state lock is free.
Runs(t) ==
  /\ panic = "none" /\ blocking = "no"
  /\ current = t /\ phase[t] = "running"
-----------------------------------------------------------------------------
Init ==
  /\ initialized = FALSE
  /\ current = NoThread
  /\ readyQueue = <<>>
  /\ sleepList = <<>>
  /\ joinMap = <<>>
  /\ phase = [t \in Threads |-> "new"]
  /\ inWindow = FALSE
  /\ blocking = "no"
  /\ cpu = NoThread
  /\ loaded = KernelProcess
  /\ rsp0 = NoThread
  /\ active = <<KernelProcess>>
  /\ exited = {}
  /\ creator = [t \in Threads |-> NoThread]
  /\ panic = "none"

\* ProcessManager::create_process(), with the process manager locked.
create_process(p) == active' = Append(active, p)

\* Scheduler::ready(), with the state locked.
ready(t) ==
  /\ readyQueue' = push_front(readyQueue, t)
  /\ joinMap' = [u \in DOMAIN joinMap \cup {t} |-> IF u = t THEN <<>> ELSE joinMap[u]]

\* The threads created so far.
Created == {t \in Threads : phase[t] \notin {"new", "loading"}}

\* boot.rs and init_terminal() create and ready the boot threads in a fixed
\* order; nothing else runs before start().
boot_ready ==
  /\ panic = "none" /\ current = NoThread
  /\ Cardinality(Created) < Len(BootThreads)
  /\ LET t == BootThreads[Cardinality(Created) + 1]
     IN  /\ phase[t] = "new"
         /\ phase' = [phase EXCEPT ![t] = "entry"]
         /\ IF t \in UserThreads THEN create_process(process(t)) ELSE UNCHANGED active
         /\ ready(t)
  /\ UNCHANGED <<initialized, current, sleepList, inWindow, blocking, cpuVars, exited,
                 creator, panic>>

\* sys_application_start(): a running user thread creates the process of
\* another one, loads its code and makes its stacks, and may be preempted ...
application_start(t) ==
  /\ current \in UserThreads /\ Runs(current)
  /\ t \in UserThreads \ ToSet(BootThreads) /\ phase[t] = "new"
  /\ phase' = [phase EXCEPT ![t] = "loading", ![current] = "launching"]
  /\ creator' = [creator EXCEPT ![t] = current]
  /\ create_process(process(t))
  /\ UNCHANGED <<schedVars, inWindow, blocking, cpuVars, exited, panic>>

\* ... before it readies the thread.
application_ready(t) ==
  /\ panic = "none" /\ blocking = "no"
  /\ current # NoThread /\ phase[current] = "launching"
  /\ creator[t] = current /\ phase[t] = "loading"
  /\ phase' = [phase EXCEPT ![t] = "entry", ![current] = "running"]
  /\ ready(t)
  /\ UNCHANGED <<initialized, current, sleepList, inWindow, blocking, cpuVars, procVars, panic>>

\* start(): the first thread runs; neither CR3 nor the TSS is touched.
start ==
  /\ panic = "none" /\ current = NoThread
  /\ ToSet(BootThreads) = Created
  /\ current' = Last(readyQueue)
  /\ readyQueue' = Front(readyQueue)
  /\ cpu' = Last(readyQueue)
  /\ UNCHANGED <<initialized, sleepList, joinMap, phase, inWindow, blocking,
                 loaded, rsp0, procVars, panic>>
-----------------------------------------------------------------------------
(* kickoff_kernel_thread() and switch_to_user_mode() *)

\* The current thread is in a given phase of its kickoff.
Starts(ph) ==
  /\ panic = "none" /\ blocking = "no"
  /\ current # NoThread /\ phase[current] = ph

set_init ==
  /\ Starts("entry")
  /\ initialized' = TRUE
  /\ phase' = [phase EXCEPT ![current] = "setup"]
  /\ UNCHANGED <<current, readyQueue, sleepList, joinMap, inWindow, blocking,
                 cpuVars, procVars, panic>>

\* The thread takes the TSS lock ("setup") or its stacks lock (all three).
kickoff_lock ==
  /\ \E ph \in Kickoff : Starts(ph)
  /\ ~inWindow
  /\ inWindow' = TRUE
  /\ UNCHANGED <<schedVars, phase, blocking, cpuVars, procVars, panic>>

AfterKickoff(t, ph) ==
  CASE ph = "setup" -> "kind"
    [] ph = "kind" /\ t \in UserThreads -> "stack"
    [] OTHER -> "running"

\* ... and releases it, having set privilege_stack_table[0] in "setup".
kickoff_unlock ==
  /\ inWindow
  /\ \E ph \in Kickoff : Starts(ph)
  /\ inWindow' = FALSE
  /\ rsp0' = IF phase[current] = "setup" THEN current ELSE rsp0
  /\ phase' = [phase EXCEPT ![current] = AfterKickoff(current, phase[current])]
  /\ UNCHANGED <<schedVars, blocking, cpu, loaded, procVars, panic>>
-----------------------------------------------------------------------------
(* Operations of the current thread.  Each ends in block(). *)

\* The cleanup thread always sleeps for the same, long time.
sleep(t, ticks) ==
  /\ Runs(t)
  /\ t = Cleanup => ticks = MaxSleep
  /\ sleepList' = Append(sleepList, [thread |-> t, left |-> ticks])
  /\ blocking' = "poll"
  /\ phase' = IF t = Cleanup THEN [phase EXCEPT ![t] = "cleaning"] ELSE phase
  /\ UNCHANGED <<initialized, current, readyQueue, joinMap, inWindow,
                 cpuVars, procVars, panic>>

\* A thread knows the ids start_application() returned.  expect() panics
\* when the thread joined has no entry any more.
join(t, target) ==
  /\ Runs(t) /\ t \in UserThreads /\ target \in Created
  /\ IF target \in DOMAIN joinMap
     THEN /\ joinMap' = [joinMap EXCEPT ![target] = Append(@, t)]
          /\ blocking' = "poll"
          /\ UNCHANGED panic
     ELSE panic' = "join" /\ UNCHANGED <<joinMap, blocking>>
  /\ UNCHANGED <<initialized, current, readyQueue, sleepList, phase, inWindow,
                 cpuVars, procVars>>

\* Overwrites the element before the removed one.
Bug_SwapsWrongSlot(s, i) ==
  IF i = Len(s) THEN Front(s) ELSE Front(ReplaceAt(s, i - 1, Last(s)))

\* Vec::swap_remove(): the last element takes the place of the removed one.
swap_remove(s, i) ==
  IF i = Len(s) THEN Front(s) ELSE Front(ReplaceAt(s, i, Last(s)))

\* Drops its reference instead of keeping the process for the cleanup thread.
Bug_ForgetsExited(p) ==
  /\ active' = swap_remove(active, CHOOSE i \in DOMAIN active : active[i] = p)
  /\ UNCHANGED <<exited, creator>>

\* ProcessManager::exit()
process_exit(p) ==
  /\ active' = swap_remove(active, CHOOSE i \in DOMAIN active : active[i] = p)
  /\ exited' = exited \cup {p}
  /\ UNCHANGED creator

\* Wakes only the first of them.
Bug_WakesOnlyOne(t) ==
  IF joinMap[t] = <<>> THEN readyQueue ELSE push_front(readyQueue, Head(joinMap[t]))

\* The threads joined to t become ready, in the order they joined.
WakeJoiners(t) == pushAll_front(readyQueue, joinMap[t])

RemoveEntry(t) == [u \in DOMAIN joinMap \ {t} |-> joinMap[u]]

exit(t) ==
  /\ Runs(t) /\ t # Cleanup
  /\ IF t \in DOMAIN joinMap
     THEN /\ readyQueue' = WakeJoiners(t)
          /\ joinMap' = RemoveEntry(t)
          /\ phase' = [phase EXCEPT ![t] = "exited"]
          /\ IF t \in UserThreads THEN process_exit(process(t)) ELSE UNCHANGED procVars
          /\ blocking' = "poll"
          /\ UNCHANGED panic
     ELSE /\ panic' = "exit"
          /\ UNCHANGED <<readyQueue, joinMap, phase, procVars, blocking>>
  /\ UNCHANGED <<initialized, current, sleepList, inWindow, cpuVars>>

\* Waits until there are two of them.
Bug_DropsPairs ==
  /\ panic = "none" /\ blocking = "no"
  /\ current = Cleanup /\ phase[Cleanup] = "cleaning"
  /\ phase' = [phase EXCEPT ![Cleanup] = "running"]
  /\ exited' = IF Cardinality(exited) > 1 THEN {} ELSE exited
  /\ UNCHANGED <<schedVars, inWindow, blocking, cpuVars, active, creator, panic>>

\* The cleanup thread is back from sleep().
drop_exited_process ==
  /\ panic = "none" /\ blocking = "no"
  /\ current = Cleanup /\ phase[Cleanup] = "cleaning"
  /\ phase' = [phase EXCEPT ![Cleanup] = "running"]
  /\ exited' = {}
  /\ UNCHANGED <<schedVars, inWindow, blocking, cpuVars, active, creator, panic>>
-----------------------------------------------------------------------------
\* check_sleep_list(): expired sleepers go to the ready queue in list order.
Expired(list) == Sublist(list, {i \in DOMAIN list : list[i].left = 0})

\* Expired entries are not removed.
Bug_KeepsExpired(list) == list
Asleep(list) == Sublist(list, {i \in DOMAIN list : list[i].left > 0})

ThreadsOf(list) == [i \in DOMAIN list |-> list[i].thread]

WithExpired(queue, list) == pushAll_front(queue, ThreadsOf(Expired(list)))

\* block() found no ready thread and looks for an expired sleeper.
block_poll ==
  /\ panic = "none" /\ blocking = "poll" /\ readyQueue = <<>>
  /\ Expired(sleepList) # <<>>
  /\ readyQueue' = WithExpired(readyQueue, sleepList)
  /\ sleepList' = Asleep(sleepList)
  /\ UNCHANGED <<initialized, current, joinMap, phase, inWindow, blocking,
                 cpuVars, procVars, panic>>

\* block() dequeues the next thread and drops its reference to the current
\* one, unless the thread dequeued itself.
block_pop ==
  /\ panic = "none" /\ blocking = "poll" /\ readyQueue # <<>>
  /\ readyQueue' = Front(readyQueue)
  /\ current' = Last(readyQueue)
  /\ blocking' = IF Last(readyQueue) = current THEN "no" ELSE "switch"
  /\ UNCHANGED <<initialized, sleepList, joinMap, phase, inWindow,
                 cpuVars, procVars, panic>>

\* Thread::switch(): TSS, CR3 and stack of the next thread, state unlocked.
switch(next) ==
  /\ cpu' = next
  /\ loaded' = process(next)
  /\ rsp0' = next

block_switch ==
  /\ panic = "none" /\ blocking = "switch"
  /\ blocking' = "no"
  /\ switch(current)
  /\ UNCHANGED <<schedVars, phase, inWindow, procVars, panic>>

\* The phase of a thread that was dequeued but not switched to.
Dropped(t) == [phase EXCEPT ![t] = "lost"]

\* switch_thread(), from the APIC timer or from sys_thread_switch().  It does
\* nothing while the state is locked (blocking # "no") or not initialized.
\* A dequeued thread is forgotten when the current one may not be switched.
switch_thread ==
  /\ panic = "none" /\ blocking = "no" /\ initialized
  /\ LET queue == WithExpired(readyQueue, sleepList)
     IN  /\ sleepList' = Asleep(sleepList)
         /\ CASE queue = <<>> ->
                   readyQueue' = queue /\ UNCHANGED <<current, phase, cpuVars>>
              [] queue # <<>> /\ inWindow ->
                   /\ readyQueue' = Front(queue)
                   /\ phase' = Dropped(Last(queue))
                   /\ UNCHANGED <<current, cpuVars>>
              [] queue # <<>> /\ ~inWindow ->
                   /\ readyQueue' = push_front(Front(queue), current)
                   /\ current' = Last(queue)
                   /\ switch(Last(queue))
                   /\ UNCHANGED phase
  /\ UNCHANGED <<initialized, joinMap, inWindow, blocking, procVars, panic>>

\* Loses the tick while the scheduler is locked.
Bug_TickNeedsUnlocked ==
  /\ panic = "none" /\ blocking = "no"
  /\ \E i \in DOMAIN sleepList : sleepList[i].left > 0
  /\ sleepList' = [i \in DOMAIN sleepList |->
                     [sleepList[i] EXCEPT !.left = IF @ > 0 THEN @ - 1 ELSE 0]]
  /\ UNCHANGED <<initialized, current, readyQueue, joinMap, phase, inWindow,
                 blocking, cpuVars, procVars, panic>>

\* The PIT handler advances systime.
tick ==
  /\ panic = "none"
  /\ \E i \in DOMAIN sleepList : sleepList[i].left > 0
  /\ sleepList' = [i \in DOMAIN sleepList |->
                     [sleepList[i] EXCEPT !.left = IF @ > 0 THEN @ - 1 ELSE 0]]
  /\ UNCHANGED <<initialized, current, readyQueue, joinMap, phase, inWindow,
                 blocking, cpuVars, procVars, panic>>

Next ==
  \/ boot_ready
  \/ start
  \/ set_init
  \/ kickoff_lock
  \/ kickoff_unlock
  \/ \E t \in Threads : application_start(t)
  \/ \E t \in Threads : application_ready(t)
  \/ \E t \in Threads, ticks \in 0 .. MaxSleep : sleep(t, ticks)
  \/ \E t, target \in Threads : join(t, target)
  \/ \E t \in Threads : exit(t)
  \/ drop_exited_process
  \/ block_poll
  \/ block_pop
  \/ block_switch
  \/ switch_thread
  \/ tick

Spec == Init /\ [][Next]_vars

\* The next step of the cleanup thread's own code.
CleanupStep ==
  /\ current = Cleanup
  /\ \/ set_init \/ kickoff_lock \/ kickoff_unlock
     \/ drop_exited_process \/ sleep(Cleanup, MaxSleep)

(***************************************************************************)
(* The timers keep firing, a thread that starts or switches goes on, and   *)
(* the cleanup thread, which is preempted at most once per time slice, is  *)
(* not preempted for ever before the next step of its loop.  Nothing       *)
(* obliges another running thread to call any operation.                   *)
(***************************************************************************)
Fairness ==
  /\ WF_vars(start) /\ WF_vars(boot_ready)
  /\ WF_vars(set_init) /\ WF_vars(kickoff_lock) /\ WF_vars(kickoff_unlock)
  /\ WF_vars(block_poll) /\ WF_vars(block_pop) /\ WF_vars(block_switch)
  /\ WF_vars(switch_thread) /\ WF_vars(tick)
  /\ SF_vars(CleanupStep)

FairSpec == Spec /\ Fairness
-----------------------------------------------------------------------------
TypeOK ==
  /\ initialized \in BOOLEAN
  /\ current \in Threads \cup {NoThread}
  /\ readyQueue \in Seq(Threads)
  /\ sleepList \in Seq([thread : Threads, left : 0 .. MaxSleep])
  /\ DOMAIN joinMap \subseteq Threads
  /\ \A t \in DOMAIN joinMap : joinMap[t] \in Seq(Threads)
  /\ phase \in [Threads -> Phases]
  /\ inWindow \in BOOLEAN
  /\ blocking \in {"no", "poll", "switch"}
  /\ cpu \in Threads \cup {NoThread}
  /\ loaded \in UserThreads \cup {KernelProcess}
  /\ rsp0 \in Threads \cup {NoThread}
  /\ active \in Seq(UserThreads \cup {KernelProcess})
  /\ exited \subseteq UserThreads \cup {KernelProcess}
  /\ creator \in [Threads -> Threads \cup {NoThread}]
  /\ panic \in {"none", "join", "exit"}

Alive == {t \in Threads : phase[t] \notin {"new", "loading", "exited", "lost"}}

\* Every place that holds a reference to t, one element per reference.
Places(t) ==
  {<<"ready", i>> : i \in {j \in DOMAIN readyQueue : readyQueue[j] = t}}
  \cup {<<"asleep", i>> : i \in {j \in DOMAIN sleepList : sleepList[j].thread = t}}
  \cup UNION {{<<u, i>> : i \in {j \in DOMAIN joinMap[u] : joinMap[u][j] = t}} :
              u \in DOMAIN joinMap}

(***************************************************************************)
(* The scheduler neither duplicates a thread nor forgets one: a live       *)
(* thread is referenced from exactly one of the ready queue, the sleep     *)
(* list and the join lists, or it is the current thread and is in none;    *)
(* inside block() the current thread has already given itself to a list,   *)
(* or has exited.  Dead threads are nowhere (scheduler.rs:75-210).  Every  *)
(* variable has its type.                                                  *)
(***************************************************************************)
EachThreadInOnePlace ==
  /\ TypeOK
  /\ \A t \in Threads :
       LET expected == IF t \in Alive /\ (t # current \/ blocking = "poll") THEN 1 ELSE 0
       IN  Cardinality(Places(t)) = expected

(***************************************************************************)
(* The lists name the threads and processes that live.  The join map has   *)
(* an entry for each thread from ready() until that thread exits, and      *)
(* exit() always finds its own (scheduler.rs:75-82, 148-154).  A process   *)
(* is active from create_process() until its thread exits: it may be       *)
(* listed with no entry in the join map, and no thread at all, while its   *)
(* creator is preempted between the two (process.rs:46, thread.rs:62).     *)
(* active_processes[0] stays the kernel process through every creation and *)
(* exit, as kernel_process() assumes (process.rs:55-60).                   *)
(***************************************************************************)
ListsNameTheLiving ==
  /\ DOMAIN joinMap = {t \in Threads : phase[t] \notin {"new", "loading", "exited"}}
  /\ panic # "exit"
  /\ active[1] = KernelProcess
  /\ ToSet(active) = {KernelProcess} \cup {t \in UserThreads : phase[t] \notin {"new", "exited"}}

\* A process lives while a list or a thread that still exists refers to it.
ProcessAlive(p) ==
  \/ p \in ToSet(active) \cup exited
  \/ \E t \in Threads : process(t) = p /\ (t = current \/ Places(t) # {})

(***************************************************************************)
(* The page table in CR3 belongs to a process that has not been dropped,   *)
(* also after block() dropped the last reference to an exited thread and   *)
(* before the switch (scheduler.rs:157-190, process.rs:70-97).  Between    *)
(* switches it is that of the current thread, on whose stack the CPU runs, *)
(* and a thread past its kickoff has its own kernel stack in the TSS for   *)
(* the next trap from user mode (thread.rs:108, 130-139).                  *)
(***************************************************************************)
CpuContextMatches ==
  /\ ProcessAlive(loaded)
  /\ current # NoThread /\ blocking # "switch" =>
       /\ cpu = current
       /\ loaded = process(current)
       /\ phase[current] \in {"kind", "stack", "running", "launching"} => rsp0 = current

\* The threads that will be dequeued before t.
Ahead(t) == {readyQueue[i] : i \in {j \in DOMAIN readyQueue :
               \E k \in DOMAIN readyQueue : readyQueue[k] = t /\ k < j}}

(***************************************************************************)
(* The ready queue is fair: while a thread is in it, no thread that was    *)
(* not ahead of it gets ahead, whoever wakes up, exits or is preempted.    *)
(***************************************************************************)
NoOvertaking ==
  [][\A t \in ToSet(readyQueue) : t \in ToSet(readyQueue') => Ahead(t)' \subseteq Ahead(t)]_vars

\* The state of a thread as ThreadLifecycle sees it.
StatusOf(t) ==
  CASE phase[t] \in {"new", "loading"} -> "new"
    [] phase[t] \in {"exited", "lost"} -> phase[t]
    [] t \in Alive /\ t \in Sleepers -> "asleep"
    [] t \in Alive /\ t \in Joiners -> "joining"
    [] t \in Alive /\ t \in ToSet(readyQueue) -> "ready"
    [] OTHER -> "running"

JoinedBy(t) == {u \in DOMAIN joinMap : t \in ToSet(joinMap[u])}

\* The thread that t has joined.
WaitsFor(t) == IF JoinedBy(t) = {} THEN NoThread ELSE CHOOSE u \in JoinedBy(t) : TRUE

(***************************************************************************)
(* The scheduler implements ThreadLifecycle: in particular a join returns  *)
(* exactly when its target exits, and an exited thread never runs again.   *)
(***************************************************************************)
Life == INSTANCE ThreadLifecycle WITH
          Nobody <- NoThread,
          status <- [t \in Threads |-> StatusOf(t)],
          waitsFor <- [t \in Threads |-> WaitsFor(t)]

ImplementsThreadLifecycle == Life!LifeSpec

(***************************************************************************)
(* A sleeping thread leaves the sleep list (scheduler.rs:84-95, 197-210).  *)
(***************************************************************************)
SleeperWakes ==
  \A t \in Threads : t \in Sleepers ~> (t \notin Sleepers \/ panic # "none")

(***************************************************************************)
(* A ready thread eventually runs, unless switch_thread() drops it.        *)
(***************************************************************************)
ReadyRuns ==
  \A t \in Threads :
    t \in ToSet(readyQueue) ~> (cpu = t \/ phase[t] = "lost" \/ panic # "none")

(***************************************************************************)
(* An exited process is eventually dropped from the list of exited ones,   *)
(* as long as the cleanup thread itself has not been dropped               *)
(* (boot.rs:219-224).  That frees its memory, unless its creator is still  *)
(* in sys_application_start() with a reference to the thread.              *)
(***************************************************************************)
ExitedProcessReclaimed ==
  \A t \in UserThreads :
    t \in exited ~> (t \notin exited \/ phase[Cleanup] = "lost" \/ panic # "none")

(***************************************************************************)
(* A timer interrupt during the start of a thread leaves the others alone: *)
(* the starting thread "may not be interrupted" (scheduler.rs:113), which  *)
(* is why the switch is called off.  In the code the thread that was       *)
(* dequeued for the switch is dropped and never runs again.                *)
(***************************************************************************)
NoThreadLost == \A t \in Threads : phase[t] # "lost"

=============================================================================
