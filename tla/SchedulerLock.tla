--------------------------- MODULE SchedulerLock ---------------------------
(***************************************************************************)
(* The locks around a thread switch, instruction by instruction: the       *)
(* scheduler's state lock, which one thread takes and the next one         *)
(* force-unlocks from assembly; each thread's stacks lock; the TSS lock;   *)
(* the process manager's lock; and the timer interrupt that comes in       *)
(* between (scheduler.rs, thread.rs, apic.rs, lib.rs).                     *)
(*                                                                         *)
(* One CPU.  A thread has two contexts: its own code (pc), which runs with *)
(* interrupts enabled, and the timer handler on top of it (irq), which     *)
(* does not.  A context that is not on the CPU is parked where it called   *)
(* thread_switch.  A spin lock that is taken simply disables the step.     *)
(* A definition named Bug_... is a plausible mistake in the one after it;  *)
(* only the mutation runs use it.                                          *)
(***************************************************************************)
EXTENDS Integers

CONSTANTS
  Threads,      \* the threads boot has readied
  UserThreads,  \* those that may call exit()
  First,        \* the thread start() dequeues
  Nobody        \* no thread

ASSUME LockAssumption ==
  /\ UserThreads \subseteq Threads
  /\ First \in Threads
  /\ Nobody \notin Threads

VARIABLES
  cpu,          \* the thread on the CPU
  current,      \* ReadyState.current_thread
  pc,           \* thread -> location in its own code
  irq,          \* thread -> location in the timer handler, or "none"
  state,        \* Scheduler.state is locked
  stacks,       \* thread -> Thread.stacks is locked
  tss,          \* the TSS is locked
  pmReaders,    \* threads holding process_manager().read()
  pmWriter,     \* the thread holding process_manager().write(), or Nobody
  initialized,  \* ReadyState.initialized
  ready,        \* threads in the ready queue
  asleep        \* threads in the sleep list

queueVars == <<initialized, ready, asleep>>
pmVars == <<pmReaders, pmWriter>>
vars == <<cpu, current, pc, irq, state, stacks, tss, pmReaders, pmWriter,
          initialized, ready, asleep>>

\* Thread::switch() and thread_switch, in either context.
SwitchLocs == {"sw_cur", "sw_cur_in", "sw_next", "sw_next_in", "sw_tss", "sw_tss_in", "sw_jump"}

\* Where a thread's own code holds the state lock.
Sections == {"init_sec", "sec", "pm_sec", "x_kind", "x_kind_in", "x_pm", "x_pm_in", "poll", "chk"}

\* Where it holds its stacks lock.
StacksWindows == {"addr_in", "kind_in", "user_in", "x_kind_in"}

\* Where it may be preempted: no section, no window.
Preemptible == {"init", "addr", "tss", "kind", "user", "run", "pm", "drop"}

PcLocs == {"fresh", "resume", "dead"} \cup Preemptible \cup Sections \cup StacksWindows
            \cup {"tss_in"} \cup SwitchLocs

IrqLocs == {"none", "try", "chk", "resume", "drop", "iret"} \cup SwitchLocs

Init ==
  /\ cpu = First
  /\ current = First
  /\ pc = [t \in Threads |-> "fresh"]
  /\ irq = [t \in Threads |-> "none"]
  /\ state = TRUE
  /\ stacks = [t \in Threads |-> FALSE]
  /\ tss = FALSE
  /\ pmReaders = {}
  /\ pmWriter = Nobody
  /\ initialized = FALSE
  /\ ready = Threads \ {First}
  /\ asleep = {}

\* The CPU executes the thread's own code, at location l.
At(l) == irq[cpu] = "none" /\ pc[cpu] = l

\* The context on the CPU, the thread's own or the handler's, is at l.
Running(l) == irq[cpu] = l \/ At(l)

Goto(l) == pc' = [pc EXCEPT ![cpu] = l]
IrqGoto(l) == irq' = [irq EXCEPT ![cpu] = l]

\* The context on the CPU moves from l to m.
SwitchStep(l, m) ==
  \/ At(l) /\ Goto(m) /\ UNCHANGED irq
  \/ irq[cpu] = l /\ IrqGoto(m) /\ UNCHANGED pc
-----------------------------------------------------------------------------
(* A thread comes back from thread_switch, or runs for the first time. *)

\* The assembly calls unlock_scheduler(), in the thread's own context ...
unlock_scheduler ==
  /\ irq[cpu] = "none" /\ pc[cpu] \in {"fresh", "resume"}
  /\ state' = FALSE
  /\ Goto(IF pc[cpu] = "fresh" THEN "init" ELSE "drop")
  /\ UNCHANGED <<cpu, current, irq, stacks, tss, pmVars, queueVars>>

\* ... and the guard that sleep() or join() still has is dropped later.
drop_guard ==
  /\ At("drop")
  /\ state' = FALSE
  /\ Goto("run")
  /\ UNCHANGED <<cpu, current, irq, stacks, tss, pmVars, queueVars>>

\* The same for a thread that was preempted in switch_thread().
irq_unlock_scheduler ==
  /\ irq[cpu] = "resume"
  /\ state' = FALSE
  /\ IrqGoto("drop")
  /\ UNCHANGED <<cpu, current, pc, stacks, tss, pmVars, queueVars>>

irq_drop_guard ==
  /\ irq[cpu] = "drop"
  /\ state' = FALSE
  /\ IrqGoto("iret")
  /\ UNCHANGED <<cpu, current, pc, stacks, tss, pmVars, queueVars>>
-----------------------------------------------------------------------------
(* kickoff_kernel_thread(), switch_to_user_mode() *)

\* self.state.lock(): from location l into section s.
lock_state(l, s) ==
  /\ At(l) /\ ~state
  /\ state' = TRUE
  /\ Goto(s)

set_init_lock ==
  /\ lock_state("init", "init_sec")
  /\ UNCHANGED <<cpu, current, irq, stacks, tss, pmVars, queueVars>>

set_init ==
  /\ At("init_sec")
  /\ initialized' = TRUE
  /\ state' = FALSE
  /\ Goto("addr")
  /\ UNCHANGED <<cpu, current, irq, stacks, tss, pmVars, ready, asleep>>

InWindow(l) ==
  CASE l = "addr" -> "addr_in" [] l = "kind" -> "kind_in" [] l = "user" -> "user_in"

\* kernel_stack_addr(), is_kernel_thread(), switch_to_user_mode() lock stacks.
stacks_lock ==
  /\ irq[cpu] = "none" /\ pc[cpu] \in {"addr", "kind", "user"}
  /\ ~stacks[cpu]
  /\ stacks' = [stacks EXCEPT ![cpu] = TRUE]
  /\ Goto(InWindow(pc[cpu]))
  /\ UNCHANGED <<cpu, current, irq, state, tss, pmVars, queueVars>>

AfterWindow(l) ==
  CASE l = "addr_in" -> "tss"
    [] l = "kind_in" -> IF cpu \in UserThreads THEN "user" ELSE "run"
    [] l = "user_in" -> "run"

stacks_unlock ==
  /\ irq[cpu] = "none" /\ pc[cpu] \in {"addr_in", "kind_in", "user_in"}
  /\ stacks' = [stacks EXCEPT ![cpu] = FALSE]
  /\ Goto(AfterWindow(pc[cpu]))
  /\ UNCHANGED <<cpu, current, irq, state, tss, pmVars, queueVars>>

\* tss().lock().privilege_stack_table[0] = ...
tss_lock ==
  /\ At("tss") /\ ~tss
  /\ tss' = TRUE
  /\ Goto("tss_in")
  /\ UNCHANGED <<cpu, current, irq, state, stacks, pmVars, queueVars>>

tss_unlock ==
  /\ At("tss_in")
  /\ tss' = FALSE
  /\ Goto("kind")
  /\ UNCHANGED <<cpu, current, irq, state, stacks, pmVars, queueVars>>
-----------------------------------------------------------------------------
(* Operations of a running thread *)

\* current_thread(), ready(), active_thread_ids(): a section, then unlock.
section_lock ==
  /\ lock_state("run", "sec")
  /\ UNCHANGED <<cpu, current, irq, stacks, tss, pmVars, queueVars>>

section_unlock ==
  /\ At("sec")
  /\ state' = FALSE
  /\ Goto("run")
  /\ UNCHANGED <<cpu, current, irq, stacks, tss, pmVars, queueVars>>

\* process_manager().read() ... : current_process(), active_process_ids().
process_manager_read ==
  /\ At("run") /\ pmWriter = Nobody
  /\ pmReaders' = pmReaders \cup {cpu}
  /\ Goto("pm")
  /\ UNCHANGED <<cpu, current, irq, state, stacks, tss, pmWriter, queueVars>>

\* ... .write(): create_process(), drop_exited_process().
process_manager_write ==
  /\ At("run") /\ pmWriter = Nobody /\ pmReaders = {}
  /\ pmWriter' = cpu
  /\ Goto("pm")
  /\ UNCHANGED <<cpu, current, irq, state, stacks, tss, pmReaders, queueVars>>

\* current_process() asks the scheduler while it holds the read lock.
current_process_lock ==
  /\ cpu \in pmReaders
  /\ lock_state("pm", "pm_sec")
  /\ UNCHANGED <<cpu, current, irq, stacks, tss, pmVars, queueVars>>

\* The guard is leaked.
Bug_GuardLeaked ==
  /\ At("pm_sec")
  /\ Goto("pm")
  /\ UNCHANGED <<cpu, current, irq, state, stacks, tss, pmVars, queueVars>>

current_process_unlock ==
  /\ At("pm_sec")
  /\ state' = FALSE
  /\ Goto("pm")
  /\ UNCHANGED <<cpu, current, irq, stacks, tss, pmVars, queueVars>>

process_manager_unlock ==
  /\ At("pm")
  /\ pmReaders' = pmReaders \ {cpu}
  /\ pmWriter' = IF pmWriter = cpu THEN Nobody ELSE pmWriter
  /\ Goto("run")
  /\ UNCHANGED <<cpu, current, irq, state, stacks, tss, queueVars>>

\* sleep(): lock, enter the sleep list, go to block().
sleep ==
  /\ lock_state("run", "poll")
  /\ asleep' = asleep \cup {cpu}
  /\ UNCHANGED <<cpu, current, irq, stacks, tss, pmVars, initialized, ready>>

\* exit(): lock, is_kernel_thread(), process().exit(), block().
exit_lock ==
  /\ cpu \in UserThreads
  /\ lock_state("run", "x_kind")
  /\ UNCHANGED <<cpu, current, irq, stacks, tss, pmVars, queueVars>>

exit_stacks_lock ==
  /\ At("x_kind") /\ ~stacks[cpu]
  /\ stacks' = [stacks EXCEPT ![cpu] = TRUE]
  /\ Goto("x_kind_in")
  /\ UNCHANGED <<cpu, current, irq, state, tss, pmVars, queueVars>>

exit_stacks_unlock ==
  /\ At("x_kind_in")
  /\ stacks' = [stacks EXCEPT ![cpu] = FALSE]
  /\ Goto("x_pm")
  /\ UNCHANGED <<cpu, current, irq, state, tss, pmVars, queueVars>>

exit_process_lock ==
  /\ At("x_pm") /\ pmWriter = Nobody /\ pmReaders = {}
  /\ pmWriter' = cpu
  /\ Goto("x_pm_in")
  /\ UNCHANGED <<cpu, current, irq, state, stacks, tss, pmReaders, queueVars>>

exit_process_unlock ==
  /\ At("x_pm_in")
  /\ pmWriter' = Nobody
  /\ Goto("poll")
  /\ UNCHANGED <<cpu, current, irq, state, stacks, tss, pmReaders, queueVars>>
-----------------------------------------------------------------------------
(* block() and switch_thread() choose the next thread *)

\* The entry stays in the sleep list.
Bug_WakeKeepsEntry(t) ==
  /\ \/ At("poll") /\ ready = {}
     \/ Running("chk") /\ initialized
  /\ t \in asleep
  /\ ready' = ready \cup {t}
  /\ UNCHANGED <<cpu, current, pc, irq, state, stacks, tss, pmVars, initialized, asleep>>

\* check_sleep_list() readies a sleeper: in block() when nobody is ready, in
\* switch_thread() always.
wake(t) ==
  /\ \/ At("poll") /\ ready = {}
     \/ Running("chk") /\ initialized
  /\ t \in asleep
  /\ asleep' = asleep \ {t}
  /\ ready' = ready \cup {t}
  /\ UNCHANGED <<cpu, current, pc, irq, state, stacks, tss, pmVars, initialized>>

\* Does not notice that the thread has dequeued itself.
Bug_SwitchesToItself(n) ==
  /\ At("poll") /\ n \in ready
  /\ ready' = ready \ {n}
  /\ Goto("sw_cur") /\ current' = n
  /\ UNCHANGED <<cpu, irq, state, stacks, tss, pmVars, initialized, asleep>>

\* block() dequeues a thread; if it is the current one, it simply returns.
block(n) ==
  /\ At("poll") /\ n \in ready
  /\ ready' = ready \ {n}
  /\ IF n = current
     THEN Goto("sec") /\ UNCHANGED current
     ELSE Goto("sw_cur") /\ current' = n
  /\ UNCHANGED <<cpu, irq, state, stacks, tss, pmVars, initialized, asleep>>

\* The APIC timer interrupts the thread's own code.
timer_interrupt ==
  /\ irq[cpu] = "none"
  /\ IrqGoto("try")
  /\ UNCHANGED <<cpu, current, pc, state, stacks, tss, pmVars, queueVars>>

\* Unlocks by force when the lock is taken, as dispatch() does.
Bug_ForcesTheLock ==
  /\ irq[cpu] = "try"
  /\ IrqGoto("chk")
  /\ state' = TRUE
  /\ UNCHANGED <<cpu, current, pc, stacks, tss, pmVars, queueVars>>

\* switch_thread(): self.state.try_lock(), in the handler ...
try_lock ==
  /\ irq[cpu] = "try"
  /\ IF state THEN IrqGoto("iret") ELSE IrqGoto("chk")
  /\ state' = TRUE
  /\ UNCHANGED <<cpu, current, pc, stacks, tss, pmVars, queueVars>>

\* ... and in sys_thread_switch(), with interrupts enabled; when the lock is
\* taken the call returns at once.
sys_thread_switch ==
  /\ cpu \in UserThreads
  /\ lock_state("run", "chk")
  /\ UNCHANGED <<cpu, current, irq, stacks, tss, pmVars, queueVars>>

\* switch_thread() returns to its caller and drops the guard.
switch_thread_return ==
  /\ \/ At("chk") /\ Goto("run") /\ UNCHANGED irq
     \/ irq[cpu] = "chk" /\ IrqGoto("iret") /\ UNCHANGED pc
  /\ state' = FALSE

\* Looks at the TSS only.
Bug_IgnoresStacks == tss

\* The current thread is initializing itself.
MayNotSwitch == stacks[current] \/ tss

\* The early returns: not initialized, nobody ready.
switch_thread_nothing ==
  /\ switch_thread_return
  /\ ~initialized \/ ready = {}
  /\ UNCHANGED <<cpu, current, stacks, tss, pmVars, queueVars>>

\* The early return that drops the thread it has dequeued.
switch_thread_refused(n) ==
  /\ switch_thread_return /\ initialized
  /\ n \in ready
  /\ MayNotSwitch
  /\ ready' = ready \ {n}
  /\ UNCHANGED <<cpu, current, stacks, tss, pmVars, initialized, asleep>>

switch_thread(n) ==
  /\ SwitchStep("chk", "sw_cur") /\ initialized
  /\ n \in ready
  /\ ~MayNotSwitch
  /\ current' = n
  /\ ready' = (ready \ {n}) \cup {current}
  /\ UNCHANGED <<cpu, state, stacks, tss, pmVars, initialized, asleep>>

iret ==
  /\ irq[cpu] = "iret"
  /\ IrqGoto("none")
  /\ UNCHANGED <<cpu, current, pc, state, stacks, tss, pmVars, queueVars>>
-----------------------------------------------------------------------------
(* Thread::switch(), in the context that called it *)

\* current.stacks.lock().old_rsp0; the guard is a temporary.
switch_current_lock ==
  /\ SwitchStep("sw_cur", "sw_cur_in")
  /\ ~stacks[cpu]
  /\ stacks' = [stacks EXCEPT ![cpu] = TRUE]
  /\ UNCHANGED <<cpu, current, state, tss, pmVars, queueVars>>

switch_current_unlock ==
  /\ SwitchStep("sw_cur_in", "sw_next")
  /\ stacks' = [stacks EXCEPT ![cpu] = FALSE]
  /\ UNCHANGED <<cpu, current, state, tss, pmVars, queueVars>>

\* next.stacks.lock().old_rsp0 and next.kernel_stack_addr()
switch_next_lock ==
  /\ SwitchStep("sw_next", "sw_next_in")
  /\ ~stacks[current]
  /\ stacks' = [stacks EXCEPT ![current] = TRUE]
  /\ UNCHANGED <<cpu, current, state, tss, pmVars, queueVars>>

switch_next_unlock ==
  /\ SwitchStep("sw_next_in", "sw_tss")
  /\ stacks' = [stacks EXCEPT ![current] = FALSE]
  /\ UNCHANGED <<cpu, current, state, tss, pmVars, queueVars>>

\* tss_set_rsp0()
switch_tss_lock ==
  /\ SwitchStep("sw_tss", "sw_tss_in")
  /\ ~tss
  /\ tss' = TRUE
  /\ UNCHANGED <<cpu, current, state, stacks, pmVars, queueVars>>

switch_tss_unlock ==
  /\ SwitchStep("sw_tss_in", "sw_jump")
  /\ tss' = FALSE
  /\ UNCHANGED <<cpu, current, state, stacks, pmVars, queueVars>>

\* mov rsp: the thread is parked, or gone if it is in no list.
thread_switch ==
  /\ SwitchStep("sw_jump", IF irq[cpu] = "none" /\ cpu \notin ready \cup asleep
                           THEN "dead" ELSE "resume")
  /\ cpu' = current
  /\ UNCHANGED <<current, state, stacks, tss, pmVars, queueVars>>
-----------------------------------------------------------------------------
Kickoff ==
  \/ set_init_lock \/ set_init
  \/ stacks_lock \/ stacks_unlock \/ tss_lock \/ tss_unlock

ThreadOperation ==
  \/ section_lock \/ section_unlock
  \/ process_manager_read \/ process_manager_write \/ process_manager_unlock
  \/ current_process_lock \/ current_process_unlock
  \/ sleep \/ sys_thread_switch
  \/ exit_lock \/ exit_stacks_lock \/ exit_stacks_unlock
  \/ exit_process_lock \/ exit_process_unlock
  \/ \E n \in Threads : block(n)

\* switch_thread() behind its try_lock(), in either context.
Preemption ==
  \/ switch_thread_nothing
  \/ \E n \in Threads : switch_thread_refused(n)
  \/ \E n \in Threads : switch_thread(n)

TimerHandler ==
  \/ timer_interrupt \/ try_lock
  \/ irq_unlock_scheduler \/ irq_drop_guard \/ iret

Switch ==
  \/ switch_current_lock \/ switch_current_unlock
  \/ switch_next_lock \/ switch_next_unlock
  \/ switch_tss_lock \/ switch_tss_unlock
  \/ thread_switch

Next ==
  \/ unlock_scheduler \/ drop_guard
  \/ Kickoff
  \/ ThreadOperation
  \/ \E t \in Threads : wake(t)
  \/ Preemption
  \/ TimerHandler
  \/ Switch

Spec == Init /\ [][Next]_vars

\* The steps that lead out of a section of the state lock.
SectionStep ==
  \/ unlock_scheduler \/ set_init \/ section_unlock \/ current_process_unlock
  \/ exit_stacks_lock \/ exit_stacks_unlock \/ exit_process_lock \/ exit_process_unlock
  \/ \E n \in Threads : block(n)
  \/ At("poll") /\ \E t \in Threads : wake(t)
  \/ Preemption
  \/ Switch

(***************************************************************************)
(* The timer fires every 10 ms and its handler takes far less, so a        *)
(* section that can go on does (strong fairness: it is interrupted again   *)
(* and again), and so does the handler (weak: nothing interrupts it).      *)
(***************************************************************************)
FairSpec ==
  /\ Spec
  /\ SF_vars(SectionStep)
  /\ WF_vars(irq[cpu] # "none" /\ (TimerHandler \/ Preemption))
-----------------------------------------------------------------------------
TypeOK ==
  /\ cpu \in Threads
  /\ current \in Threads
  /\ pc \in [Threads -> PcLocs]
  /\ irq \in [Threads -> IrqLocs]
  /\ state \in BOOLEAN
  /\ stacks \in [Threads -> BOOLEAN]
  /\ tss \in BOOLEAN
  /\ pmReaders \subseteq Threads
  /\ pmWriter \in Threads \cup {Nobody}
  /\ initialized \in BOOLEAN
  /\ ready \subseteq Threads
  /\ asleep \subseteq Threads

\* A context that runs code which relies on the state lock.
HoldsState(t, level) ==
  IF level = "thread" THEN pc[t] \in Sections \cup SwitchLocs
                      ELSE irq[t] \in SwitchLocs \cup {"chk"}

(***************************************************************************)
(* The state lock excludes: at most one context of one thread is inside a  *)
(* section, and the lock is taken while one is, although every switched-in *)
(* thread unlocks it twice, once by force and once through a stale guard   *)
(* (scheduler.rs:42, 97-127, 165-191).                                     *)
(***************************************************************************)
StateLockExcludes ==
  \A t, u \in Threads : \A k, l \in {"thread", "irq"} :
    HoldsState(t, k) =>
      /\ state
      /\ HoldsState(u, l) => t = u /\ k = l

(***************************************************************************)
(* Thread::switch() never spins: the stacks locks of both threads and the  *)
(* TSS lock are free when it takes them, with the state lock held and no   *)
(* other thread able to run.  That is what the check of stacks_locked()    *)
(* and tss().is_locked() before the switch is for (scheduler.rs:114).      *)
(***************************************************************************)
SwitchNeverSpins ==
  /\ Running("sw_cur") => ~stacks[cpu]
  /\ Running("sw_next") => ~stacks[current]
  /\ Running("sw_tss") => ~tss
  /\ Running("x_kind") => ~stacks[cpu]

\* A context that a thread_switch can continue.
Parked(t) ==
  \/ irq[t] = "none" /\ pc[t] \in {"fresh", "resume"}
  \/ irq[t] = "resume" /\ pc[t] \in Preemptible

(***************************************************************************)
(* A switch always leads to a thread that is parked in thread_switch (or   *)
(* has never run), never to the running one or to one that has exited, and *)
(* outside a switch current_thread is the thread on the CPU.               *)
(***************************************************************************)
SwitchTargetParked ==
  IF \E l \in SwitchLocs : Running(l)
  THEN current # cpu /\ Parked(current)
  ELSE \/ current = cpu
       \/ pc[cpu] \in SwitchLocs \* interrupted in the middle of a switch

(***************************************************************************)
(* A section of the state lock ends: the lock is always released again,    *)
(* unless exit() waits for the process manager (ExitNeverWaits is about    *)
(* that), or block() for a thread when none is ready or asleep.            *)
(***************************************************************************)
StateLockReleased ==
  state ~> \/ ~state
           \/ At("x_pm") /\ (pmWriter # Nobody \/ pmReaders # {})
           \/ pc[cpu] = "poll" /\ ready \cup asleep = {}

(***************************************************************************)
(* The scheduler does not wait for a lock that a preempted thread holds:   *)
(* "We cannot use the lock here, because this function is called by the    *)
(* scheduler" (virtual.rs:120).  But exit() takes the process manager's    *)
(* lock with the state locked (scheduler.rs:158), and the holder can never *)
(* be switched to.                                                         *)
(***************************************************************************)
ExitNeverWaits == At("x_pm") => pmWriter = Nobody /\ pmReaders = {}
-----------------------------------------------------------------------------
(* The inductive invariant *)

Gone(t) == irq[t] = "none" /\ pc[t] = "dead"

OthersParked == \A t \in Threads \ {cpu} : Parked(t) \/ Gone(t)

StateLockMeaning ==
  state <=> \/ pc[cpu] \in Sections \cup SwitchLocs \cup {"fresh", "resume"}
            \/ irq[cpu] \in SwitchLocs \cup {"chk", "resume"}

HandlerNesting ==
  /\ pc[cpu] # "dead"
  /\ irq[cpu] \in SwitchLocs \cup {"resume", "drop"} => pc[cpu] \in Preemptible
  /\ irq[cpu] = "chk" =>
       pc[cpu] \in Preemptible \cup {"addr_in", "kind_in", "user_in", "tss_in"}

StacksLockMeaning ==
  \A t \in Threads :
    stacks[t] <=> \/ /\ t = cpu
                     /\ pc[t] \in StacksWindows \cup {"sw_cur_in"} \/ irq[t] = "sw_cur_in"
                  \/ /\ t = current
                     /\ pc[cpu] = "sw_next_in" \/ irq[cpu] = "sw_next_in"

TssLockMeaning ==
  tss <=> pc[cpu] \in {"tss_in", "sw_tss_in"} \/ irq[cpu] = "sw_tss_in"

Switching == pc[cpu] \in SwitchLocs \/ irq[cpu] \in SwitchLocs

CurrentMeaning ==
  IF Switching THEN current # cpu /\ Parked(current) /\ current \notin ready \cup asleep
               ELSE current = cpu

QueuesHoldParked ==
  /\ ready \cap asleep = {}
  /\ \A t \in ready \cup asleep :
       IF t = cpu THEN Switching \/ pc[cpu] = "poll" ELSE Parked(t)

IInv ==
  /\ TypeOK
  /\ OthersParked
  /\ StateLockMeaning
  /\ HandlerNesting
  /\ StacksLockMeaning
  /\ TssLockMeaning
  /\ CurrentMeaning
  /\ QueuesHoldParked
=============================================================================
