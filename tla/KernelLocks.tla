---------------------------- MODULE KernelLocks ----------------------------
(***************************************************************************)
(* The locks of the kernel taken together: who holds which lock while it    *)
(* waits for which other one.  The other modules look at one component and  *)
(* its own lock; the hangs of this kernel come from the combinations, since *)
(* all locks are spin locks and there is one CPU:                           *)
(*                                                                         *)
(*   - a thread is preempted only when the scheduler's lock is free         *)
(*     (switch_thread() uses try_lock()), so a thread that spins with that  *)
(*     lock held spins for ever if another thread holds what it waits for;  *)
(*   - a handler runs with interrupts disabled, so it spins for ever if any *)
(*     thread holds what it waits for.                                      *)
(*                                                                         *)
(* An operation is its script: the sequence of its lock steps, put together *)
(* from the scripts of the functions it calls, one definition per function. *)
(* What the operations compute is left out.  One heap operation stands for  *)
(* a run of allocations and deallocations with no other lock step between.  *)
(*                                                                         *)
(* Left out, as nobody can wait for them: TIMER (the only writer after boot *)
(* uses try_write()), join_map and sleep_list (taken with the scheduler's   *)
(* lock held), cursor and color (with the display's), memory_areas and      *)
(* root_table (one thread per process).  Thread.stacks and TSS are in       *)
(* SchedulerLock, the vectors of the dispatcher in Interrupts.              *)
(***************************************************************************)
EXTENDS Naturals, Sequences

CONSTANTS
  Boot,           \* the code that runs before the scheduler starts
  KernelThreads,  \* the cursor thread and the cleanup thread
  UserThreads,    \* a slot stands for the next program when one has exited
  Handler,        \* an interrupt or exception handler on top of a thread
  Free            \* nobody holds the lock

ASSUME ContextsDistinct ==
  /\ Boot \notin KernelThreads \cup UserThreads
  /\ KernelThreads \cap UserThreads = {}
  /\ Handler \notin KernelThreads \cup UserThreads \cup {Boot}
  /\ Free \notin KernelThreads \cup UserThreads \cup {Boot, Handler}

VARIABLES
  cpu,        \* the thread on the CPU, perhaps below a handler
  op,         \* what each context is doing
  todo,       \* the steps of it that remain; none left: user mode, or idle
  writer,     \* who holds a lock exclusively
  readers,    \* who holds it shared (RwLock)
  registered  \* the terminal is one of the logger's streams

vars == <<cpu, op, todo, writer, readers, registered>>

Threads == KernelThreads \cup UserThreads
Contexts == Threads \cup {Boot, Handler}

\* heap: KernelAllocator.heap; frames, limit: physical.rs; state: Scheduler;
\* processes: PROCESS_MANAGER; efi: EFI_SYSTEM_TABLE; the terminal's three.
Locks == {"heap", "frames", "limit", "state", "processes", "efi", "logger",
          "display", "parser", "decoder"}
-----------------------------------------------------------------------------
(***************************************************************************)
(* Steps and how scripts are put together.                                  *)
(***************************************************************************)
Steps == [do : {"lock", "unlock", "read", "unread", "try", "switch", "maybe", "remove"},
          lock : Locks \cup {""}, skip : Nat]
Step(do, lock) == [do |-> do, lock |-> lock, skip |-> 0]

\* let guard = lock.lock(); body; the guard is dropped.  write() is the same.
Locked(l, body) == <<Step("lock", l)>> \o body \o <<Step("unlock", l)>>

\* let guard = lock.read(); body; the guard is dropped.
Reading(l, body) == <<Step("read", l)>> \o body \o <<Step("unread", l)>>

\* The code takes this part only under a condition that is abstracted away.
Maybe(body) == <<[do |-> "maybe", lock |-> "", skip |-> Len(body)]>> \o body

\* The lock of the scheduler is taken here and released by the thread that is
\* switched to (unlock_scheduler()).
Switching(body) == <<Step("lock", "state")>> \o body \o <<Step("switch", "state")>>

\* ... or nothing at all happens if it is taken (try_lock()).
TrySwitching(body) == <<Step("try", "state")>> \o body \o <<Step("switch", "state")>>

-----------------------------------------------------------------------------
(***************************************************************************)
(* Memory.                                                                  *)
(***************************************************************************)
\* GlobalAlloc of KernelAllocator.
heap == Locked("heap", <<>>)

\* physical::alloc() and free(); also AddressSpace::map(), for tables and pages.
frames == Locked("frames", <<>>)

phys_limit == Locked("limit", <<>>)

\* StackAllocator::deallocate(): a kernel stack is freed, a user stack, at a
\* virtual address, is only compared with the limit.
deallocate == phys_limit \o Maybe(frames)

\* The last reference to a thread is dropped: its two stacks, its reference to
\* its process (what that takes), its entry and itself.
drop_thread(process) == deallocate \o deallocate \o process \o heap

\* The last reference to a process: its pages and tables, then itself.
drop_process == frames \o heap

(***************************************************************************)
(* Scheduler (scheduler.rs).                                                *)
(***************************************************************************)
current_thread == Locked("state", <<>>)

\* collect() allocates the vector with the state locked.
active_thread_ids == Locked("state", heap)

\* Queue and map grow now and then.
ready == Locked("state", Maybe(heap))

sleep == Switching(Maybe(heap))

\* format!() is evaluated whether or not the entry is missing.
join == Switching(heap)

\* format!(), the join list is dropped, the process moves to the exited ones
\* (Process::exit()), and block() drops the thread, unless its parent is still
\* in sys_application_start().  The threads of the kernel never return.
exit == Switching(heap \o Locked("processes", Maybe(heap)) \o Maybe(drop_thread(<<>>)))

\* check_sleep_list() may have to grow the ready queue.  The early return drops
\* the thread that was dequeued, with the state still locked; a return is a
\* switch to the thread itself.
switch_thread == TrySwitching(Maybe(heap) \o Maybe(drop_thread(<<>>)))

(***************************************************************************)
(* Processes and threads (process.rs, thread.rs, virtual.rs).               *)
(***************************************************************************)
active_process_ids == heap

current_process == current_thread

\* A bug: it asks process_manager(), which the caller has locked, for the
\* kernel's process.
Bug_create_process == Reading("processes", <<>>) \o frames \o heap

\* A root table and copies of the kernel's tables, then the process.
create_process == frames \o heap

\* exited_processes.clear(): pages and tables are freed, then the processes.
drop_exited_process == Maybe(drop_process)

\* The process is created with the manager locked for writing; then the code
\* is loaded and mapped, and the stacks are made.
new_user_thread == Locked("processes", create_process) \o frames \o heap \o frames \o heap

new_kernel_thread == frames \o Reading("processes", <<>>) \o heap

\* The old stack vector is dropped at the end.
grow_user_stack == Reading("processes", current_process) \o frames \o phys_limit

(***************************************************************************)
(* Terminal (lfb_terminal.rs) and logger (log.rs).                          *)
(***************************************************************************)
\* Called with the display locked.  The date is drawn if there is EFI.
draw_status_bar ==
  Reading("processes", active_process_ids) \o active_thread_ids \o heap
  \o Maybe(Reading("efi", heap))

\* One byte of write_byte() or write_str(): the parser is copied, the display
\* locked for each character, and the parser put back.  Scrolling and
\* clearing redraw the status bar.
write_str ==
  Locked("parser", <<>>) \o Locked("display", Maybe(draw_status_bar)) \o Locked("parser", <<>>)

\* The decoder stays locked while the keyboard is polled.
read_byte == Locked("decoder", <<>>) \o write_str

clear == Locked("display", draw_status_bar)

\* CursorThread::run(), one round.
cursor_run == sleep \o Locked("display", Maybe(draw_status_bar))

\* The cleanup thread, one round.
cleanup_run == sleep \o Locked("processes", drop_exited_process)

\* format!() and then each stream; writing to the serial port takes no lock.
log(terminal) == Locked("logger", heap \o (IF terminal THEN write_str ELSE <<>>))

(***************************************************************************)
(* System calls (syscall/mod.rs).                                           *)
(***************************************************************************)
sys_map_user_heap == Reading("processes", current_process) \o frames \o heap

sys_process_id == Reading("processes", current_process)

\* The reference kept to return the id is dropped at the end: when the child has
\* exited by then it was the last one, perhaps to its process too.
sys_application_start == new_user_thread \o ready \o Maybe(drop_thread(Maybe(drop_process)))

sys_get_date == Reading("efi", heap)

\* A bug: the new date is drawn with the table still locked.
Bug_sys_set_date == Locked("efi", Locked("display", <<>>))
sys_set_date == Locked("efi", <<>>)

\* The entries of SYSCALL_TABLE, except sys_get_system_time(), which takes no
\* lock anybody waits for.
Syscalls == [read |-> read_byte, write |-> write_str, map_user_heap |-> sys_map_user_heap,
             process_id |-> sys_process_id, thread_id |-> current_thread,
             thread_switch |-> switch_thread, thread_sleep |-> sleep,
             thread_join |-> join, thread_exit |-> exit,
             application_start |-> sys_application_start,
             get_date |-> sys_get_date, set_date |-> sys_set_date]

KernelJobs == [cursor |-> cursor_run, cleanup |-> cleanup_run]

(***************************************************************************)
(* What boot does from the initialisation of the sound card on, when the    *)
(* handler that logs is installed.  `finish` is the end of start().         *)
(***************************************************************************)
BootJobs == [log |-> log(TRUE), map |-> frames \o heap,
             kernel_thread |-> new_kernel_thread \o ready,
             user_thread |-> new_user_thread \o ready,
             finish |-> Locked("logger", <<Step("remove", "")>>)
                        \o clear \o write_str \o log(FALSE) \o Switching(<<>>)]
-----------------------------------------------------------------------------
(***************************************************************************)
(* Holding and waiting.                                                     *)
(***************************************************************************)
Holders(l) == readers[l] \cup ({writer[l]} \ {Free})

\* Mutex::lock() and RwLock::write(); RwLock::read().
Available(s) ==
  CASE s.do = "lock" -> Holders(s.lock) = {}
    [] s.do = "read" -> writer[s.lock] = Free
    [] OTHER         -> TRUE

Waiting(c) == todo[c] # <<>> /\ ~Available(Head(todo[c]))

\* Whose steps the CPU executes.
Running == IF todo[Handler] # <<>> THEN Handler ELSE cpu

Booting == cpu = Boot

Init ==
  /\ cpu = Boot
  /\ op = [c \in Contexts |-> ""]
  /\ todo = [c \in Contexts |-> <<>>]
  /\ writer = [l \in Locks |-> Free]
  /\ readers = [l \in Locks |-> {}]
  /\ registered = TRUE

\* The context has done its first steps; `rest` is what remains.
Continue(c, rest) ==
  /\ todo' = [todo EXCEPT ![c] = rest]
  /\ op' = [op EXCEPT ![c] = IF rest = <<>> THEN "" ELSE @]

Acquire(c) ==
  LET s == Head(todo[c]) IN
  /\ s.do \in {"lock", "read"}
  /\ Available(s)
  /\ IF s.do = "lock"
     THEN writer' = [writer EXCEPT ![s.lock] = c] /\ UNCHANGED readers
     ELSE readers' = [readers EXCEPT ![s.lock] = @ \cup {c}] /\ UNCHANGED writer
  /\ Continue(c, Tail(todo[c]))
  /\ UNCHANGED <<cpu, registered>>

Release(c) ==
  LET s == Head(todo[c]) IN
  /\ s.do \in {"unlock", "unread"}
  /\ IF s.do = "unlock"
     THEN writer' = [writer EXCEPT ![s.lock] = Free] /\ UNCHANGED readers
     ELSE readers' = [readers EXCEPT ![s.lock] = @ \ {c}] /\ UNCHANGED writer
  /\ Continue(c, Tail(todo[c]))
  /\ UNCHANGED <<cpu, registered>>

TryLock(c) ==
  LET s == Head(todo[c]) IN
  /\ s.do = "try"
  /\ IF Holders(s.lock) = {}
     THEN writer' = [writer EXCEPT ![s.lock] = c] /\ Continue(c, Tail(todo[c]))
     ELSE UNCHANGED writer /\ Continue(c, <<>>)
  /\ UNCHANGED <<cpu, readers, registered>>

\* The condition of the optional part holds, or it does not.
Branch(c) ==
  LET s == Head(todo[c]) IN
  /\ s.do = "maybe"
  /\ \E skipped \in {0, s.skip} :
       Continue(c, SubSeq(todo[c], 2 + skipped, Len(todo[c])))
  /\ UNCHANGED <<cpu, writer, readers, registered>>

\* logger().lock().remove(terminal())
Remove(c) ==
  /\ Head(todo[c]).do = "remove"
  /\ registered' = FALSE
  /\ Continue(c, Tail(todo[c]))
  /\ UNCHANGED <<cpu, writer, readers>>

\* Thread::switch() to any thread, and the lock is released.  When threads
\* sleep and for how long is in Scheduler; here a thread that was switched
\* away from may come back at any time.  Boot does not.
Switch(c) ==
  /\ Head(todo[c]).do = "switch"
  /\ \E next \in Threads :
       /\ cpu' = next
       /\ writer' = [writer EXCEPT !["state"] = Free]
       /\ Continue(c, Tail(todo[c]))
  /\ UNCHANGED <<readers, registered>>

\* A system call, the next round of a kernel thread, or the next part of boot.
Begin(t, jobs) ==
  /\ Running = t
  /\ todo[t] = <<>>
  /\ \E job \in DOMAIN jobs :
       /\ op' = [op EXCEPT ![t] = job]
       /\ todo' = [todo EXCEPT ![t] = jobs[job]]
  /\ UNCHANGED <<cpu, writer, readers, registered>>

\* A handler starts with interrupts enabled and disables them until it is done.
Interrupt(name, script) ==
  /\ todo[Handler] = <<>>
  /\ op' = [op EXCEPT ![Handler] = name]
  /\ todo' = [todo EXCEPT ![Handler] = script]
  /\ UNCHANGED <<cpu, writer, readers, registered>>

\* The timer of the APIC, which boot starts last.
TimerInterrupt == ~Booting /\ Interrupt("timer", switch_thread)

\* IHDAInterruptHandler::trigger(), in a debug build.
SoundInterrupt == Interrupt("sound", log(registered))

\* A program touches the page below its stack: handle_page_fault().
handle_page_fault == current_thread \o grow_user_stack
PageFault ==
  /\ cpu \in UserThreads
  /\ todo[cpu] = <<>>
  /\ Interrupt("page_fault", handle_page_fault)

Proceed(c) ==
  /\ Running = c
  /\ todo[c] # <<>>
  /\ Acquire(c) \/ Release(c) \/ TryLock(c) \/ Branch(c) \/ Remove(c) \/ Switch(c)

Next ==
  \/ Begin(Boot, BootJobs)
  \/ \E t \in KernelThreads : Begin(t, KernelJobs)
  \/ \E t \in UserThreads : Begin(t, Syscalls)
  \/ \E c \in Contexts : Proceed(c)
  \/ TimerInterrupt
  \/ SoundInterrupt
  \/ PageFault

Spec == Init /\ [][Next]_vars
-----------------------------------------------------------------------------
(***************************************************************************)
(* Properties.                                                              *)
(***************************************************************************)
Jobs == DOMAIN Syscalls \cup DOMAIN KernelJobs \cup DOMAIN BootJobs
        \cup {"timer", "sound", "page_fault", ""}

TypeOK ==
  /\ cpu \in Threads \cup {Boot}
  /\ op \in [Contexts -> Jobs] /\ todo \in [Contexts -> Seq(Steps)]
  /\ writer \in [Locks -> Contexts \cup {Free}]
  /\ readers \in [Locks -> SUBSET Contexts]
  /\ registered \in BOOLEAN

\* The context spins and whoever could let it go on can no longer run: it is
\* a handler, it holds the scheduler's lock, or it holds the lock itself.
Hopeless(c) ==
  /\ Running = c
  /\ Waiting(c)
  /\ \/ c = Handler
     \/ writer["state"] = c
     \/ c \in Holders(Head(todo[c]).lock)

\* The waits of this kernel that may never end: the operation and the lock.
KnownHangs ==
  \* format!(), collect() and growing a queue allocate with the scheduler's
  \* lock held, and a thread was preempted inside the heap;
  ({"cursor", "cleanup", "read", "write", "thread_sleep", "thread_switch", "thread_join",
    "thread_exit", "application_start", "timer"} \X {"heap"})
  \* exit() takes the process manager's lock;
  \cup {<<"thread_exit", "processes">>}
  \* it frees the stacks of the thread, and so does switch_thread() when it drops
  \* one, while another thread may be inside the frame list or, at the end of
  \* sys_application_start(), inside phys_limit();
  \cup ({"thread_exit", "thread_switch", "timer"} \X {"frames", "limit"})
  \* growing a stack needs all three, with interrupts disabled;
  \cup ({"page_fault"} \X {"processes", "frames", "limit"})
  \* and a message of the sound card's handler needs whatever the logger and,
  \* during boot, the status bar of the terminal need.
  \cup ({"sound"} \X {"logger", "heap", "state", "processes"})

\* Every wait that can never end is one of the known ones; no other
\* combination of operations hangs the machine.  In particular nobody waits
\* in vain for the display, the parser, the decoder or the EFI table, and no
\* context waits for itself.
HangsAreKnown ==
  /\ TypeOK
  /\ \A c \in Contexts : Hopeless(c) => <<op[c], Head(todo[c]).lock>> \in KnownHangs

\* Thread a waits for thread b, for a lock other than the scheduler's (whose
\* holder cannot be preempted and is covered above).
WaitsFor(a, b) ==
  /\ Waiting(a)
  /\ Head(todo[a]).lock # "state"
  /\ b \in Holders(Head(todo[a]).lock)

\* Threads never wait for each other in a circle: the display is taken before
\* the process manager, the EFI table and the heap, and never after them, so
\* among any threads there is one that waits for none of them.
NoCircularWait ==
  \A circle \in (SUBSET Threads) \ {{}} :
    \E a \in circle : \A b \in circle : ~WaitsFor(a, b)
=============================================================================
