----------------------------- MODULE Interrupts -----------------------------
(***************************************************************************)
(* Interrupts of D3OS: the IO-APIC's redirection table and the local APIC  *)
(* (device/apic.rs), the dispatcher with its handler vectors               *)
(* (interrupt/interrupt_dispatcher.rs), the drivers' handlers, and the     *)
(* order in which start() (boot.rs) plugs the drivers in.                  *)
(*                                                                         *)
(* Kernel code runs with interrupts enabled.  A handler runs with them     *)
(* disabled, so that a dispatch is cut in two only by a thread switch: the *)
(* APIC timer's handler leaves its dispatch() half done on the stack of    *)
(* the thread it preempts, with the vector's lock held, and finishes when  *)
(* that thread is switched to again.                                       *)
(* A definition named Bug_... is a plausible mistake in the one after it;  *)
(* only the mutation runs use it.                                          *)
(***************************************************************************)
EXTENDS Integers, Sequences

CONSTANTS
  Boot,       \* the thread that runs start()
  Threads,    \* the threads the scheduler switches between afterwards
  First,      \* the one it starts with
  Pit, Keyboard, Serial, Sound, ApicTimer,  \* drivers
  Vector,     \* the interrupt vector each driver is assigned to
  Tables,     \* override tables firmware may report: functions from IRQs to GSIs
  Nmis,       \* global system interrupts (GSIs) that cannot be masked
  MaxEntry,   \* the last entry of the redirection table
  MaxTicks    \* bound on the ticks of the PIT

Drivers == {Pit, Keyboard, Serial, Sound, ApicTimer}
Vectors == {Vector[d] : d \in Drivers}
Gsis == 0 .. MaxEntry
IrqOf(vector) == vector - 32    \* vector as u8 - InterruptVector::Pit as u8

\* target_gsi(): the GSI that an IRQ of the PC arrives at.
target_gsi(table, irq) == IF irq \in DOMAIN table THEN table[irq] ELSE irq
Arrival(table, d) == target_gsi(table, IrqOf(Vector[d]))

ASSUME InterruptsAssumption ==
  /\ Boot \notin Threads /\ First \in Threads
  /\ Pit \notin {Keyboard, Serial, Sound, ApicTimer} /\ Keyboard \notin {Serial, Sound, ApicTimer}
  /\ Serial \notin {Sound, ApicTimer} /\ Sound # ApicTimer
  /\ Vector \in [Drivers -> 32 .. 254]
  /\ \A d \in Drivers \ {ApicTimer} : Vector[d] # Vector[ApicTimer]
  /\ Vector[Pit] # Vector[Keyboard]
  /\ MaxEntry \in 0 .. 223 /\ MaxTicks \in Nat   \* a vector is a u8
  /\ Nmis \subseteq Gsis

\* What firmware and hardware are relied on for: overrides name IRQs of the PC
\* and send none to another driver's line; the line of a driver is neither an
\* NMI source nor the last entry, which Apic::new() does not program.
ASSUME WiringAssumption ==
  \A table \in Tables :
    /\ DOMAIN table \subseteq 0 .. 15 /\ \A irq \in DOMAIN table : table[irq] \in Nat
    /\ \A d \in Drivers :
         /\ \A irq \in DOMAIN table \ {IrqOf(Vector[d])} : table[irq] # Arrival(table, d)
         /\ Arrival(table, d) \notin Nmis \cup {MaxEntry}

VARIABLES
  overrides,   \* Apic.irq_overrides
  redirection, \* the IO-APIC's table: vector and mask of each GSI
  step,        \* the next step of start()
  sources,     \* the devices that have been told to raise interrupts
  handlers,    \* InterruptDispatcher.int_vectors: the drivers of each vector
  vectorLock,  \* and the lock of each vector
  irr, isr,    \* local APIC: vectors requested, vector in service
  localApic,   \* the lock of the local APIC
  cpu,         \* the thread on the CPU
  at,          \* where each thread is in its own code
  frame,       \* the interrupt each thread is handling, and how far it is
  controller,  \* the lock of the PS/2 controller
  logger,      \* the lock of the logger
  readers,     \* who holds the timer's lock for reading
  ticks,       \* PIT interrupts handled, not kept by the code
  systime, pending,  \* Timer.systime_ns in intervals, pending_incs
  panic        \* a handler panicked

apicVars == <<overrides, redirection, sources>>
timeVars == <<ticks, systime, pending>>
threadVars == <<cpu, at>>
lockVars == <<controller, logger, readers>>
vars == <<apicVars, step, handlers, vectorLock, irr, isr, localApic, threadVars, frame,
          lockVars, timeVars, panic>>
-----------------------------------------------------------------------------
(* The redirection table *)

\* Ignores the overrides.
Bug_VectorOfGsi(table, gsi) == gsi + 32

\* override_for_target(): the vector programmed for a GSI.
VectorOfGsi(table, gsi) ==
  IF \E irq \in DOMAIN table : table[irq] = gsi
  THEN 32 + (CHOOSE irq \in DOMAIN table : table[irq] = gsi)
  ELSE gsi + 32

\* Apic::new(): everything is masked, except what cannot be.  The loop over
\* the entries stops before the last one, which stays as io_apic.init() left it.
RedirectionTable(table) ==
  [gsi \in Gsis |->
     IF gsi \in Nmis THEN [vector |-> 0, masked |-> FALSE]
     ELSE IF gsi < MaxEntry THEN [vector |-> VectorOfGsi(table, gsi), masked |-> TRUE]
     ELSE [vector |-> 0, masked |-> TRUE]]
-----------------------------------------------------------------------------
(* What start() does, from the timer on *)

Plugin(d) == <<[op |-> "lock", dev |-> d], [op |-> "push", dev |-> d], [op |-> "allow", dev |-> d]>>
Do(op, d) == <<[op |-> op, dev |-> d]>>

BootSteps ==
  Plugin(Pit) \o Do("sti", Pit)
  \o Do("init_controller", Keyboard) \o Do("init_done", Keyboard) \o Plugin(Keyboard)
  \o Plugin(Serial) \o Do("enable", Serial)
  \o Plugin(Sound) \o Do("enable", Sound)
  \o Do("lock_apic", ApicTimer) \o Do("enable", ApicTimer) \o Plugin(ApicTimer)
  \o Do("unlock_apic", ApicTimer) \o Do("start", ApicTimer)

Free == [vec |-> 0, at |-> "none"]

Init ==
  /\ overrides \in Tables
  /\ redirection = RedirectionTable(overrides)
  /\ step = 1
  /\ sources = {Pit}
  /\ handlers = [v \in Vectors |-> {}]
  /\ vectorLock = [v \in Vectors |-> FALSE]
  /\ irr = {} /\ isr = {}
  /\ localApic = FALSE
  /\ cpu = Boot
  /\ at = [t \in Threads \cup {Boot} |-> IF t = Boot THEN "run" ELSE "parked"]
  /\ frame = [t \in Threads \cup {Boot} |-> Free]
  /\ controller = FALSE /\ logger = FALSE /\ readers = {}
  /\ ticks = 0 /\ systime = 0 /\ pending = 0
  /\ panic = FALSE

\* The thread on the CPU runs its own code.
OwnCode == frame[cpu] = Free /\ ~panic

\* start() is about to do op for driver d.
Booting(op, d) ==
  /\ OwnCode /\ cpu = Boot /\ at[Boot] = "run"
  /\ step <= Len(BootSteps) /\ BootSteps[step] = [op |-> op, dev |-> d]
  /\ step' = step + 1

\* assign(): vec.lock() ...
assign_lock(d) ==
  /\ Booting("lock", d)
  /\ ~vectorLock[Vector[d]]
  /\ vectorLock' = [vectorLock EXCEPT ![Vector[d]] = TRUE]
  /\ UNCHANGED <<apicVars, handlers, irr, isr, localApic, threadVars, frame, lockVars, timeVars, panic>>

\* ... .push(handler), and the guard is dropped.
assign_push(d) ==
  /\ Booting("push", d)
  /\ handlers' = [handlers EXCEPT ![Vector[d]] = @ \cup {d}]
  /\ vectorLock' = [vectorLock EXCEPT ![Vector[d]] = FALSE]
  /\ UNCHANGED <<apicVars, irr, isr, localApic, threadVars, frame, lockVars, timeVars, panic>>

\* The APIC timer's target lies beyond the table: nothing is unmasked.
allow(d) ==
  LET target == Arrival(overrides, d)
  IN  /\ Booting("allow", d)
      /\ panic' = (target \in Nmis)
      /\ redirection' = [gsi \in Gsis |->
           IF gsi = target /\ gsi \notin Nmis
           THEN [redirection[gsi] EXCEPT !.masked = FALSE] ELSE redirection[gsi]]
      /\ UNCHANGED <<overrides, sources, handlers, vectorLock, irr, isr, localApic, threadVars,
                     frame, lockVars, timeVars>>

\* The driver lets its device raise interrupts: the interrupt register of
\* SerialPort::plugin(), Controller::configure() of the sound card,
\* enable_timer() in start_timer().
enable_device(d) ==
  /\ Booting("enable", d)
  /\ sources' = sources \cup {d}
  /\ UNCHANGED <<overrides, redirection, handlers, vectorLock, irr, isr, localApic, threadVars,
                 frame, lockVars, timeVars, panic>>

\* interrupts::enable(): until then no interrupt is accepted.
enable_interrupts ==
  /\ Booting("sti", Pit)
  /\ UNCHANGED <<apicVars, handlers, vectorLock, irr, isr, localApic, threadVars, frame, lockVars,
                 timeVars, panic>>

\* init_controller() and init_keyboard() hold the controller's lock; the
\* keyboard raises interrupts once its configuration byte says so.
init_controller ==
  /\ Booting("init_controller", Keyboard)
  /\ controller' = TRUE
  /\ sources' = sources \cup {Keyboard}
  /\ UNCHANGED <<overrides, redirection, handlers, vectorLock, irr, isr, localApic, threadVars,
                 frame, logger, readers, timeVars, panic>>

init_keyboard_done ==
  /\ Booting("init_done", Keyboard)
  /\ controller' = FALSE
  /\ UNCHANGED <<apicVars, handlers, vectorLock, irr, isr, localApic, threadVars, frame, logger,
                 readers, timeVars, panic>>

\* start_timer() holds the local APIC's lock to its end.
start_timer_lock ==
  /\ Booting("lock_apic", ApicTimer)
  /\ ~localApic
  /\ localApic' = TRUE
  /\ UNCHANGED <<apicVars, handlers, vectorLock, irr, isr, threadVars, frame, lockVars, timeVars,
                 panic>>

start_timer_done ==
  /\ Booting("unlock_apic", ApicTimer)
  /\ localApic' = FALSE
  /\ UNCHANGED <<apicVars, handlers, vectorLock, irr, isr, threadVars, frame, lockVars, timeVars,
                 panic>>

\* scheduler().start(): the boot thread's stack is left for good.
start_scheduler ==
  /\ Booting("start", ApicTimer)
  /\ cpu' = First
  /\ at' = [at EXCEPT ![First] = "run", ![Boot] = "left"]
  /\ UNCHANGED <<apicVars, handlers, vectorLock, irr, isr, localApic, frame, lockVars, timeVars,
                 panic>>

BootStep ==
  \/ \E d \in Drivers : assign_lock(d) \/ assign_push(d) \/ allow(d) \/ enable_device(d)
  \/ enable_interrupts \/ init_controller \/ init_keyboard_done
  \/ start_timer_lock \/ start_timer_done \/ start_scheduler
-----------------------------------------------------------------------------
(* What threads do *)

Goto(l) == at' = [at EXCEPT ![cpu] = l]

\* timer().read() ... : systime_ms(), wait(), sleep().
read_timer ==
  /\ OwnCode
  /\ \/ at[cpu] = "run" /\ Goto("read")
     \/ at[cpu] = "log" /\ Goto("log_read")
  /\ readers' = readers \cup {cpu}
  /\ UNCHANGED <<apicVars, step, handlers, vectorLock, irr, isr, localApic, cpu, frame, controller,
                 logger, timeVars, panic>>

\* ... and the guard is dropped.
read_timer_done ==
  /\ OwnCode
  /\ \/ at[cpu] = "read" /\ Goto("run")
     \/ at[cpu] = "log_read" /\ Goto("log_write")
  /\ readers' = readers \ {cpu}
  /\ UNCHANGED <<apicVars, step, handlers, vectorLock, irr, isr, localApic, cpu, frame, controller,
                 logger, timeVars, panic>>

\* Logger::log(): the logger stays locked until all streams are written.
log_lock ==
  /\ OwnCode /\ at[cpu] = "run" /\ ~logger
  /\ logger' = TRUE
  /\ Goto("log")
  /\ UNCHANGED <<apicVars, step, handlers, vectorLock, irr, isr, localApic, cpu, frame, controller,
                 readers, timeVars, panic>>

log_unlock ==
  /\ OwnCode /\ at[cpu] = "log_write"
  /\ logger' = FALSE
  /\ Goto("run")
  /\ UNCHANGED <<apicVars, step, handlers, vectorLock, irr, isr, localApic, cpu, frame, controller,
                 readers, timeVars, panic>>

\* A thread that a switch can continue: one that has blocked or not run yet,
\* or one the APIC timer's handler has switched away from.
Waiting(t) == at[t] = "parked" \/ frame[t].at = "switched"

SwitchTo(t, places, frames) ==
  /\ t # cpu /\ Waiting(t)
  /\ cpu' = t
  /\ at' = IF frame[t].at = "switched" THEN places ELSE [places EXCEPT ![t] = "run"]
  /\ frame' = [frames EXCEPT ![t].at = IF @ = "switched" THEN "resumed" ELSE @]

\* Scheduler::block(): the thread on the CPU switches to another one itself.
block(t) ==
  /\ OwnCode /\ at[cpu] = "run" /\ cpu # Boot
  /\ SwitchTo(t, [at EXCEPT ![cpu] = "parked"], frame)
  /\ UNCHANGED <<apicVars, step, handlers, vectorLock, irr, isr, localApic, lockVars, timeVars,
                 panic>>

ThreadStep ==
  \/ read_timer \/ read_timer_done \/ log_lock \/ log_unlock
  \/ \E t \in Threads : block(t)
-----------------------------------------------------------------------------
(* Interrupts *)

\* sti is the fourth step.
InterruptsOn == OwnCode /\ step > 4

\* A device raises its interrupt: the IO-APIC passes the vector of an entry
\* that is not masked, the local APIC's timer uses its own.
raise(d) ==
  LET gsi == Arrival(overrides, d)
  IN  /\ d \in sources /\ ~panic
      /\ d = Pit => ticks < MaxTicks /\ Vector[Pit] \notin irr \cup isr
      /\ IF d = ApicTimer THEN irr' = irr \cup {Vector[d]}
         ELSE /\ gsi \in Gsis /\ ~redirection[gsi].masked
              /\ irr' = irr \cup {redirection[gsi].vector}
      /\ UNCHANGED <<apicVars, step, handlers, vectorLock, isr, localApic, threadVars, frame,
                     lockVars, timeVars, panic>>

\* The CPU accepts an interrupt and calls handle_interrupt().  The local APIC
\* holds back what is not above the one in service.
accept(v) ==
  /\ InterruptsOn
  /\ v \in irr /\ \A w \in irr : w <= v
  /\ \A w \in isr : v \div 16 > w \div 16
  /\ irr' = irr \ {v}
  /\ isr' = isr \cup {v}
  /\ frame' = [frame EXCEPT ![cpu] = [vec |-> v, at |-> "entry"]]
  /\ UNCHANGED <<apicVars, step, handlers, vectorLock, localApic, threadVars, lockVars, timeVars,
                 panic>>

\* Does not count a tick it cannot add.
Bug_DropsTick ==
  /\ ticks' = ticks + 1
  /\ systime' = systime + (IF readers = {} THEN 1 ELSE 0)
  /\ UNCHANGED pending

\* TimerInterruptHandler::trigger(): the time is only advanced when nobody
\* reads it; ticks that could not be added are added later.
TimerTrigger ==
  /\ ticks' = ticks + 1
  /\ IF readers = {} THEN systime' = systime + pending + 1 /\ pending' = 0
                     ELSE systime' = systime /\ pending' = pending + 1

\* dispatch(): lock the vector, by force if need be, and call its handlers.
\* The keyboard's panics if the controller is locked; the sound card's logs,
\* and so waits for the logger.  A vector without handlers is let pass:
\* is_empty() is asked of the Option around the guard.
dispatch ==
  LET v == frame[cpu].vec
  IN  /\ ~panic /\ frame[cpu].at = "entry" /\ v \in Vectors
      /\ Sound \in handlers[v] => ~logger
      /\ vectorLock' = [vectorLock EXCEPT ![v] = TRUE]
      /\ IF Pit \in handlers[v] THEN TimerTrigger ELSE UNCHANGED timeVars
      /\ panic' = (Keyboard \in handlers[v] /\ controller)
      /\ frame' = [frame EXCEPT ![cpu].at = "done"]
      /\ UNCHANGED <<apicVars, step, handlers, irr, isr, localApic, threadVars, lockVars>>

\* Of two vectors in service the higher one is acknowledged.
Acknowledged == {v \in isr : \E w \in isr : w > v}

\* Leaves the acknowledgement to dispatch().
Bug_SwitchWithoutEoi(t) ==
  /\ ~panic /\ frame[cpu].at = "entry" /\ cpu # Boot
  /\ frame[cpu].vec \in Vectors /\ ApicTimer \in handlers[frame[cpu].vec]
  /\ vectorLock' = [vectorLock EXCEPT ![frame[cpu].vec] = TRUE]
  /\ SwitchTo(t, at, [frame EXCEPT ![cpu].at = "switched"])
  /\ UNCHANGED <<apicVars, step, handlers, irr, isr, localApic, lockVars, timeVars, panic>>

\* The same for the APIC timer, when its handler switches to another thread:
\* switch_thread() acknowledges the interrupt first.
dispatch_switch(t) ==
  /\ ~panic /\ frame[cpu].at = "entry" /\ cpu # Boot
  /\ frame[cpu].vec \in Vectors /\ ApicTimer \in handlers[frame[cpu].vec]
  /\ vectorLock' = [vectorLock EXCEPT ![frame[cpu].vec] = TRUE]
  /\ isr' = Acknowledged
  /\ localApic' = FALSE
  /\ SwitchTo(t, at, [frame EXCEPT ![cpu].at = "switched"])
  /\ UNCHANGED <<apicVars, step, handlers, irr, lockVars, timeVars, panic>>

\* Keeps the guard.
Bug_FinishKeepsLock ==
  /\ ~panic /\ frame[cpu].at \in {"done", "resumed"}
  /\ isr' = Acknowledged
  /\ localApic' = FALSE
  /\ frame' = [frame EXCEPT ![cpu] = Free]
  /\ UNCHANGED <<apicVars, step, handlers, vectorLock, irr, threadVars, lockVars, timeVars, panic>>

\* dispatch() drops the guard of the vector and ends the interrupt, after
\* forcing the local APIC's lock; the handler returns.
dispatch_end ==
  /\ ~panic /\ frame[cpu].at \in {"done", "resumed"}
  /\ vectorLock' = [vectorLock EXCEPT ![frame[cpu].vec] = FALSE]
  /\ isr' = Acknowledged
  /\ localApic' = FALSE
  /\ frame' = [frame EXCEPT ![cpu] = Free]
  /\ UNCHANGED <<apicVars, step, handlers, irr, threadVars, lockVars, timeVars, panic>>

Interrupt ==
  \/ \E d \in Drivers : raise(d)
  \/ \E v \in Vectors : accept(v)
  \/ dispatch \/ dispatch_end
  \/ \E t \in Threads : dispatch_switch(t)

Next == BootStep \/ ThreadStep \/ Interrupt

Spec == Init /\ [][Next]_vars
-----------------------------------------------------------------------------
Places == {"run", "parked", "left", "read", "log", "log_read", "log_write"}

TypeOK ==
  /\ overrides \in Tables
  /\ redirection \in [Gsis -> [vector : 0 .. 255, masked : BOOLEAN]]
  /\ step \in 1 .. Len(BootSteps) + 1
  /\ sources \subseteq Drivers
  /\ handlers \in [Vectors -> SUBSET Drivers]
  /\ vectorLock \in [Vectors -> BOOLEAN]
  /\ irr \subseteq 0 .. 255 /\ isr \subseteq 0 .. 255
  /\ cpu \in Threads \cup {Boot}
  /\ at \in [Threads \cup {Boot} -> Places]
  /\ frame \in [Threads \cup {Boot} ->
                 [vec : 0 .. 255, at : {"none", "entry", "done", "switched", "resumed"}]]
  /\ {localApic, controller, logger, panic} \subseteq BOOLEAN
  /\ readers \subseteq Threads \cup {Boot}
  /\ {ticks, systime, pending} \subseteq Nat

(***************************************************************************)
(* The interrupt in service is the one being handled on the CPU.  A thread *)
(* never runs its own code with one unacknowledged, which would keep all   *)
(* lower ones away for good; and the second acknowledgement of a timer     *)
(* interrupt, when its thread is switched to again (scheduler.rs:124 and   *)
(* interrupt_dispatcher.rs:259), never hits somebody else's interrupt.     *)
(***************************************************************************)
InServiceIsHandled ==
  ~panic => isr = IF frame[cpu].at \in {"entry", "done"} THEN {frame[cpu].vec} ELSE {}

(***************************************************************************)
(* A device whose interrupt gets through has a driver for it: the entry    *)
(* its line arrives at carries the vector its handler was assigned to,     *)
(* and the handler finds its driver initialised (it panics otherwise,      *)
(* ps2.rs:65).                                                             *)
(***************************************************************************)
UnmaskedMeansHandled ==
  /\ ~panic
  /\ \A d \in sources \ {ApicTimer} :
       LET gsi == Arrival(overrides, d)
       IN  gsi \in Gsis /\ ~redirection[gsi].masked =>
             redirection[gsi].vector = Vector[d] /\ d \in handlers[Vector[d]]

(***************************************************************************)
(* A locked vector belongs to a dispatch() that is under way, perhaps on   *)
(* the stack of a thread that waits, or to an assign(): forced and doubled *)
(* unlocks leave no lock behind (interrupt_dispatcher.rs:239-258).  Every  *)
(* variable has its type.                                                  *)
(***************************************************************************)
VectorLocksAccounted ==
  /\ TypeOK
  /\ \A v \in Vectors : vectorLock[v] =>
       \/ \E t \in Threads \cup {Boot} :
            frame[t].vec = v /\ frame[t].at \in {"done", "switched", "resumed"}
       \/ \E d \in Drivers : /\ Vector[d] = v /\ step <= Len(BootSteps)
                             /\ BootSteps[step] = [op |-> "push", dev |-> d]

(***************************************************************************)
(* No tick of the PIT is lost: what systime does not show yet is pending,  *)
(* although readers may be preempted with the lock (pit.rs:25-34).         *)
(***************************************************************************)
NoTickLost == systime + pending = ticks

(***************************************************************************)
(* The time does not change while somebody reads it.                       *)
(***************************************************************************)
ReadersSeeStableTime == [][readers # {} => systime' = systime]_vars

=============================================================================
