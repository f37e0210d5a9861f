------------------------- MODULE Interrupts_proofs -------------------------
(***************************************************************************)
(* For any set of threads, any vectors and any firmware: an interrupt is   *)
(* in service only while its handler is on the CPU, the time kept by the   *)
(* PIT's handler is right, no vector's lock is left behind, and a line     *)
(* that is unmasked leads to its driver.                                   *)
(***************************************************************************)
EXTENDS Interrupts, TLAPS

All == Threads \cup {Boot}
FrameLocs == {"none", "entry", "done", "switched", "resumed"}

\* InServiceIsHandled is not inductive: which interrupts a switch leaves in
\* service depends on the frames of the threads that wait, and those are free
\* or left by dispatch_switch, which has acknowledged.
FrameTypeOK ==
  /\ cpu \in All
  /\ at \in [All -> Places]
  /\ frame \in [All -> [vec : Int, at : FrameLocs]]

WaitingFrames ==
  /\ \A t \in All \ {cpu} : frame[t].at \in {"none", "switched"}
  /\ frame[cpu].at # "switched"
  /\ \A t \in All : at[t] = "parked" => t # cpu /\ frame[t].at = "none"
  /\ cpu = Boot => \A t \in Threads : frame[t].at = "none"

ServiceInv == FrameTypeOK /\ WaitingFrames /\ InServiceIsHandled

TimeInv == ticks \in Int /\ systime \in Int /\ pending \in Int /\ NoTickLost

\* Vectors are numbers.
LEMMA VectorsAreInts == Vectors \subseteq Int
BY InterruptsAssumption DEF Vectors, InterruptsAssumption, Drivers

\* The boot code is not one of the threads.
LEMMA BootApart == Boot \notin Threads /\ First \in Threads
BY InterruptsAssumption DEF InterruptsAssumption

\* ServiceInv holds when the machine starts, ...
LEMMA ServiceInit == Init => ServiceInv
<1> SUFFICES ASSUME Init PROVE ServiceInv
  OBVIOUS
<1>1. FrameTypeOK
  BY DEF Init, FrameTypeOK, All, FrameLocs, Free, Places
<1>2. \A t \in All : frame[t].at = "none"
  BY DEF Init, All, Free
<1>3. WaitingFrames
  BY <1>1, <1>2 DEF Init, WaitingFrames, All, FrameTypeOK
<1>4. InServiceIsHandled
  BY <1>1, <1>2 DEF Init, InServiceIsHandled, FrameTypeOK
<1> QED
  BY <1>1, <1>3, <1>4 DEF ServiceInv

\* Boot steps happen in own code of the boot thread, and only the last one
\* changes the thread on the CPU.
LEMMA BootKeepsService == ServiceInv /\ BootStep => ServiceInv'
<1> SUFFICES ASSUME ServiceInv, BootStep PROVE ServiceInv'
  OBVIOUS
<1> USE DEF ServiceInv, FrameTypeOK, WaitingFrames, InServiceIsHandled
<1>1. OwnCode /\ isr = {} /\ frame[cpu].at = "none" /\ ~panic
  <2>1. OwnCode
    BY DEF BootStep, assign_lock, assign_push, allow, enable_device, enable_interrupts,
           init_controller, init_keyboard_done, start_timer_lock, start_timer_done,
           start_scheduler, Booting
  <2> QED
    BY <2>1 DEF OwnCode, Free
<1>2. CASE start_scheduler
  <2>1. cpu = Boot /\ cpu' = First /\ frame' = frame /\ isr' = isr /\ panic' = panic
    BY <1>2 DEF start_scheduler, Booting
  <2>2. First \in All /\ First # Boot /\ Threads \subseteq All
    BY BootApart DEF All
  <2>3. at' = [at EXCEPT ![First] = "run", ![Boot] = "left"]
    BY <1>2 DEF start_scheduler
  <2>4. frame[First].at = "none"
    BY <2>1, BootApart
  <2> QED
    BY <1>1, <2>1, <2>2, <2>3, <2>4 DEF Places
<1>3. CASE UNCHANGED <<cpu, at, frame, isr>>
  BY <1>1, <1>3
<1>4. ASSUME NEW d \in Drivers, assign_lock(d) \/ assign_push(d) \/ allow(d) \/ enable_device(d)
      PROVE  UNCHANGED <<cpu, at, frame, isr>>
  BY <1>4 DEF assign_lock, assign_push, allow, enable_device, threadVars
<1>5. ASSUME \/ enable_interrupts \/ init_controller \/ init_keyboard_done
             \/ start_timer_lock \/ start_timer_done
      PROVE  UNCHANGED <<cpu, at, frame, isr>>
  BY <1>5 DEF enable_interrupts, init_controller, init_keyboard_done, start_timer_lock,
              start_timer_done, threadVars
<1> QED
  BY <1>2, <1>3, <1>4, <1>5 DEF BootStep

\* ... when threads run, ...
LEMMA ThreadKeepsService == ServiceInv /\ ThreadStep => ServiceInv'
<1> SUFFICES ASSUME ServiceInv, ThreadStep PROVE ServiceInv'
  OBVIOUS
<1> USE DEF ServiceInv, FrameTypeOK, WaitingFrames, InServiceIsHandled
<1>1. OwnCode /\ isr = {} /\ frame[cpu].at = "none" /\ at[cpu] # "parked" /\ isr' = isr
  <2>1. OwnCode /\ isr' = isr
    BY DEF ThreadStep, read_timer, read_timer_done, log_lock, log_unlock, block
  <2> QED
    BY <2>1 DEF OwnCode, Free
<1>2. CASE read_timer \/ read_timer_done \/ log_lock \/ log_unlock
  <2>1. cpu' = cpu /\ frame' = frame /\ panic' = panic
    BY <1>2 DEF read_timer, read_timer_done, log_lock, log_unlock
  <2>2. PICK l \in Places \ {"parked"} : at' = [at EXCEPT ![cpu] = l]
    BY <1>2 DEF read_timer, read_timer_done, log_lock, log_unlock, Goto, Places
  <2> QED
    BY <1>1, <2>1, <2>2
<1>3. ASSUME NEW t \in Threads, block(t) PROVE ServiceInv'
  <2>1. /\ t # cpu /\ Waiting(t) /\ cpu' = t /\ panic' = panic /\ t \in All
        /\ frame' = [frame EXCEPT ![t].at = IF @ = "switched" THEN "resumed" ELSE @]
        /\ at' = IF frame[t].at = "switched" THEN [at EXCEPT ![cpu] = "parked"]
                 ELSE [at EXCEPT ![cpu] = "parked", ![t] = "run"]
    BY <1>3 DEF block, SwitchTo, All
  <2> QED
    BY <1>1, <2>1, BootApart DEF Waiting, Places, FrameLocs
<1> QED
  BY <1>2, <1>3 DEF ThreadStep

\* ... when an interrupt is delivered and handled, ...
LEMMA InterruptKeepsService == ServiceInv /\ Interrupt => ServiceInv'
<1> SUFFICES ASSUME ServiceInv, Interrupt PROVE ServiceInv'
  OBVIOUS
<1> USE DEF ServiceInv, FrameTypeOK, WaitingFrames, InServiceIsHandled
<1>1. ASSUME NEW d \in Drivers, raise(d) PROVE ServiceInv'
  BY <1>1 DEF raise, threadVars
<1>2. ASSUME NEW v \in Vectors, accept(v) PROVE ServiceInv'
  <2>1. isr = {} /\ v \in Int
    BY <1>2, VectorsAreInts DEF accept, InterruptsOn, OwnCode, Free
  <2>2. isr' = {v} /\ frame' = [frame EXCEPT ![cpu] = [vec |-> v, at |-> "entry"]]
    BY <1>2, <2>1 DEF accept
  <2>3. cpu' = cpu /\ at' = at /\ panic' = panic
    BY <1>2 DEF accept, threadVars
  <2> QED
    BY <2>1, <2>2, <2>3, BootApart DEF FrameLocs, All
<1>3. ASSUME dispatch PROVE ServiceInv'
  <2>1. /\ frame[cpu].at = "entry" /\ frame' = [frame EXCEPT ![cpu].at = "done"]
        /\ cpu' = cpu /\ at' = at /\ isr' = isr /\ ~panic
    BY <1>3 DEF dispatch, threadVars
  <2> QED
    BY <2>1, BootApart DEF FrameLocs, All
<1>4. ~panic => Acknowledged = {}
  BY DEF Acknowledged
<1>5. ASSUME dispatch_end PROVE ServiceInv'
  <2>1. /\ frame' = [frame EXCEPT ![cpu] = Free] /\ isr' = {}
        /\ cpu' = cpu /\ at' = at
    BY <1>4, <1>5 DEF dispatch_end, threadVars
  <2> QED
    BY <2>1 DEF FrameLocs, Free
<1>6. ASSUME NEW t \in Threads, dispatch_switch(t) PROVE ServiceInv'
  <2>1. /\ t # cpu /\ Waiting(t) /\ cpu' = t /\ t \in All /\ isr' = {}
        /\ frame' = [frame EXCEPT ![cpu].at = "switched",
                                  ![t].at = IF @ = "switched" THEN "resumed" ELSE @]
        /\ at' = IF frame[t].at = "switched" THEN at ELSE [at EXCEPT ![t] = "run"]
    BY <1>4, <1>6 DEF dispatch_switch, SwitchTo, All
  <2> QED
    BY <2>1, BootApart DEF Waiting, Places, FrameLocs
<1> QED
  BY <1>1, <1>2, <1>3, <1>5, <1>6 DEF Interrupt

\* ... and when nothing changes.
LEMMA StutterKeepsService == ServiceInv /\ UNCHANGED vars => ServiceInv'
BY DEF vars, threadVars, ServiceInv, FrameTypeOK, WaitingFrames, InServiceIsHandled

\* The interrupt in service is the one handled on the CPU, for any threads:
\* every interrupt is acknowledged once while it is in service, and the
\* second acknowledgement after a switch finds none.
THEOREM InterruptsAcknowledged == Spec => []InServiceIsHandled
<1>1. ServiceInv /\ [Next]_vars => ServiceInv'
  BY BootKeepsService, ThreadKeepsService, InterruptKeepsService, StutterKeepsService DEF Next
<1>2. ServiceInv => InServiceIsHandled
  BY DEF ServiceInv
<1> QED
  BY <1>1, <1>2, ServiceInit, PTL DEF Spec

\* The PIT's handler is the only one that changes the time.
LEMMA OnlyTheTimerCounts ==
  ASSUME Next PROVE (UNCHANGED timeVars) \/ TimerTrigger
<1>1. BootStep => UNCHANGED timeVars
  BY DEF BootStep, assign_lock, assign_push, allow, enable_device, enable_interrupts,
         init_controller, init_keyboard_done, start_timer_lock, start_timer_done,
         start_scheduler
<1>2. ThreadStep => UNCHANGED timeVars
  BY DEF ThreadStep, read_timer, read_timer_done, log_lock, log_unlock, block
<1>3. Interrupt => (UNCHANGED timeVars) \/ TimerTrigger
  BY DEF Interrupt, raise, accept, dispatch, dispatch_end, dispatch_switch
<1> QED
  BY <1>1, <1>2, <1>3 DEF Next

\* Ticks that come while the time is read are kept, whoever reads and
\* however long a reader is preempted.
THEOREM TicksConserved == Spec => []NoTickLost
<1>1. Init => TimeInv
  BY DEF Init, TimeInv, NoTickLost
<1>2. TimeInv /\ [Next]_vars => TimeInv'
  BY OnlyTheTimerCounts DEF TimeInv, NoTickLost, TimerTrigger, timeVars, vars
<1>3. TimeInv => NoTickLost
  BY DEF TimeInv
<1> QED
  BY <1>1, <1>2, <1>3, PTL DEF Spec

\* No reader ever sees the time change under it.
THEOREM TimeStableForReaders == Spec => ReadersSeeStableTime
<1>1. [Next]_vars => [readers # {} => systime' = systime]_vars
  BY OnlyTheTimerCounts DEF TimerTrigger, timeVars, vars
<1> QED
  BY <1>1, PTL DEF Spec, ReadersSeeStableTime

-----------------------------------------------------------------------------
(***************************************************************************)
(* Locks of the vectors.                                                   *)
(***************************************************************************)
LEMMA BootStepList ==
  /\ Len(BootSteps) = 24
  /\ BootSteps[1] = [op |-> "lock", dev |-> Pit]
  /\ BootSteps[2] = [op |-> "push", dev |-> Pit]
  /\ BootSteps[3] = [op |-> "allow", dev |-> Pit]
  /\ BootSteps[4] = [op |-> "sti", dev |-> Pit]
  /\ BootSteps[5] = [op |-> "init_controller", dev |-> Keyboard]
  /\ BootSteps[6] = [op |-> "init_done", dev |-> Keyboard]
  /\ BootSteps[7] = [op |-> "lock", dev |-> Keyboard]
  /\ BootSteps[8] = [op |-> "push", dev |-> Keyboard]
  /\ BootSteps[9] = [op |-> "allow", dev |-> Keyboard]
  /\ BootSteps[10] = [op |-> "lock", dev |-> Serial]
  /\ BootSteps[11] = [op |-> "push", dev |-> Serial]
  /\ BootSteps[12] = [op |-> "allow", dev |-> Serial]
  /\ BootSteps[13] = [op |-> "enable", dev |-> Serial]
  /\ BootSteps[14] = [op |-> "lock", dev |-> Sound]
  /\ BootSteps[15] = [op |-> "push", dev |-> Sound]
  /\ BootSteps[16] = [op |-> "allow", dev |-> Sound]
  /\ BootSteps[17] = [op |-> "enable", dev |-> Sound]
  /\ BootSteps[18] = [op |-> "lock_apic", dev |-> ApicTimer]
  /\ BootSteps[19] = [op |-> "enable", dev |-> ApicTimer]
  /\ BootSteps[20] = [op |-> "lock", dev |-> ApicTimer]
  /\ BootSteps[21] = [op |-> "push", dev |-> ApicTimer]
  /\ BootSteps[22] = [op |-> "allow", dev |-> ApicTimer]
  /\ BootSteps[23] = [op |-> "unlock_apic", dev |-> ApicTimer]
  /\ BootSteps[24] = [op |-> "start", dev |-> ApicTimer]
BY DEF BootSteps, Plugin, Do

\* The step of start() that pushes a driver's handler.
PushAt(d) ==
  CASE d = Pit -> 2 [] d = Keyboard -> 8 [] d = Serial -> 11 [] d = Sound -> 15 [] OTHER -> 21

\* Every driver registers at some step of the boot code.
LEMMA PushAtInt == \A d \in Drivers : PushAt(d) \in 2 .. 21
BY DEF PushAt, Drivers

\* Where each operation of start() stands.
LEMMA BootOrder ==
  ASSUME NEW i \in 1 .. 24, NEW d \in Drivers, NEW op, BootSteps[i] = [op |-> op, dev |-> d]
  PROVE  /\ op = "lock" => i < 24 /\ BootSteps[i + 1] = [op |-> "push", dev |-> d]
         /\ op = "push" => i = PushAt(d)
         /\ op = "allow" => i = PushAt(d) + 1
         /\ op = "enable" /\ d \in {Serial, Sound} => i > PushAt(d)
         /\ op = "enable" => d \in {Serial, Sound, ApicTimer}
         /\ op = "init_controller" => i = 5
         /\ op = "init_done" => i = 6
<1>1. BootSteps[i].op = op /\ BootSteps[i].dev = d
  OBVIOUS
<1>2. i \in {1, 2, 3, 4, 5, 6, 7, 8, 9, 10, 11, 12, 13, 14, 15, 16, 17, 18, 19, 20, 21, 22, 23, 24}
  OBVIOUS
<1>3. /\ op = "lock" => i < 24 /\ BootSteps[i + 1] = [op |-> "push", dev |-> d]
      /\ op = "push" => i \in {2, 8, 11, 15, 21}
      /\ op = "allow" => i \in {3, 9, 12, 16, 22}
      /\ op = "enable" => i \in {13, 17, 19}
      /\ op = "init_controller" => i = 5
      /\ op = "init_done" => i = 6
  BY <1>1, <1>2, BootStepList
<1>4. /\ i = 2 \/ i = 3 => d = Pit
      /\ i = 8 \/ i = 9 => d = Keyboard
      /\ i = 11 \/ i = 12 \/ i = 13 => d = Serial
      /\ i = 15 \/ i = 16 \/ i = 17 => d = Sound
      /\ i = 19 \/ i = 21 \/ i = 22 => d = ApicTimer
  BY <1>1, BootStepList
<1>5. /\ PushAt(Pit) = 2 /\ PushAt(Keyboard) = 8 /\ PushAt(Serial) = 11 /\ PushAt(Sound) = 15
      /\ PushAt(ApicTimer) = 21
  BY InterruptsAssumption DEF PushAt, InterruptsAssumption
<1> QED
  BY <1>3, <1>4, <1>5, InterruptsAssumption DEF InterruptsAssumption

\* VectorLocksAccounted is inductive: a lock is taken by a dispatch, which
\* leaves a frame until its end, or by an assign() whose push is next.
LEMMA LocksInit == Init => VectorLocksAccounted
<1> SUFFICES ASSUME Init PROVE VectorLocksAccounted
  OBVIOUS
<1>1. redirection \in [Gsis -> [vector : 0 .. 255, masked : BOOLEAN]]
  <2>1. ASSUME NEW gsi \in Gsis, gsi < MaxEntry PROVE VectorOfGsi(overrides, gsi) \in 0 .. 255
    <3>1. DOMAIN overrides \subseteq 0 .. 15
      BY WiringAssumption DEF Init, WiringAssumption
    <3>2. CASE \E irq \in DOMAIN overrides : overrides[irq] = gsi
      <4> DEFINE source == CHOOSE irq \in DOMAIN overrides : overrides[irq] = gsi
      <4>1. source \in 0 .. 15
        BY <3>1, <3>2
      <4>2. VectorOfGsi(overrides, gsi) = 32 + source
        BY <3>2 DEF VectorOfGsi
      <4> HIDE DEF source
      <4> QED
        BY <4>1, <4>2
    <3>3. CASE ~\E irq \in DOMAIN overrides : overrides[irq] = gsi
      <4>1. gsi \in 0 .. 223
        BY InterruptsAssumption DEF Gsis, InterruptsAssumption
      <4> QED
        BY <3>3, <4>1 DEF VectorOfGsi
    <3> QED
      BY <3>2, <3>3
  <2>2. redirection = RedirectionTable(overrides)
    BY DEF Init
  <2> QED
    BY <2>1, <2>2 DEF RedirectionTable
<1>2. TypeOK
  <2>1. at \in [Threads \cup {Boot} -> Places]
    BY DEF Init, Places
  <2>2. frame \in [Threads \cup {Boot} ->
                     [vec : 0 .. 255, at : {"none", "entry", "done", "switched", "resumed"}]]
    BY DEF Init, Free
  <2>3. step \in 1 .. Len(BootSteps) + 1 /\ sources \subseteq Drivers
    BY BootStepList DEF Init, Drivers
  <2>4. handlers \in [Vectors -> SUBSET Drivers] /\ vectorLock \in [Vectors -> BOOLEAN]
    BY DEF Init
  <2>5. overrides \in Tables /\ irr \subseteq 0 .. 255 /\ isr \subseteq 0 .. 255
        /\ cpu \in Threads \cup {Boot} /\ readers \subseteq Threads \cup {Boot}
    BY DEF Init
  <2>6. {localApic, controller, logger, panic} \subseteq BOOLEAN
    BY Zenon DEF Init
  <2>7. {ticks, systime, pending} \subseteq Nat
    BY DEF Init
  <2> QED
    BY <1>1, <2>1, <2>2, <2>3, <2>4, <2>5, <2>6, <2>7 DEF TypeOK
<1> QED
  BY <1>2 DEF Init, VectorLocksAccounted

\* A dispatch of vector v is under way, perhaps on the stack of a thread that
\* waits.
Dispatching(v) ==
  \E t \in All : frame[t].vec = v /\ frame[t].at \in {"done", "switched", "resumed"}
Pushing(v) ==
  \E d \in Drivers : /\ Vector[d] = v /\ step <= Len(BootSteps)
                     /\ BootSteps[step] = [op |-> "push", dev |-> d]

\* The invariant with its definitions expanded.
LEMMA LocksUnfolded ==
  VectorLocksAccounted <=>
    TypeOK /\ \A v \in Vectors : vectorLock[v] => Dispatching(v) \/ Pushing(v)
BY DEF VectorLocksAccounted, Dispatching, Pushing, All

\* assign() takes and releases the lock of one vector.
LEMMA BootKeepsLocks == VectorLocksAccounted /\ BootStep => VectorLocksAccounted'
<1> SUFFICES ASSUME VectorLocksAccounted, BootStep PROVE VectorLocksAccounted'
  OBVIOUS
<1>1. TypeOK /\ \A v \in Vectors : vectorLock[v] => Dispatching(v) \/ Pushing(v)
  BY LocksUnfolded
<1>2. /\ step \in 1 .. 24 /\ step' = step + 1 /\ Len(BootSteps) = 24
      /\ UNCHANGED <<overrides, irr, isr, frame, readers, timeVars>>
  <2>1. step <= 24 /\ step' = step + 1
    BY BootStepList
       DEF BootStep, assign_lock, assign_push, allow, enable_device, enable_interrupts,
           init_controller, init_keyboard_done, start_timer_lock, start_timer_done,
           start_scheduler, Booting
  <2>2. UNCHANGED <<overrides, irr, isr, frame, readers, timeVars>>
    BY DEF BootStep, assign_lock, assign_push, allow, enable_device, enable_interrupts,
           init_controller, init_keyboard_done, start_timer_lock, start_timer_done,
           start_scheduler, apicVars, lockVars
  <2> QED
    BY <1>1, <2>1, <2>2, BootStepList DEF TypeOK
<1>3. \A v : Dispatching(v)' <=> Dispatching(v)
  BY <1>2 DEF Dispatching
<1>4. TypeOK'
  <2>1. step' \in 1 .. Len(BootSteps) + 1
    BY <1>2
  <2>2. \A d \in Drivers : Vector[d] \in Vectors
    BY DEF Vectors
  <2>3. ASSUME NEW d \in Drivers, assign_lock(d) PROVE TypeOK'
    BY <1>1, <2>1, <2>2, <2>3 DEF assign_lock, TypeOK, apicVars, threadVars, lockVars, timeVars
  <2>4. ASSUME NEW d \in Drivers, assign_push(d) PROVE TypeOK'
    BY <1>1, <2>1, <2>2, <2>4 DEF assign_push, TypeOK, apicVars, threadVars, lockVars, timeVars
  <2>5. ASSUME NEW d \in Drivers, allow(d) PROVE TypeOK'
    <3> DEFINE E == [vector : 0 .. 255, masked : BOOLEAN]
    <3>1. redirection' \in [Gsis -> E]
      <4>1. \A gsi \in Gsis : redirection[gsi] \in E
        BY <1>1 DEF TypeOK
      <4>2. \A gsi \in Gsis : [redirection[gsi] EXCEPT !.masked = FALSE] \in E
        BY <4>1, ZenonT(30)
      <4> HIDE DEF E
      <4> QED
        BY <2>5, <4>1, <4>2 DEF allow
    <3>2. panic' \in BOOLEAN
      BY <2>5 DEF allow
    <3> QED
      BY <1>1, <2>1, <2>5, <3>1, <3>2, ZenonT(30) DEF allow, TypeOK, threadVars, lockVars, timeVars
  <2>6. ASSUME NEW d \in Drivers, enable_device(d) PROVE TypeOK'
    BY <1>1, <2>1, <2>6 DEF enable_device, TypeOK, threadVars, lockVars, timeVars
  <2>7. CASE enable_interrupts \/ init_keyboard_done \/ start_timer_lock \/ start_timer_done
    <3>1. /\ localApic' \in {localApic, TRUE, FALSE} /\ controller' \in {controller, FALSE}
          /\ UNCHANGED <<overrides, redirection, sources, handlers, vectorLock, irr, isr, cpu, at,
                         frame, logger, readers, ticks, systime, pending, panic>>
      BY <2>7 DEF enable_interrupts, init_keyboard_done, start_timer_lock, start_timer_done,
         apicVars, threadVars, lockVars, timeVars
    <3>2. {localApic', controller', logger', panic'} \subseteq BOOLEAN
      <4>1. localApic \in BOOLEAN /\ controller \in BOOLEAN /\ logger \in BOOLEAN /\ panic \in BOOLEAN
        BY <1>1, Zenon DEF TypeOK
      <4>2. logger' = logger /\ panic' = panic
        BY <3>1
      <4>3. localApic' \in BOOLEAN /\ controller' \in BOOLEAN
        BY <3>1, <4>1, Zenon
      <4> QED
        BY <4>1, <4>2, <4>3, Zenon
    <3> QED
      BY <1>1, <2>1, <3>1, <3>2 DEF TypeOK
  <2>8. CASE init_controller
    BY <1>1, <2>1, <2>8 DEF init_controller, TypeOK, Drivers, threadVars, timeVars
  <2>9. CASE start_scheduler
    <3>1. at' \in [Threads \cup {Boot} -> Places] /\ cpu' \in Threads \cup {Boot}
      BY <1>1, <2>9, BootApart DEF start_scheduler, TypeOK, Places
    <3> QED
      BY <1>1, <2>1, <2>9, <3>1 DEF start_scheduler, TypeOK, apicVars, lockVars, timeVars
  <2> QED
    BY <2>3, <2>4, <2>5, <2>6, <2>7, <2>8, <2>9 DEF BootStep
<1>5. ASSUME NEW v \in Vectors, vectorLock'[v] PROVE Dispatching(v)' \/ Pushing(v)'
  <2>1. ASSUME NEW d \in Drivers, assign_lock(d), v = Vector[d] PROVE Pushing(v)'
    <3>1. BootSteps[step] = [op |-> "lock", dev |-> d]
      BY <2>1 DEF assign_lock, Booting
    <3>2. step < 24 /\ BootSteps[step + 1] = [op |-> "push", dev |-> d]
      BY <1>2, <3>1, BootOrder
    <3> QED
      BY <1>2, <2>1, <3>2 DEF Pushing
  <2>2. CASE vectorLock[v] /\ ~Pushing(v)
    BY <1>1, <1>3, <2>2
  <2>3. ASSUME ~vectorLock[v] PROVE \E d \in Drivers : assign_lock(d) /\ v = Vector[d]
    BY <1>1, <1>5, <2>3
       DEF BootStep, assign_lock, assign_push, allow, enable_device, enable_interrupts,
           init_controller, init_keyboard_done, start_timer_lock, start_timer_done,
           start_scheduler, TypeOK
  <2>4. ASSUME vectorLock[v], Pushing(v) PROVE FALSE
    <3>1. PICK d \in Drivers : Vector[d] = v /\ BootSteps[step] = [op |-> "push", dev |-> d]
      BY <2>4 DEF Pushing
    <3>2. BootSteps[step].op = "push" /\ BootSteps[step].dev = d
      BY <3>1
    <3>3. ASSUME NEW op, NEW e, Booting(op, e) PROVE op = "push"
      BY <3>2, <3>3 DEF Booting
    <3>4. PICK e \in Drivers : assign_push(e)
      BY <3>3
         DEF BootStep, assign_lock, allow, enable_device, enable_interrupts, init_controller,
             init_keyboard_done, start_timer_lock, start_timer_done, start_scheduler
    <3>5. e = d
      BY <3>2, <3>4 DEF assign_push, Booting
    <3> QED
      BY <1>1, <1>5, <3>1, <3>4, <3>5 DEF assign_push, TypeOK
  <2> QED
    BY <2>1, <2>2, <2>3, <2>4
<1> QED
  <2>1. TypeOK' /\ \A v \in Vectors : vectorLock'[v] => Dispatching(v)' \/ Pushing(v)'
    BY <1>4, <1>5
  <2> QED
    BY <2>1, LocksUnfolded DEF VectorLocksAccounted, Dispatching, Pushing, All

\* Switching keeps every frame's vector, and a frame left in a dispatch stays
\* in it.
LEMMA SwitchKeepsFrames ==
  ASSUME TypeOK, NEW t \in Threads, NEW places, NEW frames, SwitchTo(t, places, frames),
         frames \in [All -> [vec : 0 .. 255, at : FrameLocs]],
         places \in [All -> Places]
  PROVE  /\ frame' \in [All -> [vec : 0 .. 255, at : FrameLocs]]
         /\ at' \in [All -> Places] /\ cpu' \in All
         /\ \A u \in All : frame'[u].vec = frames[u].vec
         /\ \A u \in All : frames[u].at \in {"done", "switched", "resumed"} =>
                             frame'[u].at \in {"done", "switched", "resumed"}
<1>1. t \in All /\ cpu' = t
  BY DEF SwitchTo, All
<1>2. frame' = [frames EXCEPT ![t].at = IF @ = "switched" THEN "resumed" ELSE @]
  BY DEF SwitchTo
<1>3. at' \in [All -> Places]
  BY <1>1 DEF SwitchTo, Places
<1>4. \A u \in All : /\ frame'[u].vec = frames[u].vec
                     /\ frame'[u].at = IF u = t /\ frames[u].at = "switched" THEN "resumed"
                                       ELSE frames[u].at
  BY <1>1, <1>2
<1>5. frame' \in [All -> [vec : 0 .. 255, at : FrameLocs]]
  BY <1>1, <1>2 DEF FrameLocs
<1> QED
  BY <1>1, <1>3, <1>4, <1>5

\* Threads touch no lock of a vector.
LEMMA ThreadKeepsLocks == VectorLocksAccounted /\ ThreadStep => VectorLocksAccounted'
<1> SUFFICES ASSUME VectorLocksAccounted, ThreadStep PROVE VectorLocksAccounted'
  OBVIOUS
<1>1. TypeOK /\ \A v \in Vectors : vectorLock[v] => Dispatching(v) \/ Pushing(v)
  BY LocksUnfolded
<1>2. UNCHANGED <<overrides, redirection, sources, step, handlers, vectorLock, irr, isr,
                  localApic, controller, ticks, systime, pending, panic>>
  BY DEF ThreadStep, read_timer, read_timer_done, log_lock, log_unlock, block, apicVars, lockVars,
         timeVars
<1>3. \A v : Pushing(v)' <=> Pushing(v)
  BY <1>2 DEF Pushing
<1>4. frame \in [All -> [vec : 0 .. 255, at : FrameLocs]] /\ at \in [All -> Places] /\ cpu \in All
  BY <1>1 DEF TypeOK, All, FrameLocs
<1>5. /\ frame' \in [All -> [vec : 0 .. 255, at : FrameLocs]] /\ at' \in [All -> Places]
      /\ cpu' \in All
      /\ \A u \in All : frame'[u].vec = frame[u].vec
      /\ \A u \in All : frame[u].at \in {"done", "switched", "resumed"} =>
                          frame'[u].at \in {"done", "switched", "resumed"}
  <2>1. CASE read_timer \/ read_timer_done \/ log_lock \/ log_unlock
    <3>1. UNCHANGED <<cpu, frame>>
      BY <2>1 DEF read_timer, read_timer_done, log_lock, log_unlock
    <3>2. PICK l \in Places : at' = [at EXCEPT ![cpu] = l]
      BY <2>1 DEF read_timer, read_timer_done, log_lock, log_unlock, Goto, Places
    <3> QED
      BY <1>4, <3>1, <3>2
  <2>2. ASSUME NEW t \in Threads, block(t)
        PROVE  /\ frame' \in [All -> [vec : 0 .. 255, at : FrameLocs]] /\ at' \in [All -> Places]
               /\ cpu' \in All
               /\ \A u \in All : frame'[u].vec = frame[u].vec
               /\ \A u \in All : frame[u].at \in {"done", "switched", "resumed"} =>
                                   frame'[u].at \in {"done", "switched", "resumed"}
    <3> DEFINE places == [at EXCEPT ![cpu] = "parked"]
    <3>1. SwitchTo(t, places, frame)
      BY <2>2 DEF block
    <3>2. places \in [All -> Places]
      BY <1>4 DEF Places
    <3> HIDE DEF places
    <3> QED
      BY <1>1, <1>4, <3>1, <3>2, SwitchKeepsFrames
  <2> QED
    BY <2>1, <2>2 DEF ThreadStep
<1>6. TypeOK'
  <2>1. readers' \subseteq Threads \cup {Boot}
    BY <1>1 DEF ThreadStep, read_timer, read_timer_done, log_lock, log_unlock, block, lockVars, TypeOK
  <2>2. logger' \in {logger, TRUE, FALSE}
    BY DEF ThreadStep, read_timer, read_timer_done, log_lock, log_unlock, block, lockVars
  <2>3. {localApic', controller', logger', panic'} \subseteq BOOLEAN
    <3>1. localApic \in BOOLEAN /\ controller \in BOOLEAN /\ logger \in BOOLEAN /\ panic \in BOOLEAN
      BY <1>1, Zenon DEF TypeOK
    <3>2. localApic' = localApic /\ controller' = controller /\ panic' = panic
      BY <1>2
    <3> QED
      BY <2>2, <3>1, <3>2, Zenon
  <2>4. /\ cpu' \in Threads \cup {Boot} /\ at' \in [Threads \cup {Boot} -> Places]
        /\ frame' \in [Threads \cup {Boot} ->
                        [vec : 0 .. 255, at : {"none", "entry", "done", "switched", "resumed"}]]
    BY <1>5 DEF All, FrameLocs
  <2> QED
    BY <1>1, <1>2, <2>1, <2>3, <2>4 DEF TypeOK
<1>7. ASSUME NEW v \in Vectors, vectorLock'[v] PROVE Dispatching(v)' \/ Pushing(v)'
  <2>1. Dispatching(v) => Dispatching(v)'
    BY <1>5 DEF Dispatching
  <2> QED
    BY <1>1, <1>2, <1>3, <1>7, <2>1
<1> QED
  BY <1>6, <1>7 DEF VectorLocksAccounted, Dispatching, Pushing, All

\* What the steps of an interrupt owe to VectorLocksAccounted.
InterruptEffect ==
  /\ irr' \subseteq 0 .. 255 /\ isr' \subseteq 0 .. 255
  /\ frame' \in [All -> [vec : 0 .. 255, at : FrameLocs]] /\ at' \in [All -> Places]
  /\ cpu' \in All /\ vectorLock' \in [Vectors -> BOOLEAN]
  /\ localApic' \in {localApic, FALSE} /\ panic' \in BOOLEAN
  /\ ticks' \in Nat /\ systime' \in Nat /\ pending' \in Nat
  /\ \A v \in Vectors : vectorLock'[v] => Pushing(v) \/ Dispatching(v)'

\* What an interrupt does to the locks of the vectors.
LEMMA InterruptHasEffect ==
  ASSUME TypeOK, \A v \in Vectors : vectorLock[v] => Dispatching(v) \/ Pushing(v), Interrupt
  PROVE  InterruptEffect
<1>1. /\ frame \in [All -> [vec : 0 .. 255, at : FrameLocs]] /\ at \in [All -> Places] /\ cpu \in All
      /\ vectorLock \in [Vectors -> BOOLEAN] /\ irr \subseteq 0 .. 255 /\ isr \subseteq 0 .. 255
  BY DEF TypeOK, All, FrameLocs
<1>2. ticks \in Nat /\ systime \in Nat /\ pending \in Nat
  BY DEF TypeOK
<1>3. panic \in BOOLEAN
  BY Zenon DEF TypeOK
<1>4. \A v \in Vectors : v \in 0 .. 255
  BY InterruptsAssumption DEF InterruptsAssumption, Vectors
<1>5. Acknowledged \subseteq 0 .. 255
  BY <1>1 DEF Acknowledged
<1>6. ASSUME NEW d \in Drivers, raise(d) PROVE InterruptEffect
  <2>1. UNCHANGED <<isr, frame, at, cpu, vectorLock, localApic, panic, ticks, systime, pending>>
    BY <1>6 DEF raise, threadVars, timeVars
  <2>2. Vector[d] \in 0 .. 255
    BY <1>4 DEF Vectors
  <2>3. \A gsi \in Gsis : redirection[gsi].vector \in 0 .. 255
    BY DEF TypeOK
  <2>4. irr' \subseteq 0 .. 255
    <3>1. CASE d = ApicTimer
      BY <1>1, <1>6, <2>2, <3>1 DEF raise
    <3>2. CASE d # ApicTimer
      <4>1. PICK gsi \in Gsis : irr' = irr \cup {redirection[gsi].vector}
        BY <1>6, <3>2 DEF raise
      <4> QED
        BY <1>1, <2>3, <4>1, ZenonT(30)
    <3> QED
      BY <3>1, <3>2
  <2>5. \A v : Dispatching(v)' <=> Dispatching(v)
    BY <2>1 DEF Dispatching
  <2> QED
    BY <1>1, <1>2, <1>3, <2>1, <2>4, <2>5 DEF InterruptEffect
<1>7. ASSUME NEW v \in Vectors, accept(v) PROVE InterruptEffect
  <2>1. UNCHANGED <<at, cpu, vectorLock, localApic, panic, ticks, systime, pending>>
    BY <1>7 DEF accept, threadVars, timeVars
  <2>2. irr' = irr \ {v} /\ isr' = isr \cup {v} /\ frame[cpu].at = "none"
    BY <1>7 DEF accept, InterruptsOn, OwnCode, Free
  <2>3. frame' = [frame EXCEPT ![cpu] = [vec |-> v, at |-> "entry"]]
    BY <1>7 DEF accept
  <2>4. frame' \in [All -> [vec : 0 .. 255, at : FrameLocs]]
    BY <1>1, <1>4, <2>3 DEF FrameLocs
  <2>5. \A w : Dispatching(w) => Dispatching(w)'
    BY <1>1, <2>2, <2>3 DEF Dispatching
  <2>6. irr' \subseteq 0 .. 255 /\ isr' \subseteq 0 .. 255
    BY <1>1, <1>4, <2>2
  <2> QED
    BY <1>1, <1>2, <1>3, <2>1, <2>4, <2>5, <2>6 DEF InterruptEffect
<1>8. ASSUME dispatch PROVE InterruptEffect
  <2>0. PICK v : v = frame[cpu].vec
    OBVIOUS
  <2>1. UNCHANGED <<irr, isr, at, cpu, localApic>>
    BY <1>8 DEF dispatch, threadVars
  <2>2. /\ v \in Vectors /\ vectorLock' = [vectorLock EXCEPT ![v] = TRUE]
        /\ frame' = [frame EXCEPT ![cpu].at = "done"]
    BY <1>8, <2>0 DEF dispatch
  <2>3. panic' \in BOOLEAN
    BY <1>8 DEF dispatch
  <2>4. ticks' \in Nat /\ systime' \in Nat /\ pending' \in Nat
    <3>1. TimerTrigger \/ UNCHANGED timeVars
      BY <1>8 DEF dispatch
    <3> QED
      BY <1>2, <3>1 DEF TimerTrigger, timeVars
  <2>5. frame' \in [All -> [vec : 0 .. 255, at : FrameLocs]]
    BY <1>1, <2>2 DEF FrameLocs
  <2>6. \A t \in All : /\ frame'[t].vec = frame[t].vec
                       /\ frame'[t].at = IF t = cpu THEN "done" ELSE frame[t].at
    BY <1>1, <2>2
  <2>7. Dispatching(v)' /\ \A w : Dispatching(w) => Dispatching(w)'
    <3>1. Dispatching(v)'
      BY <1>1, <2>0, <2>6 DEF Dispatching
    <3>2. \A w : Dispatching(w) => Dispatching(w)'
      BY <2>6 DEF Dispatching
    <3> QED
      BY <3>1, <3>2
  <2>8. vectorLock' \in [Vectors -> BOOLEAN] /\ \A w \in Vectors : w # v => vectorLock'[w] = vectorLock[w]
    BY <1>1, <2>2
  <2> QED
    BY <1>1, <2>1, <2>3, <2>4, <2>5, <2>7, <2>8 DEF InterruptEffect
<1>9. ASSUME dispatch_end PROVE InterruptEffect
  <2> DEFINE v == frame[cpu].vec
  <2>1. UNCHANGED <<irr, at, cpu, panic, ticks, systime, pending>> /\ localApic' = FALSE
        /\ isr' = Acknowledged
    BY <1>9 DEF dispatch_end, threadVars, timeVars
  <2>2. /\ vectorLock' = [vectorLock EXCEPT ![v] = FALSE]
        /\ frame' = [frame EXCEPT ![cpu] = Free]
    BY <1>9 DEF dispatch_end
  <2>3. frame' \in [All -> [vec : 0 .. 255, at : FrameLocs]]
    BY <1>1, <2>2 DEF FrameLocs, Free
  <2>4. \A w : w # v /\ Dispatching(w) => Dispatching(w)'
    <3>1. \A t \in All : t # cpu => frame'[t] = frame[t]
      BY <1>1, <2>2
    <3> QED
      BY <3>1 DEF Dispatching
  <2> HIDE DEF v
  <2>5. /\ vectorLock' \in [Vectors -> BOOLEAN]
        /\ \A w \in Vectors : vectorLock'[w] => w # v /\ vectorLock[w]
    BY <1>1, <2>2
  <2> QED
    BY <1>1, <1>2, <1>3, <1>5, <2>1, <2>3, <2>4, <2>5 DEF InterruptEffect
<1>10. ASSUME NEW t \in Threads, dispatch_switch(t) PROVE InterruptEffect
  <2>0. PICK v : v = frame[cpu].vec
    OBVIOUS
  <2> DEFINE frames == [frame EXCEPT ![cpu].at = "switched"]
  <2>1. UNCHANGED <<irr, panic, ticks, systime, pending>> /\ localApic' = FALSE
        /\ isr' = Acknowledged
    BY <1>10 DEF dispatch_switch, timeVars
  <2>2. v \in Vectors /\ vectorLock' = [vectorLock EXCEPT ![v] = TRUE] /\ SwitchTo(t, at, frames)
    BY <1>10, <2>0 DEF dispatch_switch
  <2>3. frames \in [All -> [vec : 0 .. 255, at : FrameLocs]]
    BY <1>1 DEF FrameLocs
  <2>4. \A u \in All : /\ frames[u].vec = frame[u].vec
                       /\ frames[u].at = IF u = cpu THEN "switched" ELSE frame[u].at
    BY <1>1
  <2> HIDE DEF frames
  <2>5. /\ frame' \in [All -> [vec : 0 .. 255, at : FrameLocs]]
        /\ at' \in [All -> Places] /\ cpu' \in All
        /\ \A u \in All : frame'[u].vec = frames[u].vec
        /\ \A u \in All : frames[u].at \in {"done", "switched", "resumed"} =>
                            frame'[u].at \in {"done", "switched", "resumed"}
    BY <1>1, <2>2, <2>3, SwitchKeepsFrames
  <2>6. Dispatching(v)'
    BY <1>1, <2>0, <2>4, <2>5 DEF Dispatching
  <2>7. \A w : Dispatching(w) => Dispatching(w)'
    BY <2>4, <2>5 DEF Dispatching
  <2>8. vectorLock' \in [Vectors -> BOOLEAN] /\ \A w \in Vectors : w # v => vectorLock'[w] = vectorLock[w]
    BY <1>1, <2>2
  <2> QED
    BY <1>1, <1>2, <1>3, <1>5, <2>1, <2>5, <2>6, <2>7, <2>8 DEF InterruptEffect
<1> QED
  BY <1>6, <1>7, <1>8, <1>9, <1>10 DEF Interrupt

\* dispatch() takes the vector's lock and its handlers return it.
LEMMA InterruptKeepsLocks == VectorLocksAccounted /\ Interrupt => VectorLocksAccounted'
<1> SUFFICES ASSUME VectorLocksAccounted, Interrupt PROVE VectorLocksAccounted'
  OBVIOUS
<1>1. TypeOK /\ \A v \in Vectors : vectorLock[v] => Dispatching(v) \/ Pushing(v)
  BY LocksUnfolded
<1>2. InterruptEffect
  BY <1>1, InterruptHasEffect
<1>3. UNCHANGED <<overrides, redirection, sources, step, handlers, controller, logger, readers>>
  BY DEF Interrupt, raise, accept, dispatch, dispatch_end, dispatch_switch, apicVars, lockVars
<1>4. {localApic', controller', logger', panic'} \subseteq BOOLEAN
  <2>1. localApic \in BOOLEAN /\ controller \in BOOLEAN /\ logger \in BOOLEAN
    BY <1>1, Zenon DEF TypeOK
  <2>2. controller' = controller /\ logger' = logger
    BY <1>3
  <2>3. localApic' \in {localApic, FALSE} /\ panic' \in BOOLEAN
    BY <1>2, Zenon DEF InterruptEffect
  <2> QED
    BY <2>1, <2>2, <2>3, Zenon
<1>5. TypeOK'
  BY <1>1, <1>2, <1>3, <1>4 DEF TypeOK, InterruptEffect, All, FrameLocs
<1>6. \A v : Pushing(v)' <=> Pushing(v)
  BY <1>3 DEF Pushing
<1>7. \A v \in Vectors : vectorLock'[v] => Pushing(v)' \/ Dispatching(v)'
  BY <1>2, <1>6 DEF InterruptEffect
<1> QED
  BY <1>5, <1>7 DEF VectorLocksAccounted, Dispatching, Pushing, All

\* A step that changes nothing.
LEMMA StutterKeepsLocks == VectorLocksAccounted /\ UNCHANGED vars => VectorLocksAccounted'
<1> SUFFICES ASSUME VectorLocksAccounted, UNCHANGED vars PROVE VectorLocksAccounted'
  OBVIOUS
<1>1. UNCHANGED <<overrides, redirection, step, sources, handlers, vectorLock, irr, isr, cpu, at,
                  frame, readers, ticks, systime, pending>>
  BY DEF vars, apicVars, timeVars, threadVars, lockVars
<1>2. UNCHANGED localApic /\ UNCHANGED controller /\ UNCHANGED logger /\ UNCHANGED panic
  BY DEF vars, lockVars
<1> QED
  BY <1>1, <1>2 DEF VectorLocksAccounted, TypeOK

\* No vector stays locked but for a dispatch() under way or an assign() about
\* to end, for any threads, vectors and firmware.
THEOREM LocksAccounted == Spec => []VectorLocksAccounted
<1>1. VectorLocksAccounted /\ [Next]_vars => VectorLocksAccounted'
  BY BootKeepsLocks, ThreadKeepsLocks, InterruptKeepsLocks, StutterKeepsLocks DEF Next
<1> QED
  BY <1>1, LocksInit, PTL DEF Spec

-----------------------------------------------------------------------------
(***************************************************************************)
(* The order of start().  UnmaskedMeansHandled says nothing of how far     *)
(* start() is; the invariant ties what is unmasked, enabled, assigned and  *)
(* locked to it.                                                           *)
(***************************************************************************)
HandlersPushed ==
  /\ \A d \in Drivers : step > PushAt(d) => d \in handlers[Vector[d]]
  /\ \A v \in Vectors : Keyboard \in handlers[v] => step > 8
DevicesEnabledLate == \A d \in sources : d \in {Serial, Sound} => step > PushAt(d)
ControllerLocked == controller => step = 6
EntriesProgrammed ==
  \A gsi \in Gsis : redirection[gsi].vector = RedirectionTable(overrides)[gsi].vector
UnmaskedWasAllowed ==
  \A gsi \in Gsis \ Nmis : ~redirection[gsi].masked =>
    \E d \in Drivers : Arrival(overrides, d) = gsi /\ step > PushAt(d) + 1

WiringInv ==
  /\ VectorLocksAccounted /\ ~panic /\ HandlersPushed /\ DevicesEnabledLate
  /\ ControllerLocked /\ EntriesProgrammed /\ UnmaskedWasAllowed

\* The step at which a driver registers its handler.
LEMMA PushStep ==
  /\ \A d \in Drivers : BootSteps[PushAt(d)] = [op |-> "push", dev |-> d]
  /\ PushAt(Keyboard) = 8 /\ PushAt(Pit) = 2
  /\ \A d \in Drivers \ {Pit} : PushAt(d) >= 8
<1>1. /\ PushAt(Pit) = 2 /\ PushAt(Keyboard) = 8 /\ PushAt(Serial) = 11 /\ PushAt(Sound) = 15
      /\ PushAt(ApicTimer) = 21
  BY InterruptsAssumption DEF PushAt, InterruptsAssumption
<1> QED
  BY <1>1, BootStepList DEF Drivers

\* The entry that a driver's line arrives at carries the driver's vector.
LEMMA LineCarriesVector ==
  ASSUME NEW table \in Tables, NEW d \in Drivers, Arrival(table, d) \in Gsis
  PROVE  RedirectionTable(table)[Arrival(table, d)].vector = Vector[d]
<1>1. PICK gsi \in Gsis : gsi = Arrival(table, d)
  OBVIOUS
<1>2. PICK irq \in Int : irq = IrqOf(Vector[d]) /\ Vector[d] = irq + 32 /\ Vector[d] = 32 + irq
  BY InterruptsAssumption DEF InterruptsAssumption, IrqOf
<1>3. /\ DOMAIN table \subseteq 0 .. 15 /\ gsi \notin Nmis /\ gsi # MaxEntry
      /\ \A i \in DOMAIN table \ {irq} : table[i] # gsi
  BY <1>1, <1>2, WiringAssumption DEF WiringAssumption
<1>4. gsi < MaxEntry
  BY <1>3, InterruptsAssumption DEF Gsis, InterruptsAssumption
<1>5. gsi = IF irq \in DOMAIN table THEN table[irq] ELSE irq
  BY <1>1, <1>2 DEF Arrival, target_gsi
<1>6. VectorOfGsi(table, gsi) = Vector[d]
  <2>1. CASE irq \in DOMAIN table
    <3>1. (CHOOSE i \in DOMAIN table : table[i] = gsi) = irq
      BY <1>3, <1>5, <2>1
    <3>2. VectorOfGsi(table, gsi) = 32 + irq
      BY <1>5, <2>1, <3>1 DEF VectorOfGsi
    <3> QED
      BY <1>2, <3>2
  <2>2. CASE irq \notin DOMAIN table
    <3>1. VectorOfGsi(table, gsi) = gsi + 32
      BY <1>3, <1>5, <2>2 DEF VectorOfGsi
    <3>2. gsi = irq
      BY <1>5, <2>2
    <3> QED
      BY <1>2, <3>1, <3>2
  <2> QED
    BY <2>1, <2>2
<1>7. RedirectionTable(table)[gsi].vector = VectorOfGsi(table, gsi)
  BY <1>3, <1>4 DEF RedirectionTable
<1> QED
  BY <1>1, <1>6, <1>7

\* Where boot is decides which pins are unmasked and which vectors have handlers.
LEMMA WiringSuffices == WiringInv => UnmaskedMeansHandled
<1> SUFFICES ASSUME WiringInv PROVE UnmaskedMeansHandled
  OBVIOUS
<1>1. TypeOK
  BY DEF WiringInv, VectorLocksAccounted
<1>2. ~panic
  BY DEF WiringInv
<1>3. ASSUME NEW d \in sources \ {ApicTimer}, Arrival(overrides, d) \in Gsis,
             ~redirection[Arrival(overrides, d)].masked
      PROVE  /\ redirection[Arrival(overrides, d)].vector = Vector[d]
             /\ d \in handlers[Vector[d]]
  <2>1. d \in Drivers /\ overrides \in Tables
    BY <1>1 DEF TypeOK
  <2>2. PICK gsi \in Gsis : gsi = Arrival(overrides, d)
    BY <1>3
  <2>3. redirection[gsi].vector = Vector[d]
    BY <2>1, <2>2, LineCarriesVector DEF WiringInv, EntriesProgrammed
  <2>4. gsi \notin Nmis
    BY <2>1, <2>2, WiringAssumption DEF WiringAssumption
  <2>5. PICK e \in Drivers : Arrival(overrides, e) = gsi /\ step > PushAt(e) + 1
    BY <1>3, <2>2, <2>4 DEF WiringInv, UnmaskedWasAllowed
  <2>6. Vector[e] = Vector[d]
    BY <2>1, <2>2, <2>3, <2>5, LineCarriesVector DEF WiringInv, EntriesProgrammed
  <2>7. step > PushAt(d)
    <3>1. step \in Int /\ PushAt(e) \in 2 .. 21
      BY <1>1, PushAtInt DEF TypeOK
    <3>2. CASE d \in {Serial, Sound}
      BY <3>2 DEF WiringInv, DevicesEnabledLate
    <3>3. CASE d = Pit
      BY <2>5, <3>1, <3>3, PushStep
    <3>4. CASE d = Keyboard
      <4>1. e # Pit
        BY <2>6, <3>4, InterruptsAssumption DEF InterruptsAssumption
      <4>2. PushAt(e) >= 8
        BY <4>1, PushStep
      <4> QED
        BY <2>5, <3>1, <3>4, <4>2, PushStep
    <3> QED
      BY <1>3, <2>1, <3>2, <3>3, <3>4 DEF Drivers
  <2> QED
    BY <2>1, <2>2, <2>3, <2>7 DEF WiringInv, HandlersPushed
<1> QED
  BY <1>2, <1>3 DEF UnmaskedMeansHandled

\* All pins are masked at first.
LEMMA WiringInit == Init => WiringInv
<1> SUFFICES ASSUME Init PROVE WiringInv
  OBVIOUS
<1>1. VectorLocksAccounted /\ ~panic /\ step = 1
  BY LocksInit DEF Init
<1>2. HandlersPushed
  <2>1. \A d \in Drivers : ~(1 > PushAt(d))
    BY PushAtInt
  <2>2. \A v \in Vectors : Keyboard \notin handlers[v]
    BY DEF Init
  <2> QED
    BY <1>1, <2>1, <2>2 DEF HandlersPushed
<1>3. DevicesEnabledLate
  BY InterruptsAssumption DEF Init, DevicesEnabledLate, InterruptsAssumption
<1>4. ControllerLocked
  BY DEF Init, ControllerLocked
<1>5. EntriesProgrammed
  BY DEF Init, EntriesProgrammed
<1>6. UnmaskedWasAllowed
  <2>1. \A gsi \in Gsis \ Nmis : RedirectionTable(overrides)[gsi].masked
    BY DEF RedirectionTable
  <2> QED
    BY <2>1 DEF Init, UnmaskedWasAllowed
<1> QED
  BY <1>1, <1>2, <1>3, <1>4, <1>5, <1>6 DEF WiringInv

\* Steps outside start() change none of the wiring, and panic only if the
\* keyboard's handler finds the controller locked.
LEMMA WiringKeptOutsideBoot == WiringInv /\ (ThreadStep \/ Interrupt) => WiringInv'
<1> SUFFICES ASSUME WiringInv, ThreadStep \/ Interrupt PROVE WiringInv'
  OBVIOUS
<1>1. VectorLocksAccounted'
  BY ThreadKeepsLocks, InterruptKeepsLocks DEF WiringInv
<1>2. UNCHANGED <<overrides, redirection, sources, step, handlers, controller>>
  <2>1. ThreadStep => UNCHANGED <<overrides, redirection, sources, step, handlers, controller>>
    BY DEF ThreadStep, read_timer, read_timer_done, log_lock, log_unlock, block, apicVars, lockVars
  <2>2. Interrupt => UNCHANGED <<overrides, redirection, sources, step, handlers, controller>>
    BY DEF Interrupt, raise, accept, dispatch, dispatch_end, dispatch_switch, apicVars, lockVars
  <2> QED
    BY <2>1, <2>2
<1>3. ~panic'
  <2>1. ASSUME NEW v \in Vectors, Keyboard \in handlers[v], controller PROVE FALSE
    BY <2>1 DEF WiringInv, HandlersPushed, ControllerLocked
  <2>2. dispatch => ~panic'
    BY <2>1 DEF dispatch
  <2>3. ThreadStep => panic' = panic
    BY DEF ThreadStep, read_timer, read_timer_done, log_lock, log_unlock, block
  <2>4. Interrupt => dispatch \/ panic' = panic
    BY DEF Interrupt, raise, accept, dispatch_end, dispatch_switch
  <2> QED
    BY <2>2, <2>3, <2>4 DEF WiringInv
<1> QED
  BY <1>1, <1>2, <1>3
     DEF WiringInv, HandlersPushed, DevicesEnabledLate, ControllerLocked, EntriesProgrammed,
         UnmaskedWasAllowed

\* Each step of the boot code registers before it unmasks.
LEMMA BootKeepsWiring == WiringInv /\ BootStep => WiringInv'
<1> SUFFICES ASSUME WiringInv, BootStep PROVE WiringInv'
  OBVIOUS
<1>1. TypeOK /\ VectorLocksAccounted'
  BY BootKeepsLocks DEF WiringInv, VectorLocksAccounted
<1>2. step \in 1 .. 24 /\ step' = step + 1 /\ Len(BootSteps) = 24 /\ overrides' = overrides
  <2>1. step <= Len(BootSteps) /\ step' = step + 1
    BY DEF BootStep, assign_lock, assign_push, allow, enable_device, enable_interrupts,
           init_controller, init_keyboard_done, start_timer_lock, start_timer_done,
           start_scheduler, Booting
  <2>2. overrides' = overrides
    BY DEF BootStep, assign_lock, assign_push, allow, enable_device, enable_interrupts,
           init_controller, init_keyboard_done, start_timer_lock, start_timer_done,
           start_scheduler, apicVars
  <2> QED
    BY <1>1, <2>1, <2>2, BootStepList DEF TypeOK
<1>3. ASSUME NEW op, NEW e, Booting(op, e)
      PROVE  BootSteps[step].op = op /\ BootSteps[step].dev = e
  BY <1>3 DEF Booting
<1>4. ~panic'
  <2>1. ASSUME NEW d \in Drivers, allow(d) PROVE ~panic'
    <3>1. Arrival(overrides, d) \notin Nmis
      BY <1>1, WiringAssumption DEF WiringAssumption, TypeOK
    <3> QED
      BY <2>1, <3>1 DEF allow
  <2>2. (\E d \in Drivers : allow(d)) \/ panic' = panic
    BY DEF BootStep, assign_lock, assign_push, enable_device, enable_interrupts,
           init_controller, init_keyboard_done, start_timer_lock, start_timer_done,
           start_scheduler
  <2> QED
    BY <2>1, <2>2 DEF WiringInv
<1>5. \/ handlers' = handlers
      \/ \E d \in Drivers : assign_push(d)
  BY DEF BootStep, assign_lock, allow, enable_device, enable_interrupts, init_controller,
         init_keyboard_done, start_timer_lock, start_timer_done, start_scheduler
<1>6. \A d \in Drivers : Vector[d] \in Vectors
  BY DEF Vectors
<1>7. HandlersPushed'
  <2>1. \A v \in Vectors : handlers[v] \subseteq handlers'[v]
    BY <1>1, <1>5, <1>6 DEF assign_push, TypeOK
  <2>2. ASSUME NEW d \in Drivers, step = PushAt(d) PROVE d \in handlers'[Vector[d]]
    <3>1. BootSteps[step] = [op |-> "push", dev |-> d]
      BY <2>2, PushStep
    <3>2. BootSteps[step].op = "push" /\ BootSteps[step].dev = d
      BY <3>1
    <3>3. PICK e \in Drivers : assign_push(e)
      BY <1>3, <3>2
         DEF BootStep, assign_lock, allow, enable_device, enable_interrupts, init_controller,
             init_keyboard_done, start_timer_lock, start_timer_done, start_scheduler
    <3>4. e = d
      BY <1>3, <3>2, <3>3 DEF assign_push
    <3> QED
      BY <1>1, <1>6, <3>3, <3>4 DEF assign_push, TypeOK
  <2>3. ASSUME NEW d \in Drivers, step' > PushAt(d) PROVE d \in handlers'[Vector[d]]
    <3>1. step = PushAt(d) \/ step > PushAt(d)
      BY <1>2, <2>3, PushAtInt
    <3>2. step > PushAt(d) => d \in handlers[Vector[d]]
      BY DEF WiringInv, HandlersPushed
    <3> QED
      BY <1>6, <2>1, <2>2, <3>1, <3>2
  <2>4. ASSUME NEW v \in Vectors, Keyboard \in handlers'[v] PROVE step' > 8
    <3>1. CASE Keyboard \in handlers[v]
      BY <1>2, <3>1 DEF WiringInv, HandlersPushed
    <3>2. CASE Keyboard \notin handlers[v]
      <4>1. PICK d \in Drivers : assign_push(d)
        BY <1>5, <2>4, <3>2
      <4>2. d = Keyboard
        BY <1>1, <2>4, <3>2, <4>1 DEF assign_push, TypeOK
      <4>3. BootSteps[step] = [op |-> "push", dev |-> Keyboard]
        BY <4>1, <4>2 DEF assign_push, Booting
      <4>4. step = PushAt(Keyboard)
        BY <1>2, <4>2, <4>3, BootOrder
      <4> QED
        BY <1>2, <4>4, PushStep
    <3> QED
      BY <3>1, <3>2
  <2> QED
    BY <2>3, <2>4 DEF HandlersPushed
<1>8. DevicesEnabledLate'
  <2> SUFFICES ASSUME NEW d \in sources', d \in {Serial, Sound} PROVE step' > PushAt(d)
    BY DEF DevicesEnabledLate
  <2>1. d \in Drivers
    BY DEF Drivers
  <2>2. CASE d \in sources
    BY <1>2, <2>1, <2>2, PushAtInt DEF WiringInv, DevicesEnabledLate
  <2>3. CASE d \notin sources
    <3>1. d # Keyboard
      BY InterruptsAssumption DEF InterruptsAssumption
    <3>2. enable_device(d)
      BY <2>3, <3>1
         DEF BootStep, assign_lock, assign_push, allow, enable_device, enable_interrupts,
             init_controller, init_keyboard_done, start_timer_lock, start_timer_done,
             start_scheduler, apicVars
    <3>3. BootSteps[step] = [op |-> "enable", dev |-> d]
      BY <3>2 DEF enable_device, Booting
    <3>4. step > PushAt(d)
      BY <1>2, <2>1, <3>3, BootOrder
    <3> QED
      BY <1>2, <2>1, <3>4, PushAtInt
  <2> QED
    BY <2>2, <2>3
<1>9. ControllerLocked'
  <2>1. CASE init_controller
    <3>1. BootSteps[step] = [op |-> "init_controller", dev |-> Keyboard]
      BY <2>1 DEF init_controller, Booting
    <3>2. step = 5
      BY <1>2, <3>1, BootOrder DEF Drivers
    <3> QED
      BY <1>2, <3>2 DEF ControllerLocked
  <2>2. CASE init_keyboard_done
    BY <2>2 DEF init_keyboard_done, ControllerLocked
  <2>3. CASE ~init_controller /\ ~init_keyboard_done
    <3>1. controller' = controller
      BY <2>3 DEF BootStep, assign_lock, assign_push, allow, enable_device, enable_interrupts,
             start_timer_lock, start_timer_done, start_scheduler, lockVars
    <3>2. ASSUME step = 6 PROVE FALSE
      <4>1. BootSteps[step].op = "init_done"
        BY <3>2, BootStepList
      <4> QED
        BY <1>3, <2>3, <4>1
           DEF BootStep, assign_lock, assign_push, allow, enable_device, enable_interrupts,
               start_timer_lock, start_timer_done, start_scheduler
    <3> QED
      BY <3>1, <3>2 DEF ControllerLocked, WiringInv
  <2> QED
    BY <2>1, <2>2, <2>3
<1>10. \/ redirection' = redirection
       \/ \E d \in Drivers : allow(d)
  BY DEF BootStep, assign_lock, assign_push, enable_device, enable_interrupts, init_controller,
         init_keyboard_done, start_timer_lock, start_timer_done, start_scheduler, apicVars
<1>11. EntriesProgrammed'
  <2>1. \A gsi \in Gsis : redirection'[gsi].vector = redirection[gsi].vector
    <3>1. ASSUME NEW d \in Drivers, allow(d), NEW gsi \in Gsis
          PROVE  redirection'[gsi].vector = redirection[gsi].vector
      <4>1. redirection[gsi] \in [vector : 0 .. 255, masked : BOOLEAN]
        BY <1>1 DEF TypeOK
      <4>2. redirection'[gsi] \in {redirection[gsi], [redirection[gsi] EXCEPT !.masked = FALSE]}
        BY <3>1 DEF allow
      <4> QED
        BY <4>1, <4>2
    <3> QED
      BY <1>10, <3>1
  <2> QED
    BY <1>2, <2>1 DEF EntriesProgrammed, WiringInv
<1>12. UnmaskedWasAllowed'
  <2> SUFFICES ASSUME NEW gsi \in Gsis \ Nmis, ~redirection'[gsi].masked
               PROVE  \E d \in Drivers : Arrival(overrides, d) = gsi /\ step' > PushAt(d) + 1
    BY <1>2 DEF UnmaskedWasAllowed, Arrival
  <2>1. CASE ~redirection[gsi].masked
    <3>1. PICK d \in Drivers : Arrival(overrides, d) = gsi /\ step > PushAt(d) + 1
      BY <2>1 DEF WiringInv, UnmaskedWasAllowed
    <3>2. step' > PushAt(d) + 1
      BY <1>2, <3>1, PushAtInt
    <3> QED
      BY <3>1, <3>2
  <2>2. CASE redirection[gsi].masked
    <3>1. PICK d \in Drivers : allow(d)
      BY <1>10, <2>2
    <3>2. gsi = Arrival(overrides, d)
      BY <2>2, <3>1 DEF allow
    <3>3. BootSteps[step] = [op |-> "allow", dev |-> d]
      BY <3>1 DEF allow, Booting
    <3>4. step = PushAt(d) + 1
      BY <1>2, <3>3, BootOrder
    <3>5. step' > PushAt(d) + 1
      BY <1>2, <3>4, PushAtInt
    <3> QED
      BY <3>2, <3>5
  <2> QED
    BY <2>1, <2>2
<1> QED
  BY <1>1, <1>4, <1>7, <1>8, <1>9, <1>11, <1>12 DEF WiringInv

\* A step that changes nothing.
LEMMA StutterKeepsWiring == WiringInv /\ UNCHANGED vars => WiringInv'
BY StutterKeepsLocks
   DEF WiringInv, HandlersPushed, DevicesEnabledLate, ControllerLocked, EntriesProgrammed,
       UnmaskedWasAllowed, vars, apicVars, lockVars

\* Whatever overrides firmware reports: no handler panics, and the interrupt
\* of a device that gets through arrives with the vector that the device's
\* driver was assigned to before.
THEOREM DriversAreWired == Spec => []UnmaskedMeansHandled
<1>1. WiringInv /\ [Next]_vars => WiringInv'
  BY BootKeepsWiring, WiringKeptOutsideBoot, StutterKeepsWiring DEF Next
<1> QED
  BY <1>1, WiringInit, WiringSuffices, PTL DEF Spec
=============================================================================
