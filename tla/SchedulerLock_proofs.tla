------------------------ MODULE SchedulerLock_proofs ------------------------
(***************************************************************************)
(* Proofs about SchedulerLock, for any set of threads.                     *)
(***************************************************************************)
EXTENDS SchedulerLock, TLAPS

(***************************************************************************)
(* The lock flags stay Boolean (apart from the rest of TypeOK because the  *)
(* SMT backend does not decide membership in BOOLEAN).                     *)
(***************************************************************************)
LEMMA FlagsPreserved ==
  ASSUME TypeOK, [Next]_vars
  PROVE  state' \in BOOLEAN /\ tss' \in BOOLEAN /\ initialized' \in BOOLEAN
<1> USE DEF TypeOK, pmVars, queueVars, lock_state
<1>1. CASE unlock_scheduler \/ drop_guard
  BY <1>1, Zenon DEF unlock_scheduler, drop_guard
<1>2. CASE Kickoff
  BY <1>2, Zenon DEF Kickoff, set_init_lock, set_init, stacks_lock, stacks_unlock, tss_lock, tss_unlock
<1>3. CASE ThreadOperation
  BY <1>3, Zenon DEF ThreadOperation, section_lock, section_unlock, process_manager_read,
     process_manager_write, process_manager_unlock, current_process_lock,
     current_process_unlock, sleep, sys_thread_switch, exit_lock, exit_stacks_lock,
     exit_stacks_unlock, exit_process_lock, exit_process_unlock, block
<1>4. CASE \E t \in Threads : wake(t)
  BY <1>4, Zenon DEF wake
<1>5. CASE TimerHandler
  BY <1>5, Zenon DEF TimerHandler, timer_interrupt, try_lock, irq_unlock_scheduler,
     irq_drop_guard, iret
<1>6. CASE Switch
  BY <1>6, Zenon DEF Switch, switch_current_lock, switch_current_unlock, switch_next_lock,
     switch_next_unlock, switch_tss_lock, switch_tss_unlock, thread_switch
<1>7. CASE Preemption
  BY <1>7, Zenon DEF Preemption, switch_thread_nothing, switch_thread_refused, switch_thread,
     switch_thread_return
<1>8. CASE UNCHANGED vars
  BY <1>8, Zenon DEF vars
<1> QED
  BY <1>1, <1>2, <1>3, <1>4, <1>5, <1>6, <1>7, <1>8, Zenon DEF Next

\* TypeOK without the flags.
StructureOK ==
  /\ cpu \in Threads
  /\ current \in Threads
  /\ pc \in [Threads -> PcLocs]
  /\ irq \in [Threads -> IrqLocs]
  /\ stacks \in [Threads -> BOOLEAN]
  /\ pmReaders \subseteq Threads
  /\ pmWriter \in Threads \cup {Nobody}
  /\ ready \subseteq Threads
  /\ asleep \subseteq Threads

\* Everything of the type but the Boolean variables.
LEMMA StructurePreserved ==
  ASSUME TypeOK, [Next]_vars
  PROVE  StructureOK'
<1> USE LockAssumption DEF TypeOK, StructureOK, pmVars, queueVars, lock_state, At, Goto, IrqGoto, SwitchStep,
        PcLocs, IrqLocs, SwitchLocs, Sections, StacksWindows, Preemptible
<1>1. CASE unlock_scheduler \/ drop_guard
  BY <1>1 DEF unlock_scheduler, drop_guard
<1>2. CASE Kickoff
  BY <1>2 DEF Kickoff, set_init_lock, set_init, stacks_lock, stacks_unlock, tss_lock,
     tss_unlock, InWindow, AfterWindow
<1>3. CASE ThreadOperation
  <2>1. CASE section_lock \/ section_unlock \/ current_process_lock
             \/ current_process_unlock \/ sleep \/ sys_thread_switch \/ exit_lock
    BY <2>1 DEF section_lock, section_unlock, current_process_lock,
       current_process_unlock, sleep, sys_thread_switch, exit_lock
  <2>2. CASE process_manager_read \/ process_manager_write \/ process_manager_unlock
    BY <2>2 DEF process_manager_read, process_manager_write, process_manager_unlock
  <2>3. CASE exit_stacks_lock \/ exit_stacks_unlock
             \/ exit_process_lock \/ exit_process_unlock
    BY <2>3 DEF exit_stacks_lock, exit_stacks_unlock, exit_process_lock, exit_process_unlock
  <2>4. CASE \E n \in Threads : block(n)
    BY <2>4 DEF block
  <2> QED
    BY <1>3, <2>1, <2>2, <2>3, <2>4, Zenon DEF ThreadOperation
<1>4. CASE \E t \in Threads : wake(t)
  BY <1>4 DEF wake
<1>5. CASE TimerHandler
  BY <1>5 DEF TimerHandler, timer_interrupt, try_lock, irq_unlock_scheduler, irq_drop_guard, iret
<1>6. CASE Switch
  BY <1>6 DEF Switch, switch_current_lock, switch_current_unlock, switch_next_lock,
     switch_next_unlock, switch_tss_lock, switch_tss_unlock, thread_switch
<1>7. CASE Preemption
  BY <1>7 DEF Preemption, switch_thread_nothing, switch_thread_refused, switch_thread,
     switch_thread_return
<1>8. CASE UNCHANGED vars
  BY <1>8 DEF vars
<1> QED
  BY <1>1, <1>2, <1>3, <1>4, <1>5, <1>6, <1>7, <1>8, Zenon DEF Next

\* Every step preserves the type.
LEMMA TypePreserved ==
  ASSUME TypeOK, [Next]_vars
  PROVE  TypeOK'
BY FlagsPreserved, StructurePreserved, Zenon DEF TypeOK, StructureOK

(***************************************************************************)
(* Every variable of SchedulerLock keeps its type.                         *)
(***************************************************************************)
THEOREM TypeCorrect == Spec => []TypeOK
<1>1. Init => TypeOK
  BY LockAssumption, Zenon DEF Init, TypeOK, PcLocs, IrqLocs
<1> QED
  BY <1>1, TypePreserved, PTL DEF Spec

-----------------------------------------------------------------------------
\* The first thread runs alone.
LEMMA InitInvariant == Init => IInv
<1> SUFFICES ASSUME Init PROVE IInv
  OBVIOUS
<1>1. TypeOK
  BY LockAssumption, Zenon DEF Init, TypeOK, PcLocs, IrqLocs
<1>2. OthersParked /\ StateLockMeaning /\ HandlerNesting /\ StacksLockMeaning
  BY LockAssumption DEF Init, OthersParked, Parked, StateLockMeaning, HandlerNesting,
     StacksLockMeaning, SwitchLocs, StacksWindows
<1>3. TssLockMeaning /\ CurrentMeaning /\ QueuesHoldParked
  BY LockAssumption DEF Init, TssLockMeaning, CurrentMeaning, QueuesHoldParked,
     Switching, Parked, SwitchLocs
<1> QED
  BY <1>1, <1>2, <1>3 DEF IInv

\* IInv without the types, which TypePreserved takes care of.
LockInv ==
  /\ OthersParked
  /\ StateLockMeaning
  /\ HandlerNesting
  /\ StacksLockMeaning
  /\ TssLockMeaning
  /\ CurrentMeaning
  /\ QueuesHoldParked

(***************************************************************************)
(* One lemma per part of Next, one step per action.  The context on the    *)
(* CPU moves, the others stay parked; what a lock flag means follows from  *)
(* where that context was and where it goes.                               *)
(***************************************************************************)
LEMMA ResumeKeepsInv ==
  ASSUME IInv, unlock_scheduler \/ drop_guard
  PROVE  LockInv'
<1> USE LockAssumption DEF IInv, LockInv, TypeOK, OthersParked, StateLockMeaning, HandlerNesting,
        StacksLockMeaning, TssLockMeaning, CurrentMeaning, QueuesHoldParked, Parked, Gone,
        Switching, SwitchLocs, Sections, StacksWindows, Preemptible, PcLocs, IrqLocs,
        pmVars, queueVars, At, Goto, IrqGoto
<1>1. CASE unlock_scheduler
  BY <1>1 DEF unlock_scheduler
<1>2. CASE drop_guard
  BY <1>2 DEF drop_guard
<1> QED
  BY <1>1, <1>2

\* Each group of actions keeps the invariant: a thread's first steps, ...
LEMMA KickoffKeepsInv ==
  ASSUME IInv, Kickoff
  PROVE  LockInv'
<1> USE LockAssumption DEF IInv, LockInv, TypeOK, OthersParked, StateLockMeaning, HandlerNesting,
        StacksLockMeaning, TssLockMeaning, CurrentMeaning, QueuesHoldParked, Parked, Gone,
        Switching, SwitchLocs, Sections, StacksWindows, Preemptible, PcLocs, IrqLocs,
        pmVars, queueVars, At, Goto, IrqGoto
<1>1. CASE set_init_lock
  BY <1>1 DEF set_init_lock, lock_state
<1>2. CASE set_init
  BY <1>2 DEF set_init
<1>3. CASE stacks_lock
  BY <1>3 DEF stacks_lock, InWindow
<1>4. CASE stacks_unlock
  BY <1>4 DEF stacks_unlock, AfterWindow
<1>5. CASE tss_lock
  BY <1>5 DEF tss_lock
<1>6. CASE tss_unlock
  BY <1>6 DEF tss_unlock
<1> QED
  BY <1>1, <1>2, <1>3, <1>4, <1>5, <1>6 DEF Kickoff

\* ... the operations a thread calls, ...
LEMMA OperationKeepsInv ==
  ASSUME IInv, ThreadOperation
  PROVE  LockInv'
<1> USE LockAssumption DEF IInv, LockInv, TypeOK, OthersParked, StateLockMeaning, HandlerNesting,
        StacksLockMeaning, TssLockMeaning, CurrentMeaning, QueuesHoldParked, Parked, Gone,
        Switching, SwitchLocs, Sections, StacksWindows, Preemptible, PcLocs, IrqLocs,
        pmVars, queueVars, At, Goto, IrqGoto
<1>1. CASE section_lock
  BY <1>1 DEF section_lock, lock_state
<1>2. CASE section_unlock
  BY <1>2 DEF section_unlock
<1>3. CASE process_manager_read
  BY <1>3 DEF process_manager_read
<1>4. CASE process_manager_write
  BY <1>4 DEF process_manager_write
<1>5. CASE process_manager_unlock
  BY <1>5 DEF process_manager_unlock
<1>6. CASE current_process_lock
  BY <1>6 DEF current_process_lock, lock_state
<1>7. CASE current_process_unlock
  BY <1>7 DEF current_process_unlock
<1>8. CASE sleep
  BY <1>8 DEF sleep, lock_state
<1>9. CASE exit_lock
  BY <1>9 DEF exit_lock, lock_state
<1>10. CASE exit_stacks_lock
  BY <1>10 DEF exit_stacks_lock
<1>11. CASE exit_stacks_unlock
  BY <1>11 DEF exit_stacks_unlock
<1>12. CASE exit_process_lock
  BY <1>12 DEF exit_process_lock
<1>13. CASE exit_process_unlock
  BY <1>13 DEF exit_process_unlock
<1>14. ASSUME NEW n \in Threads, block(n)
       PROVE  LockInv'
  BY <1>14 DEF block
<1>15. CASE sys_thread_switch
  BY <1>15 DEF sys_thread_switch, lock_state
<1> QED
  BY <1>1, <1>2, <1>3, <1>4, <1>5, <1>6, <1>7, <1>8, <1>9, <1>10, <1>11, <1>12,
     <1>13, <1>14, <1>15 DEF ThreadOperation

\* ... the end of a sleep, ...
LEMMA WakeKeepsInv ==
  ASSUME IInv, NEW t \in Threads, wake(t)
  PROVE  LockInv'
BY LockAssumption DEF IInv, LockInv, TypeOK, wake, Running, OthersParked, StateLockMeaning, HandlerNesting,
        StacksLockMeaning, TssLockMeaning, CurrentMeaning, QueuesHoldParked, Parked, Gone,
        Switching, SwitchLocs, Sections, StacksWindows, Preemptible, PcLocs, IrqLocs,
        pmVars, queueVars, At, Goto, IrqGoto

\* ... the timer's handler, ...
LEMMA HandlerKeepsInv ==
  ASSUME IInv, TimerHandler
  PROVE  LockInv'
<1> USE LockAssumption DEF IInv, LockInv, TypeOK, OthersParked, StateLockMeaning, HandlerNesting,
        StacksLockMeaning, TssLockMeaning, CurrentMeaning, QueuesHoldParked, Parked, Gone,
        Switching, SwitchLocs, Sections, StacksWindows, Preemptible, PcLocs, IrqLocs,
        pmVars, queueVars, At, Goto, IrqGoto
<1>1. CASE timer_interrupt
  BY <1>1 DEF timer_interrupt
<1>2. CASE try_lock
  BY <1>2 DEF try_lock
<1>3. CASE irq_unlock_scheduler
  BY <1>3 DEF irq_unlock_scheduler
<1>4. CASE irq_drop_guard
  BY <1>4 DEF irq_drop_guard
<1>5. CASE iret
  BY <1>5 DEF iret
<1> QED
  BY <1>1, <1>2, <1>3, <1>4, <1>5 DEF TimerHandler

\* ... the switch the handler tries, ...
LEMMA PreemptionKeepsInv ==
  ASSUME IInv, Preemption
  PROVE  LockInv'
<1> USE LockAssumption DEF IInv, LockInv, TypeOK, SwitchStep, OthersParked, StateLockMeaning, HandlerNesting,
        StacksLockMeaning, TssLockMeaning, CurrentMeaning, QueuesHoldParked, Parked, Gone,
        Switching, SwitchLocs, Sections, StacksWindows, Preemptible, PcLocs, IrqLocs,
        pmVars, queueVars, At, Goto, IrqGoto
<1>1. CASE switch_thread_nothing
  BY <1>1 DEF switch_thread_nothing, switch_thread_return
<1>2. ASSUME NEW n \in Threads, switch_thread_refused(n)
      PROVE  LockInv'
  BY <1>2 DEF switch_thread_refused, switch_thread_return
<1>3. ASSUME NEW n \in Threads, switch_thread(n)
      PROVE  LockInv'
  BY <1>3 DEF switch_thread, MayNotSwitch
<1> QED
  BY <1>1, <1>2, <1>3 DEF Preemption

\* ... the switch itself, ...
LEMMA SwitchKeepsInv ==
  ASSUME IInv, Switch
  PROVE  LockInv'
<1> USE LockAssumption DEF IInv, LockInv, TypeOK, SwitchStep, OthersParked, StateLockMeaning, HandlerNesting,
        StacksLockMeaning, TssLockMeaning, CurrentMeaning, QueuesHoldParked, Parked, Gone,
        Switching, SwitchLocs, Sections, StacksWindows, Preemptible, PcLocs, IrqLocs,
        pmVars, queueVars, At, Goto, IrqGoto
<1>1. CASE switch_current_lock
  BY <1>1 DEF switch_current_lock
<1>2. CASE switch_current_unlock
  BY <1>2 DEF switch_current_unlock
<1>3. CASE switch_next_lock
  BY <1>3 DEF switch_next_lock
<1>4. CASE switch_next_unlock
  BY <1>4 DEF switch_next_unlock
<1>5. CASE switch_tss_lock
  BY <1>5 DEF switch_tss_lock
<1>6. CASE switch_tss_unlock
  BY <1>6 DEF switch_tss_unlock
<1>7. CASE thread_switch
  BY <1>7 DEF thread_switch
<1> QED
  BY <1>1, <1>2, <1>3, <1>4, <1>5, <1>6, <1>7 DEF Switch

\* ... and a step that changes nothing.
LEMMA StutterKeepsInv ==
  ASSUME IInv, UNCHANGED vars
  PROVE  LockInv'
BY DEF vars, IInv, LockInv, OthersParked, StateLockMeaning, HandlerNesting,
   StacksLockMeaning, TssLockMeaning, CurrentMeaning, QueuesHoldParked, Parked, Gone, Switching

(***************************************************************************)
(* The inductive invariant holds throughout: where each context stands     *)
(* says exactly which of the scheduler's locks are taken and by whom.      *)
(***************************************************************************)
THEOREM LocksTrackLocations == Spec => []IInv
<1>1. ASSUME IInv, [Next]_vars
      PROVE  IInv'
  <2>1. TypeOK'
    BY <1>1, TypePreserved DEF IInv
  <2>2. LockInv'
    BY <1>1, ResumeKeepsInv, KickoffKeepsInv, OperationKeepsInv, WakeKeepsInv,
       HandlerKeepsInv, PreemptionKeepsInv, SwitchKeepsInv, StutterKeepsInv DEF Next
  <2> QED
    BY <2>1, <2>2 DEF IInv, LockInv
<1> QED
  BY <1>1, InitInvariant, PTL DEF Spec

(***************************************************************************)
(* Sections of the scheduler's state lock exclude each other, for any      *)
(* number of threads, in spite of the forced and doubled unlocks.          *)
(***************************************************************************)
THEOREM StateLockExclusion == Spec => []StateLockExcludes
<1>1. IInv => StateLockExcludes
  BY DEF IInv, TypeOK, OthersParked, Parked, Gone, StateLockMeaning, HandlerNesting,
     StateLockExcludes, HoldsState, Sections, SwitchLocs, Preemptible
<1> QED
  BY <1>1, LocksTrackLocations, PTL

(***************************************************************************)
(* Thread::switch() finds the locks it needs free, for any number of       *)
(* threads, so the CPU never spins with the state lock held there.         *)
(***************************************************************************)
THEOREM SwitchFindsLocksFree == Spec => []SwitchNeverSpins
<1>1. ASSUME IInv
      PROVE  SwitchNeverSpins
  <2> USE <1>1 DEF IInv, TypeOK, HandlerNesting, StacksLockMeaning, TssLockMeaning,
          CurrentMeaning, Switching, Running, At, SwitchLocs, Preemptible, StacksWindows
  <2>1. Running("sw_cur") => ~stacks[cpu]
    OBVIOUS
  <2>2. Running("sw_next") => ~stacks[current]
    OBVIOUS
  <2>3. Running("sw_tss") => ~tss
    OBVIOUS
  <2>4. Running("x_kind") => ~stacks[cpu]
    BY DEF IrqLocs
  <2> QED
    BY <2>1, <2>2, <2>3, <2>4 DEF SwitchNeverSpins
<1> QED
  BY <1>1, LocksTrackLocations, PTL

(***************************************************************************)
(* A switch leads to a parked thread that has not exited, for any number   *)
(* of threads.                                                             *)
(***************************************************************************)
THEOREM SwitchFindsParkedThread == Spec => []SwitchTargetParked
<1>1. IInv => SwitchTargetParked
  BY DEF IInv, TypeOK, CurrentMeaning, Switching, SwitchTargetParked, Running, At, SwitchLocs
<1> QED
  BY <1>1, LocksTrackLocations, PTL
=============================================================================
