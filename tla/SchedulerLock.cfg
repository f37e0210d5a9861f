SPECIFICATION FairSpec
CONSTANTS
  cursor = cursor
  cleanup = cleanup
  shell = shell
  Nobody = Nobody
  First = cursor
  Threads = {cursor, cleanup, shell}
  UserThreads = {shell}
INVARIANTS
  StateLockExcludes
  SwitchNeverSpins
  SwitchTargetParked
  IInv
PROPERTY StateLockReleased
