SPECIFICATION Spec
CHECK_DEADLOCK FALSE
CONSTANTS
  Depth = 3
  Fanout = 8
  Limit = 64
  Procs = {p1}
  Kernel = kernel
  NoRoot = none
  Programs <- MCPrograms
  StackEnd <- MCStackEnd
  KernelStack = 1
  Device <- MCDevice
  RingCount = 3
  DmaCount = 2
  PageBytes = 2
  Machines <- MCStaleDevices
INVARIANT EmptyEntriesSkipped
