CONSTANTS
  boot = boot
  kernel = kernel
  shell = shell
  app = app
  handler = handler
  free = free
  Boot = boot
  Handler = handler
  Free = free
  KernelThreads <- MCKernelThreads
  UserThreads <- MCUserThreads
SPECIFICATION Spec
SYMMETRY MCSymmetry
\* A hang is a state without a next one.
CHECK_DEADLOCK FALSE
INVARIANTS
  HangsAreKnown
  NoCircularWait
