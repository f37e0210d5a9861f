SPECIFICATION Spec
CONSTANTS
  Frames <- MCFrames
  MemoryMaps <- MCMemoryMaps
  KernelImage <- MCKernelImage
  Initrd <- MCInitrd
  MaxRequest = 3
INVARIANTS
  SortedAndFused
  FramesConserved
PROPERTIES
  AllocGrantsLowestRun
  ImplementsFramePool
CHECK_DEADLOCK FALSE
