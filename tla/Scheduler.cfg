SPECIFICATION FairSpec
CONSTANTS
  cursor = cursor
  cleanup = cleanup
  shell = shell
  app = app
  NoThread = NoThread
  KernelProcess = KernelProcess
  Cleanup = cleanup
  Threads = {cursor, cleanup, shell, app}
  UserThreads = {shell, app}
  BootThreads <- MCBootThreads
  MaxSleep = 1
INVARIANTS
  EachThreadInOnePlace
  ListsNameTheLiving
  CpuContextMatches
PROPERTIES
  NoOvertaking
  ImplementsThreadLifecycle
  SleeperWakes
  ReadyRuns
  ExitedProcessReclaimed
CHECK_DEADLOCK FALSE
