SPECIFICATION Spec
CHECK_DEADLOCK FALSE
CONSTANTS
  Machines <- MCMachines
  VectorLines <- MCVectorLines
  Timeout = 1
INVARIANTS
  ScanFindsEachDevice
  AnswersMatchCommands
  EngineWellProgrammed
  StreamReachesJack
PROPERTIES
  EveryWaitEnds
