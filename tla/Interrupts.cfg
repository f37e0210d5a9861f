SPECIFICATION Spec
CHECK_DEADLOCK FALSE
CONSTANTS
  Boot = boot
  Threads = {t1, t2}
  First = t1
  Pit = pit
  Keyboard = keyboard
  Serial = serial
  Sound = sound
  ApicTimer = apicTimer
  Vector <- MCVector
  Tables <- MCTables
  Nmis = {4}
  MaxEntry = 6
  MaxTicks = 3
INVARIANTS
  InServiceIsHandled
  UnmaskedMeansHandled
  VectorLocksAccounted
  NoTickLost
