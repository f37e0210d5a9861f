SPECIFICATION FairSpec
CHECK_DEADLOCK FALSE
CONSTANTS
  Capacity = 2
  Readers = {shell, app}
  Nobody = nobody
  Fifo = 2
  MaxBytes = 5
INVARIANTS
  HandlersStore
  BytesInOrder
PROPERTY ReadersProgress
