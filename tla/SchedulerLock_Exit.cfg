SPECIFICATION Spec
CONSTANTS
  cursor = cursor
  cleanup = cleanup
  shell = shell
  Nobody = Nobody
  First = cursor
  Threads = {cursor, cleanup, shell}
  UserThreads = {shell}
INVARIANT ExitNeverWaits
