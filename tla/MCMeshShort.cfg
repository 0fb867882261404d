SPECIFICATION Spec
CONSTANTS
  Attempts = {a1, a2}
  Hosts = {hostA, hostB}
  Free = Free
  FileLen = 2
  MaxVersion = 1
  Window = 1
INVARIANT InstalledIsWhole
CHECK_DEADLOCK FALSE
