SPECIFICATION FairSpec
CONSTANTS
  Attempts = {a1, a2}
  Hosts = {hostA, hostB}
  Free = Free
  FileLen = 2
  MaxVersion = 1
  Window = 1
INVARIANTS TypeOK OneTransfer InstalledFromOneSnapshot RefusedOnlyAfterDeadline
PROPERTIES SendingFreed PullEnds
CHECK_DEADLOCK FALSE
