CONSTANTS
  NR_REQUEST = 4
  Disks = {1,2,3,4,5}
  MAX_ERRORS = 0
  NoPointer = 0
  Few = {1,2}
  MaxTransfers = 4
SPECIFICATION HDSpec
INVARIANT DiskNotStalled
CHECK_DEADLOCK FALSE
