CONSTANTS
  \* BufferCache
  NR_BUFFERS = 3
  Blocks = {1, 2, 3, 4}
  MaxCalls = 3
  Processes = {1, 2}
  MaxVersion = 1
  Results = {TRUE, FALSE}
  \* HardDisk
  NR_REQUEST = 4
  Disks = {1,2,3,4,5}
  MAX_ERRORS = 0
  NoPointer = 0
  Few = {1,2}
  MaxTransfers = 3
  \* FileSystem
  NR_INODE = 4
  NR_FILE = 2
  NR_OPEN = 2
  NINODES = 3
  NZONES = 8
  Scarce = {2, 4}
  BLOCK_SIZE = 2
  DIR_ENTRIES_PER_BLOCK = 3
  DIRECT = 1
  PER = 2
  Users = {1}
  Names = {"a"}
  MaxNameCalls = 5
  MaxByteCalls = 6
  \* Console
  COLUMNS = 4
  LINES = 3
  SCREEN_END = 16
  TAB = 2
  NPAR = 2
  Save7 = 1
  Back8 = 2
  MaxPar = 10
  MaxChars = 7
SPECIFICATION DevicesSpec
INVARIANTS BuffersSound CacheSleepersReached   FilesKeepBytes ScreenSound
PROPERTIES NoDirtyReuse  ScrollingShifts
CHECK_DEADLOCK FALSE
