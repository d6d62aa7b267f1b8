CONSTANTS
  \* Tasks
  NR_TASKS = 4
  MaxPid = 4
  Priority = 1
  HZ = 1
  Signals = {2, 9, 14, 17}
  Uids = {0, 1}
  MaxCalls = 3
  MaxForks = 6
  MaxLifeCalls = 4
  \* Memory
  TASKS = 3
  DIRS = 2
  TABLE = 1
  LOW = 1
  HIGH = 8
  DATA = {0, 1}
  MaxLost = 1
  ArgSizes <- OneArg
  \* Pipe
  PAGE_SIZE = 3
  NR_FILE = 3
  NR_OPEN = 2
  Pipers = {1, 2, 3}
  MaxSent = 4
  Chunks = {1, 3}
  \* Tty
  TTY_BUF_SIZE = 4
  Slack = 1
  Room = 2
  WAKEUP_CHARS = 1
  Readers = {1}
  Writers = {2}
  Keys = {"a", "CR", "EOF", "ERASE", "INTR", "STOP"}
  CANON = {TRUE, FALSE}
  ECHO = {TRUE, FALSE}
  VMIN = {0, 1}
  VTIME = {TRUE}
  MaxKeys = 4
  MaxTtyCalls = 2
  Size = 5
SPECIFICATION ProcessesSpec
INVARIANTS PidsUnique CurrentMayRun FamilySound PagesCounted PipeSound 
 
CHECK_DEADLOCK FALSE
