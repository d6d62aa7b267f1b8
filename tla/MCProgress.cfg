CONSTANTS
  \* HeapReturns
  NFRAMES = 16
  FRAME_SIZE = 16
  WORD_BITS = 8
  TABLE_PAGES = 16
  PageSet <- MCPages
  PAGE = 16
  HEAP_START = 16
  INITIAL_SIZE = 96
  HEAP_MAX = 160
  INDEX_SIZE = 16
  MIN_SIZE = 48
  SUPERVISOR = 0
  READONLY = 0
  UINT = 1024
  Requests <- AnyRequest
  MaxDepth = 4
  Workloads <- FourBlocks
  \* TasksL
  NR_TASKS = 4
  MaxPid = 4
  Priority = 1
  HZ = 1
  Signals = {2, 9, 14, 17}
  Uids = {0, 1}
  MaxCalls = 2
  MaxForks = 3
  MaxLifeCalls = 4
  \* Pipe
  PAGE_SIZE = 3
  NR_FILE = 3
  NR_OPEN = 2
  Pipers = {1, 2, 3}
  MaxSent = 1
  Chunks = {1, 3}
SPECIFICATION ProgressSpec
PROPERTIES KmallocReturns RunnableRuns  PipeReturns
CHECK_DEADLOCK FALSE
