CONSTANTS
  NFRAMES = 16
  FRAME_SIZE = 16
  WORD_BITS = 8
  TABLE_PAGES = 16
  PageSet <- MCPages
  PAGE = 16
  HEAP_START = 16
  INITIAL_SIZE = 96
  HEAP_MAX = 160
  INDEX_SIZE = 16
  MIN_SIZE = 48
  SUPERVISOR = 0
  READONLY = 0
  UINT = 1024
  Requests <- AnyRequest
  MaxDepth = 4
  Workloads <- Regular
SPECIFICATION MCSpec
INVARIANTS HeapSound  NoFault
PROPERTIES SmallestHoleTaken
CHECK_DEADLOCK FALSE
