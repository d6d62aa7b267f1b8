CONSTANTS
  NFRAMES = 16
  FRAME_SIZE = 16
  WORD_BITS = 8
  TABLE_PAGES = 4
  PageSet <- MCPages
  PAGE = 16
  HEAP_START = 16
  INITIAL_SIZE = 64
  HEAP_MAX = 160
  INDEX_SIZE = 3
  MIN_SIZE = 32
  SUPERVISOR = 0
  READONLY = 0
  UINT = 1024
  Requests <- AnyRequest
  MaxDepth = 4
  Workloads <- AcrossOrAligned
SPECIFICATION MCSpec
INVARIANTS HeapOverPages FramesNotShared
PROPERTIES GrowthAdjoinsHole
CHECK_DEADLOCK FALSE
