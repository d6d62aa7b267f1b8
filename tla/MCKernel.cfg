CONSTANTS
  \* Paging
  NFRAMES = 4
  FRAME_SIZE = 8
  WORD_BITS = 2
  TABLE_PAGES = 2
  PageSet <- MCPages
  \* Monitor
  MON_WIDTH = 4
  MON_HEIGHT = 2
  TAB = 2
  Glyphs = {g}
  BLANK = blank
  MaxScrolled = 2
  \* SortedArray
  MaxSize = 4
  UINT = 16
  Keys <- NearKeys
  \* Queues
  Elements = {1, 2, 3}
  Heads = {11, 12}
  NULL = 0
  \* Boot
  PAGE = 32
  MEMORY_FRAMES = 32
  WORD = 2
  BITS = 2
  ENTRIES = 4
  DIRECTORY = 66
  HEAP_STRUCT = 10
  HEAP_START = 40
  HEAP_PAGES = 2
  ImageEnds <- ShortImages
  \* Ramdisk
  BLOCK = 2
  DIGITS = 2
  SIZE_T = 16
  SHOWN = 4
  FileNames = {"a", "b"}
  FileSizes = {0, 1, 2, 9}
  MaxFiles = 2
  \* Interrupts
  PER = 3
  CASCADE = 1
  EXCEPTIONS = 2
  CLOCK = 40
  BYTE = 4
  Frequencies = {1, 2, 3, 7, 40, 41}
  MaxDepth = 2
  MaxTicks = 2
  \* Descriptors
  BYTE8 = 4
  HALF8 = 2
  GDT_ENTRIES = 2
  Limits = {0, 1, 15, 16, 31, 32, 255}
  \* Strings
  SIZE = 6
  Chars <- ThreeBytes
SPECIFICATION KernelSpec
INVARIANTS FramesAccounted CursorOnScreen Sorted NothingLost ListsHold PlacementsApart BootSound RamdiskSound IrqsNotNested HardwareAgrees 
PROPERTIES ShowsEndOfRoll BeyondUntouched
CHECK_DEADLOCK FALSE
