CONSTANTS
  NR_BUFFERS = 3
  Blocks = {1, 2, 3, 4}
  MaxCalls = 5
  Processes = {1, 2}
  MaxVersion = 1
  Results = {TRUE}
SPECIFICATION BCSpec
INVARIANT BufferIsCurrent
CHECK_DEADLOCK FALSE
