CONSTANTS
  NFRAMES = 4
  FRAME_SIZE = 8
  WORD_BITS = 2
  TABLE_PAGES = 2
  PageSet <- MCPages
SPECIFICATION PSpec
PROPERTY FreedFrameIsFree
CHECK_DEADLOCK FALSE
