CONSTANTS
  SCREEN_CHAR_WIDTH = 2
  SCREEN_CHAR_HEIGHT = 2
  MEM_ADDR_SIZE = 21
  BYTE = 5
SPECIFICATION FairSpec
PROPERTIES CompleteLineFeed
