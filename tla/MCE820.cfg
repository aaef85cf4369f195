CONSTANTS
  MEMORY_BASE = 2
  KERNEL_MEMORY = 8
  PAGE_SIZE = 4
  WORD = 16
  COUNTS = 4
  MemoryMaps <- Reports
  ENTRIES = 4
  TABLES = 2
  NewTable = 9
  Targets = {12, 13}
  Garbage <- SomeEntries
  Watched <- WatchedPages
  LOADER_SECTORS = 4
  LOADER_LENGTH = 700
  KERNEL_SECTORS = 6
  Bytes = 2
  Bits = 4
  MapPages = 2
  MaxCount = 3
SPECIFICATION MemorySpec
INVARIANTS ErrorMeansNoReport
CHECK_DEADLOCK FALSE
