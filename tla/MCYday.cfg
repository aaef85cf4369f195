CONSTANTS
  SIZE = 5
  Chars <- SomeChars
  Arguments <- SomeChars
  MaxCount = 4
  WORD = 256
  Calls <- SomeCalls
  SIXTY = 11
  HOURS = 2
  Dates <- SomeDates
  SLOW = 1
  LATE = 2
SPECIFICATION LibrarySpec
INVARIANTS YdayCounted
CHECK_DEADLOCK FALSE
