CONSTANTS
  SIZE = 5
  Chars <- SomeChars
  Arguments <- SomeArguments
  MaxCount = 4
  WORD = 256
  Calls <- SomeCalls
  SIXTY = 11
  HOURS = 2
  Dates <- SomeDates
  SLOW = 1
  LATE = 2
SPECIFICATION LibrarySpec
INVARIANTS StringLaws FieldLaws TakesItsArguments ReadsOneMoment AlarmNeverLost
PROPERTIES Returns AlarmRings
CHECK_DEADLOCK FALSE
