CONSTANTS
  NUM_TASKS = 4
  NumTasks = 3
  Priority <- Equal5
  Yielders <- All
  WORD = 16
  MaxJiffies = 12
SPECIFICATION TurnsSpec
INVARIANT EqualsTakeTurns
CHECK_DEADLOCK FALSE
