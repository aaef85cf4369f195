CONSTANTS
  NUM_TASKS = 2
  NumTasks = 2
  Priority <- Equal2
  Yielders <- All
  WORD = 4
  MaxJiffies = 4
SPECIFICATION FairSpec
INVARIANTS
  PrintsOwnText
