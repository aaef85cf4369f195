CONSTANTS
  NUM_TASKS = 3
  NumTasks = 3
  Priority <- Equal2
  Yielders <- OnlyFirst
  WORD = 4
  MaxJiffies = 4
SPECIFICATION FairSpec
INVARIANTS TypeOK
PROPERTIES ImplementsPolicy TicksServed PrintingGoesOn
