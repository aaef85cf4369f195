CONSTANTS
  NumTasks = 4
  Priority <- Five
  YielderSets <- AllOrNone
SPECIFICATION FairSpec
PROPERTIES ImplementsRoundRobin NoStarvationByTicks LastSlotRuns
