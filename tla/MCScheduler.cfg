CONSTANTS
  NUM_TASKS = 4
  NumTasks = 3
  Priority <- Equal2
  Yielders <- AllButLast
  WORD = 16
  MaxJiffies = 12
SPECIFICATION Spec
INVARIANTS
  NeverHalts
  OneRunning
  QuantumInRange
  ConsoleExclusive
  ResumesInterruptible
  AcknowledgedBeforeSwitch
PROPERTIES
  PreemptedOnlyAtQuantumEnd ImplementsRanked
CHECK_DEADLOCK FALSE
