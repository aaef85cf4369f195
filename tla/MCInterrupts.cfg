CONSTANTS
  Lines = {0, 1, 9}
  Faults = {14, 30}
SPECIFICATION FairSpec
INVARIANTS HandlersFinish DispatchesAsAsked MasksAsAsked
PROPERTY ClockServed
CHECK_DEADLOCK FALSE
