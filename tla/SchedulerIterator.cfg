CONSTANTS
  MaxThreads = 2
  MaxClock = 0
SPECIFICATION Spec
INVARIANTS
  IteratesPendingTasks
