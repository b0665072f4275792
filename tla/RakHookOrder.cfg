SPECIFICATION Spec
CONSTANTS
  Main = main
  Others = {t1}
  MaxMessages = 3
INVARIANTS QueuedGoFirst
