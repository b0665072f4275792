SPECIFICATION FairSpec
CONSTANTS
  Main = main
  Others = {t1, t2}
  MaxMessages = 4
INVARIANTS QueuedGoFirstOutside ThreadOrder NothingLost NeverRelocked
PROPERTIES QueuedIsSent
