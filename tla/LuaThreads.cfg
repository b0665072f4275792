CONSTANTS
  MaxThreads = 2
  MaxClock = 1
  Handles = {h1, h2}
  Script = Script
  WorksInPause = FALSE
SPECIFICATION HFairSpec
INVARIANTS
  DueThreadsAhead
  HandlesTypeOK
  OneCoroutine
  OwnThread
  FlagObeyed
PROPERTIES
  ResumedOncePerPass
  DeadIsFinal
  DueIsServed
