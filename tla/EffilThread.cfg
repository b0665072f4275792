SPECIFICATION FairSpec
CONSTANTS
  Controllers = {c1, c2}
  MaxCalls = 3
CHECK_DEADLOCK FALSE
INVARIANTS PausedIsPaused LocksOrdered
PROPERTIES FinishIsFinal CommandsAnswered EndIsSeen
