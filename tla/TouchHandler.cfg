SPECIFICATION FairSpec
CONSTANTS
  Chain <- MCChain
  Pointers = {0, 1}
  NoPointer = 99
  MaxQueue = 2
INVARIANTS TypeOK HolderIsTaker MouseIsFinger
PROPERTIES ReleasedIsLetGo
