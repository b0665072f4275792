SPECIFICATION FairSpec
CONSTANTS
  Threads = {t1, t2, t3, t4}
INVARIANTS OneOwner CounterCounts
PROPERTIES IsRWLock WriterGetsIn
