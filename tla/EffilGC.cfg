SPECIFICATION Spec
CONSTANTS
  Tables = {o1}
  Channels = {c1}
  Keys = {k1, k2}
  Meta = meta
  Threads = {t1, t2}
  MaxRefs = 2
  MaxHandles = 2
  None = none
SYMMETRY Symmetry
INVARIANTS TypeOK AssertsHold HeldIsManaged GarbageGoes
