CONSTANTS
  Paths = {a, b, c}
  Libraries = {c}
  ForcedPaths = {b}
  Names = {n}
  MaxScripts = 3
  MaxActs = 2
  a = a
  b = b
  c = c
  n = n
SPECIFICATION Spec
INVARIANTS
  TypeOK
  NoFreedInstanceInUse
  FailedIsUnloaded
  TablesNameLive
  ReloadStartsAgain
PROPERTIES
  MainStartsOnce
