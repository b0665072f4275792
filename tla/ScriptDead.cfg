CONSTANTS
  Paths = {a, b}
  Libraries = {}
  ForcedPaths = {}
  Names = {}
  MaxScripts = 2
  MaxActs = 2
  a = a
  b = b
SPECIFICATION Spec
PROPERTIES
  DeadIsInactive
