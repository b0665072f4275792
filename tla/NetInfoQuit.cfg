SPECIFICATION Spec
CONSTANTS
  Players = {0, 1, 138}
  Things = {1}
  Peds = {p1, p2}
  Vehicles = {v1}
  Objects = {}
  QuitRpc = 138
  Nil = nil
INVARIANTS StreamedInIsSpawned
