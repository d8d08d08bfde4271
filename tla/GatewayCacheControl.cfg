SPECIFICATION Spec
CONSTANTS
  Connections = {d1, d2, d3}
  Capacity = 2
  DiskUnits = 1
  Faults = {}
INVARIANTS
  EveryResponseNoStore
