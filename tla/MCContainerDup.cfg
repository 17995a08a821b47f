CONSTANTS
  Client = {a, b}
  cap = cap
  stim = stim
  Item <- MCItem
  Stock <- OneItem
  Carried <- Pocket
  ChunkCap = 4
  ScanMax = 4
  Counts = {1}
  MaxOps = 3
SYMMETRY Symmetry
SPECIFICATION Spec
CHECK_DEADLOCK FALSE
INVARIANTS
  NoDuplication
