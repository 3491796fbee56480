SPECIFICATION HSpec
CONSTANTS
  Threads = {t1, t2}
  Good = {g1}
  Bad = {}
  Blocked = {}
  Linked = {}
  NoRules = NoRules
  InPlace = FALSE
  SlowReads = TRUE
  HasVdso = FALSE
  MaxWrites = 2
  MaxMoves = 0
  MaxIoErrors = 0
  MaxForks = 1
SYMMETRY Symmetric
INVARIANTS StatusDescribesActive
PROPERTIES ImplementsStore
