SPECIFICATION Spec
CONSTANTS
  Threads = {t1, t2}
  Good = {g1, g2}
  Bad = {bad}
  Blocked = {}
  Linked = {}
  NoRules = NoRules
  InPlace = FALSE
  SlowReads = TRUE
  HasVdso = FALSE
  MaxWrites = 2
  MaxMoves = 0
  MaxIoErrors = 1
  MaxForks = 0
SYMMETRY Symmetric
INVARIANTS TypeOK OneReloader TornOnlyFromZero ReloadInv SettledMeansCurrent
PROPERTIES ActiveIsFrozen
