SPECIFICATION FairSpec
CONSTANTS
  Threads = {t1}
  Good = {g1, g2}
  Bad = {bad}
  Blocked = {blocked}
  Linked = {g2}
  NoRules = NoRules
  InPlace = TRUE
  SlowReads = FALSE
  HasVdso = TRUE
  MaxWrites = 2
  MaxMoves = 1
  MaxIoErrors = 0
  MaxForks = 1
INVARIANTS SettledMeansCurrent
 
