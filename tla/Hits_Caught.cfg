SPECIFICATION Spec
CONSTANTS
  a = a
  b = b
  t1 = t1
  t2 = t2
  Threads = {t1, t2}
  Texts = {a, b}
  Settings <- OnlyCaught
  First <- FirstMix
  PoolSize = 4
  ClaimSpan = 4
  MaxReloads = 3
  MaxForks = 2
  MaxCalls = 4
SYMMETRY Symmetric
INVARIANT SlotsNeverShared
CHECK_DEADLOCK FALSE
