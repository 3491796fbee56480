SPECIFICATION Spec
CONSTANTS
  a = a
  b = b
  t1 = t1
  t2 = t2
  Threads = {t1, t2}
  Texts = {a, b}
  Settings <- All
  First <- FirstMix
  PoolSize = 4
  ClaimSpan = 4
  MaxReloads = 3
  MaxForks = 2
  MaxCalls = 4
SYMMETRY Symmetric
INVARIANTS FirstAllowance ClaimsAreOwn HitsAreKept RulesCanFire SlotsAreOwn
PROPERTIES KeptRulesKeepSlots
CHECK_DEADLOCK FALSE
