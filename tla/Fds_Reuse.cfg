SPECIFICATION Spec
CONSTANTS
  f = f
  g = g
  t1 = t1
  t2 = t2
  Threads = {t1, t2}
  Fds = {3, 4}
  SlotCount = 1
  Links = {f, g}
  Excluded = {}
  RawCalls = {"open", "close"}
  MaxCalls = 3
  MaxChanges = 2
  MaxForks = 1
SYMMETRY Symmetric
INVARIANTS CacheIsTrue AnswersAreNames
CHECK_DEADLOCK FALSE
