SPECIFICATION FairSpec
CONSTANTS
  Threads = {"app", "left"}
  Main = "app"
  Calls = {"read"}
  Verdicts <- MCVerdicts
  Capacity = 1
  Interval = 2
  Settings <- MCSettings
  MaxCalls = 2
  MaxSignals = 1
INVARIANTS StatusBeforeRun ListenerOutlivesCallers DecidedOnce NotEarly WakesInTime
PROPERTIES EveryCallEnds
CHECK_DEADLOCK FALSE
