SPECIFICATION Spec
CONSTANTS
  Threads = {"app"}
  Main = "app"
  Calls = {"read"}
  Verdicts <- MCVerdicts
  Capacity = 1
  Interval = 2
  Settings <- MCOld
  MaxCalls = 2
  MaxSignals = 1
PROPERTIES HeldDecidedOnce
CHECK_DEADLOCK FALSE
