SPECIFICATION Spec
CONSTANTS
  Threads = {"t1", "t2", "u1", "c1"}
  Procs = {"app", "twin", "child"}
  ProcOf <- MCProcOf
  Forked = {"child"}
  Scenes <- MCScenes
  Pids = {1, 2}
  Pid <- MCPid
  Others = {1001, 1002}
  Files <- MCTwo
  Eager = 1
  Endings = {"exit", "kill"}
  MaxHits = 2
INVARIANTS TypeOK  FilesAreOwn OneWriter  
CHECK_DEADLOCK FALSE
