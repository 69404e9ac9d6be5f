\* The registry from its construction on: every method, one caller, restarts
\* under rest_for_one whose window may pass.
CONSTANTS
  s = s
  a = a
  b = b
  NoName = NoName
  Idle = Idle
  Name <- MCName
  Client = {c1}
  Strategy <- RestForOne
  MaxRestarts <- Once
  Backoff <- WithBackoff
  ChildPolicy <- WithTemporary
  Boot <- Nothing
  Commands = {"run_path", "spawn_child", "monitor_child", "kill", "terminate_child"}
  Endings = {"returns", "raises"}
  StopMayFail = FALSE
  WindowPasses = TRUE
  AdoptsSupervised = FALSE
  ParentsMayBeStarting = TRUE
  MaxPid = 5
  MaxCalls = 3
SPECIFICATION Spec
INVARIANTS TypeOK  PermanentChildrenAreAttended
CHECK_DEADLOCK FALSE
