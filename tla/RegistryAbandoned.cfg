\* A sibling is killed during the backoff of a group restart.
CONSTANTS
  s = s
  a = a
  b = b
  NoName = NoName
  Idle = Idle
  Name <- MCName
  Client = {c1}
  Strategy <- OneForAll
  MaxRestarts <- Twice
  Backoff <- WithBackoff
  ChildPolicy <- Permanent
  Boot <- SupervisorWithTwo
  Commands = {"kill"}
  Endings = {"raises"}
  StopMayFail = FALSE
  WindowPasses = FALSE
  AdoptsSupervised = FALSE
  ParentsMayBeStarting = FALSE
  MaxPid = 6
  MaxCalls = 1
SPECIFICATION Spec
INVARIANTS PermanentChildrenAreAttended
CHECK_DEADLOCK FALSE
