\* A failure restarts all children while siblings fail, failing stops included,
\* and a caller kills a process or takes a name that is free for a moment.
CONSTANTS
  s = s
  a = a
  b = b
  NoName = NoName
  Idle = Idle
  Name <- MCName
  Client = {c1}
  Strategy <- OneForAll
  MaxRestarts <- Twice
  Backoff <- WithBackoff
  ChildPolicy <- Mixed
  Boot <- SupervisorWithTwo
  Commands = {"kill", "run_path"}
  Endings = {"returns", "raises"}
  StopMayFail = TRUE
  WindowPasses = FALSE
  AdoptsSupervised = FALSE
  ParentsMayBeStarting = FALSE
  MaxPid = 7
  MaxCalls = 1
SPECIFICATION FairSpec
INVARIANTS IndexesFollowProcesses RestartsWithinBudget
PROPERTY CallsReturn
CHECK_DEADLOCK FALSE
