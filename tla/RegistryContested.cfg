\* Two callers kill processes of a chain of three; stopping may fail.
CONSTANTS
  s = s
  a = a
  b = b
  NoName = NoName
  Idle = Idle
  Name <- MCName
  Client = {c1, c2}
  Strategy <- OneForOne
  MaxRestarts <- Once
  Backoff <- NoBackoff
  ChildPolicy <- Permanent
  Boot <- Chain
  Commands = {"kill"}
  Endings = {"raises"}
  StopMayFail = TRUE
  WindowPasses = FALSE
  AdoptsSupervised = FALSE
  ParentsMayBeStarting = FALSE
  MaxPid = 7
  MaxCalls = 1
SPECIFICATION FairSpec
INVARIANTS NamesFollowProcesses
PROPERTY TerminalIsFinal
CHECK_DEADLOCK FALSE
