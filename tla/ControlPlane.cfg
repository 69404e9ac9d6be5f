\* Two agents and three requests.
CONSTANTS
  a1 = a1
  a2 = a2
  Agent = {a1, a2}
  Target <- MCTarget
  Worlds <- MCWorlds
  MaxTasks = 3
SPECIFICATION Spec
INVARIANTS
  TasksAreAccounted
  HostsSurvive
PROPERTIES
  RequestsAreReported
  EndsTogether
\* When main has ended nothing is left to do.
CHECK_DEADLOCK FALSE
