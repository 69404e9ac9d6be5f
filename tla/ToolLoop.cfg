\* Three tools, two of them registered from the start; two calls a response
\* and two groups a run.
CONSTANTS
  safe = safe
  unsafe = unsafe
  late = late
  Tool <- MCTool
  Configs <- MCConfigs
  Registries <- MCRegistries
  MaxCalls = 2
SPECIFICATION Spec
INVARIANTS
  CallsAreAnswered
  
  OnlyGrantedToolsRun
PROPERTIES
  EveryRunReturns
\* A run is made once and returns.
CHECK_DEADLOCK FALSE
