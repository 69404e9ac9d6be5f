\* Two agents, three requests.
CONSTANTS
  Agent = {a, b}
  Worlds <- MCWorlds
  MaxRequests = 3
  MaxStale = 1
SPECIFICATION Spec
INVARIANTS
  AnswersReachWaiters
PROPERTIES
  RequestsAreOneShot
  RequestsEnd
\* When all agents wait for messages nothing is left to do.
CHECK_DEADLOCK FALSE
