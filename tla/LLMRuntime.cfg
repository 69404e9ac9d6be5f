\* Three calls on two providers, two attempts each; answers of one token under
\* a budget of one.
CONSTANTS
  p = p
  q = q
  j = j
  k = k
  Provider = {p, q}
  Routes <- MCRoutes
  Key = {j, k}
  Requests <- MCRequests
  Budget = 1
  MaxAttempts = 2
  MaxCalls = 3
  MaxUsage = 1
  MaxChunks = 1
SPECIFICATION Spec
INVARIANTS
  AccountsAreKept
  AnswersHaveOrigin
PROPERTIES
  OneSourcePerStream
  ThreadIsReturned
\* When every call has ended nothing is left to do.
CHECK_DEADLOCK FALSE
