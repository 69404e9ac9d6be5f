\* Two agents with budgets of one and two tokens, three records, one snapshot
\* and one crash.
CONSTANTS
  a = a
  b = b
  Agent <- MCAgent
  Nobody = Nobody
  TokenBudget <- MCTokenBudget
  DefaultBudget = 3
  WarmLimit = 1
  Sizes = {1, 2}
  Weights = {0}
  MaxId = 3
  MaxSnapshots = 1
  MaxCrashes = 1
SPECIFICATION Spec
INVARIANTS
  TiersAgree
  RecordedIsRecallable
  ColdSurvivesCrashes
  ForgottenReturnsBySnapshot
\* A torn line ends the life of the store.
CHECK_DEADLOCK FALSE
