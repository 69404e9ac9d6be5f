\* Programs of three statements, three events or records, five calls.
CONSTANTS
  Param = {"x"}
  Fuel = 4
  MaxProgram = 3
  MaxEvents = 3
  MaxCalls = 5
  DefaultTokens = 3
SPECIFICATION Spec
INVARIANTS
  
  ReplayIsWhole
  
  TablesAreTrue
CHECK_DEADLOCK FALSE
