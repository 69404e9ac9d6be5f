\* An agent that polls and may be killed beside one that waits patiently; names
\* are unregistered and taken again, and reached by name or by capability.
CONSTANTS
  Name = {1, 2}
  Cap = {cap}
  Capacity = 1
  Polling = {1}
  Killable = {1}
  MaxRegistrations = 2
  MaxCalls = 2
  MaxAccepted = 2
SPECIFICATION FairSpec
INVARIANTS TypeOK PatientConsumersLoseNothing CapabilitiesHaveMailboxes
PROPERTIES FifoSpec WaitsEnd
CHECK_DEADLOCK FALSE
