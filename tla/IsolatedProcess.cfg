\* Queues of one and two messages, three from the child and two for it.
CONSTANTS
  Sizes = {1, 2}
  BreakingSets <- MCBreakingSets
  MaxSent = 3
  MaxArrivals = 2
SPECIFICATION Spec
INVARIANTS
  MessagesAreKept
  NoChildTooMany
  EndsAreTrue

  
\* When the child is dead and all has been noticed nothing is left to do.
CHECK_DEADLOCK FALSE
