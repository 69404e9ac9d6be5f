--------------------------- MODULE MCAgentRequest ---------------------------
EXTENDS AgentRequest

\* One world without faults or timeouts; then, one at a time, requests made by
\* on_message (and mailboxes of one message), a bus that loses messages, and
\* agents that are killed.
Plain == [nesting |-> FALSE, timed |-> {FALSE}, kills |-> FALSE,
          lossy |-> FALSE, capacity |-> 6]
Timed == [Plain EXCEPT !.timed = {TRUE}]
MCWorlds ==
  {Plain, [Timed EXCEPT !.nesting = TRUE, !.capacity = 1],
   [Timed EXCEPT !.lossy = TRUE], [Timed EXCEPT !.kills = TRUE]}
=============================================================================
