--------------------------- MODULE MCControlPlane ---------------------------
EXTENDS ControlPlane

CONSTANTS a1, a2

\* Two tasks for one agent, one for the other.
MCTarget == <<a1, a1, a2>>

\* Mailboxes with room, of one message, and lossy ones.
MCWorlds ==
  {[size |-> 5, lossy |-> FALSE, noise |-> {"ignored", "broken"}],
   [size |-> 1, lossy |-> FALSE, noise |-> {"ignored"}],
   [size |-> 2, lossy |-> TRUE, noise |-> {}]}
=============================================================================
