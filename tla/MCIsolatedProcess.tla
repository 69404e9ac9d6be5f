------------------------- MODULE MCIsolatedProcess -------------------------
EXTENDS IsolatedProcess

\* No message breaks the bridge, or the second one does.
MCBreakingSets == {{}, {2}}
=============================================================================
