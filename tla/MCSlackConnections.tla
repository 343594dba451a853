------------------------- MODULE MCSlackConnections -------------------------
\* Small instances of SlackConnections.
EXTENDS SlackConnections, TLC

Interchangeable == Permutations(Callbacks) \cup Permutations(Notifications)
=============================================================================
