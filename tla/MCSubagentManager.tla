------------------------- MODULE MCSubagentManager -------------------------
\* Three agents under a cap of one: a child and its own child, or two agents
\* and one of the bulk renamer.
EXTENDS SubagentManager
=============================================================================
