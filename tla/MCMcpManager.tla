---------------------------- MODULE MCMcpManager ----------------------------
\* One server, two reloads.
EXTENDS McpManager
=============================================================================
