---------------------------- MODULE MCToolServers ----------------------------
EXTENDS ToolServers
==============================================================================
