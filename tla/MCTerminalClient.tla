-------------------------- MODULE MCTerminalClient --------------------------
EXTENDS TerminalClient
=============================================================================
