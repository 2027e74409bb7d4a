---------------------------- MODULE MCStdioTransport ----------------------------
EXTENDS StdioTransport
=============================================================================
