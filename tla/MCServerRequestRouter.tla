------------------------- MODULE MCServerRequestRouter -------------------------
EXTENDS ServerRequestRouter

CONSTANT id   \* the one wire id of all requests

MCWireId == [r \in Requests |-> id]
=============================================================================
