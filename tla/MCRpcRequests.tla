---------------------------- MODULE MCRpcRequests ----------------------------
EXTENDS RpcRequests
=============================================================================
