---------------------------- MODULE MCSyncFacade ----------------------------
EXTENDS SyncFacade
=============================================================================
