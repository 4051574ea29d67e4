--------------------------- MODULE MCSyncManager ---------------------------
EXTENDS SyncManager
MCSelections == {{}, {1, 2}, {2, 3}}
=============================================================================
