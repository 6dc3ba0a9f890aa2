--------------------------- MODULE MCSyncJobLease ---------------------------
EXTENDS SyncJobLease
=============================================================================
