--------------------------- MODULE MCTaskService ---------------------------
EXTENDS TaskService
=============================================================================
