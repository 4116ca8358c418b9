--------------------------- MODULE MCRegistration ---------------------------
EXTENDS Registration
=============================================================================
