---------------------------- MODULE MCHTTPInputs ----------------------------
EXTENDS HTTPInputs
=============================================================================
