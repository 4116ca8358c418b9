---------------------------- MODULE MCReadiness ----------------------------
EXTENDS Readiness
ThreeNodes == 1 .. 3
FirstNode == {1}
=============================================================================
