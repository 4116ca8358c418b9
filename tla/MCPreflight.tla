---------------------------- MODULE MCPreflight ----------------------------
EXTENDS Preflight
TwoNodes == 1 .. 2
ThreeNodes == 1 .. 3
FirstNode == {1}
=============================================================================
