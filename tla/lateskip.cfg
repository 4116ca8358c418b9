SPECIFICATION Spec
CONSTANTS
    Node <- ThreeNodes
    Source <- FirstNode
    MaxGates = 2
    MaxChanges = 1
INVARIANTS
    SkipIsLifted
