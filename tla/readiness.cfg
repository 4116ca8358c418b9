SPECIFICATION FairSpec
CONSTANTS
    Node <- ThreeNodes
    Source <- FirstNode
    MaxGates = 2
    MaxChanges = 1
INVARIANTS
    StatusIsVerdict
    GatesDecide
PROPERTIES
    Converges
