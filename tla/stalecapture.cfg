SPECIFICATION Spec
CONSTANTS
    Id <- ThreeIds
    Content <- TwoContents
    Owner <- Chain
    Authored <- AllStatic
    Emits <- OneWay
    Writable <- FirstId
    MaxEmissions = 4
    MaxWrites = 0
INVARIANTS CaptureIsCurrent
CHECK_DEADLOCK FALSE
