SPECIFICATION Spec
CONSTANTS
    Id <- ThreeIds
    Content <- TwoContents
    Owner <- Chain
    Authored <- AllStatic
    Emits <- Both
    Writable <- FirstId
    MaxEmissions = 3
    MaxWrites = 1
INVARIANTS ValidReadsKeepTheSlot Announced StaleOnlyInWindow
PROPERTIES KeepsPromise AddedIsInForce
CHECK_DEADLOCK FALSE
