SPECIFICATION FairAcquisition
INVARIANTS
    LeaksOnlyInWindow
    NoUseAfterClose
    ForceDecides
PROPERTIES
    AcquireReturns
