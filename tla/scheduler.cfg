SPECIFICATION FairSpec
CONSTANTS
    NodeID <- TwoNodes
    Seeds <- OneSeed
    MaxRedispatches = 1
    MaxPublications = 2
    MaxPanics = 1
    MaxEvents = 2
    Cancellable = TRUE
INVARIANTS
    Accounting
    NoLostInvalidation
    FixpointSound
    QuiescentSweep
    UnresolvedOnlyAfterPanic
    NoMissedWakeup
PROPERTIES
    EscalatesWhenSettled
    Terminates
