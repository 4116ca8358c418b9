SPECIFICATION FairSpec
CONSTANTS
    Caller = {c1, c2}
    Key = {k1, k2}
    None = None
INVARIANTS
    CloseJoinsWorkers
    DrainedOnce
    NobodyForgotten
PROPERTIES
    EverybodyReturns
