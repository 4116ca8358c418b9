SPECIFICATION FairSpec
CONSTANTS
    Task = {t1, t2}
    Service = {main, fork}
    Workers = 1
INVARIANTS
    SlotsConserved
    JoinSeesAll
PROPERTIES
    EveryTaskEnds
