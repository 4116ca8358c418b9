SPECIFICATION PreflightSpec
CONSTANTS
    Node <- TwoNodes
    MaxDeps = 1
    Publisher = {p1, p2}
    EntryFailed = {}
    Executed = {}
    MaxPublications = 2
INVARIANTS FailuresInstalled
