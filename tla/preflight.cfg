SPECIFICATION PreflightSpec
CONSTANTS
    Node <- ThreeNodes
    MaxDeps = 2
    Publisher = {p1}
    EntryFailed <- FirstNode
    Executed <- FirstNode
    MaxPublications = 2
INVARIANTS FailedAreCycles DiagnosticsAreStable FailuresInstalled FailuresPublished
